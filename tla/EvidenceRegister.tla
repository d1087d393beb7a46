------------------------- MODULE EvidenceRegister -------------------------
(***************************************************************************)
(* What write_new_evidence promises to the programs that publish evidence  *)
(* under one path: a register that is written at most once.  Somebody's    *)
(* evidence can be lost only before its publication has been confirmed.    *)
(***************************************************************************)
CONSTANTS Writers, Nobody, Earlier

VARIABLES
  holder,   \* whose evidence a reader of the path finds, complete
  answer    \* what each writer has been told

Init ==
  /\ holder \in {Nobody, Earlier}
  /\ answer = [w \in Writers |-> "none"]

Answer(w, a) == answer[w] = "none" /\ answer' = [answer EXCEPT ![w] = a]

\* The path gets its evidence.
Take(w) == holder = Nobody /\ answer[w] = "none" /\ holder' = w /\ UNCHANGED answer

\* Evidence that nobody was promised disappears with a power failure.
Lose ==
  /\ holder \in Writers
  /\ answer[holder] # "confirmed"
  /\ holder' = Nobody
  /\ UNCHANGED answer

\* Success, an error without and an error after publication.
Confirm(w) == holder = w /\ Answer(w, "confirmed") /\ UNCHANGED holder
Refuse(w)  == holder # w /\ Answer(w, "refused") /\ UNCHANGED holder
Doubt(w)   == holder = w /\ Answer(w, "unconfirmed") /\ UNCHANGED holder

Next == Lose \/ \E w \in Writers : Take(w) \/ Confirm(w) \/ Refuse(w) \/ Doubt(w)

Spec == Init /\ [][Next]_<<holder, answer>>
============================================================================
