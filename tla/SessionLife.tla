----------------------------- MODULE SessionLife -----------------------------
(***************************************************************************)
(* What the session store promises about a session id: it is opened at     *)
(* most once, by one sign-in, and once closed it stays closed, whatever    *)
(* closed it (a logout, a lookup that found it expired, or the purge of a  *)
(* later sign-in).                                                         *)
(***************************************************************************)
CONSTANT Ids

VARIABLE life

Init == life = [id \in Ids |-> "new"]

\* A sign-in opens one id and may close any number of open ones.
SignIn(id, closed) ==
    /\ life[id] = "new"
    /\ \A other \in closed : life[other] = "open"
    /\ life' = [i \in Ids |-> IF i = id THEN "open"
                              ELSE IF i \in closed THEN "closed" ELSE life[i]]

Close(id) ==
    /\ life[id] = "open"
    /\ life' = [life EXCEPT ![id] = "closed"]

Next == \E id \in Ids : Close(id) \/ \E closed \in SUBSET Ids : SignIn(id, closed)

Spec == Init /\ [][Next]_life
=============================================================================
