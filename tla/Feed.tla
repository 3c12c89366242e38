---------------------------------- MODULE Feed ----------------------------------
(***************************************************************************)
(* What a real-time feed with catch-up promises to the client of the       *)
(* Broadcaster: messages may be lost on the way, but never while the feed  *)
(* calls itself up to date, and it calls itself up to date again only when *)
(* all that was published has been given to the client or is on its way.   *)
(***************************************************************************)

CONSTANT Messages

VARIABLES
    published,  \* the messages published so far
    given,      \* the messages handed to the client
    coming,     \* the messages on their way to the client
    upToDate    \* what the feed says of itself

vars == <<published, given, coming, upToDate>>

Init ==
    /\ published = {} /\ given = {} /\ coming = {}
    /\ upToDate = FALSE

\* While the feed is up to date a new message is on its way at once.
Publish ==
    \E m \in Messages \ published :
        /\ published' = published \cup {m}
        /\ coming' = coming \cup {m} \/ (~upToDate /\ coming' = coming)
        /\ UNCHANGED <<given, upToDate>>

\* A message on its way arrives; coming up to date may be part of the same step.
Give ==
    \E M \in SUBSET published :
        /\ given' = given \cup M
        /\ coming' \in {coming, coming \ M}
        /\ upToDate' \in BOOLEAN
        /\ upToDate' => upToDate \/ published \subseteq given' \cup coming'
        /\ UNCHANGED published

Trouble ==
    /\ upToDate' = FALSE
    /\ \E M \in SUBSET coming : coming' = coming \ M
    /\ UNCHANGED <<published, given>>

Settle ==
    /\ published \subseteq given \cup coming
    /\ upToDate' = TRUE
    /\ UNCHANGED <<published, given, coming>>

Next == Publish \/ Give \/ Trouble \/ Settle

Spec == Init /\ [][Next]_vars

================================================================================
