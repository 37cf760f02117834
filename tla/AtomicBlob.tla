------------------------------ MODULE AtomicBlob ------------------------------
(***************************************************************************)
(* What the blob store promises of one blob to those that put and get it:  *)
(* it is there or it is not, in one piece; once written and acknowledged   *)
(* it stays until its account is deleted, whatever stops; a get returns    *)
(* what was there when it began.  Nothing is said of files, names, and     *)
(* when what reaches the disk.                                             *)
(***************************************************************************)
CONSTANTS
    Version,     \* the ciphertexts the blob may have, one for each encryption
    Nothing      \* no blob; not one of them

VARIABLES
    blob,        \* what is stored
    durable,     \* what a power loss may bring back instead
    promised,    \* has a put acknowledged what it wrote?
    opened,      \* what the get under way has found
    answer       \* of the last get

vars == <<blob, durable, promised, opened, answer>>

Init ==
    /\ blob = Nothing /\ durable = Nothing /\ promised = FALSE
    /\ opened = Nothing /\ answer = "none"

\* A put writes once: it replaces nothing.
Store ==
    /\ blob = Nothing
    /\ blob' \in Version
    /\ UNCHANGED <<durable, promised, opened, answer>>

Acknowledge ==
    /\ blob # Nothing
    /\ durable' = blob
    /\ promised' = TRUE
    /\ UNCHANGED <<blob, opened, answer>>

\* A deletion takes the promise back; it may fail before it takes the blob.
Delete ==
    /\ blob' \in {blob, Nothing}
    /\ promised' = FALSE
    /\ UNCHANGED <<durable, opened, answer>>

\* A power loss may undo a deletion, until the next sync.
Settle ==
    /\ blob = Nothing
    /\ durable' = Nothing
    /\ UNCHANGED <<blob, promised, opened, answer>>

Open ==
    /\ opened = Nothing
    /\ opened' = blob
    /\ answer' = IF blob = Nothing THEN "BlobNotFound" ELSE "none"
    /\ UNCHANGED <<blob, durable, promised>>

Answer ==
    /\ opened # Nothing
    /\ opened' = Nothing
    /\ answer' = "plaintext"
    /\ UNCHANGED <<blob, durable, promised>>

\* The process stops, or the power goes; a promise is kept.
Stop ==
    /\ \/ UNCHANGED <<blob, durable>>
       \/ blob' \in {blob, durable} /\ durable' = blob'
    /\ promised => blob' # Nothing
    /\ opened' = Nothing
    /\ answer' = "none"
    /\ UNCHANGED promised

Next == Store \/ Acknowledge \/ Delete \/ Settle \/ Open \/ Answer \/ Stop

Spec == Init /\ [][Next]_vars
==============================================================================
