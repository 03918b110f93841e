--------------------------- MODULE GroupSnapshot ---------------------------
(***************************************************************************)
(* What a group snapshot promises the user: the devices of one request   *)
(* are pivoted to their new images as a set, each new image becoming the *)
(* active layer over the device's previous one, in the order the request *)
(* lists them; or, if any of them fails, none is pivoted.  It models no  *)
(* code: it is the contract BlockTransaction is checked against.         *)
(***************************************************************************)
EXTENDS Naturals, Sequences, SequencesExt, FiniteSets

CONSTANTS
    Devices,    \* the drives a snapshot can name
    Files,      \* the image files a snapshot can create
    MAX_LIST    \* actions in one request

VARIABLES
    chain,      \* each device's snapshot images, the active one first
    request     \* the last request made

\* An action of a request: snapshot device dev into file.
Entries == [dev : Devices, file : Files]

\* The requests: up to MAX_LIST entries, each naming a different file.
Requests ==
    {req \in BoundedSeq(Entries, MAX_LIST) :
        req # <<>> /\ IsInjective([i \in DOMAIN req |-> req[i].file])}

\* The device of an entry gets its file as the new active layer.
Pivot(c, e) == [c EXCEPT ![e.dev] = <<e.file>> \o @]

Init ==
    /\ chain = [d \in Devices |-> <<>>]
    /\ request = <<>>

\* A request is carried out whole, or, failing, leaves the chains alone.
Snapshot(req) ==
    /\ request' = req
    /\ chain' \in {FoldLeft(Pivot, chain, req), chain}

Next == \E req \in Requests : Snapshot(req)

Spec == Init /\ [][Next]_<<chain, request>>
=============================================================================
