----------------------------- MODULE Lifecycle -----------------------------
(***************************************************************************)
(* What a connection promises about its close handshake and its message in *)
(* progress, whatever bytes arrive: the steps src/session/lifecycle.c      *)
(* allows, in any order, and nothing else.  The driver is shown to         *)
(* implement this specification.                                           *)
(***************************************************************************)

VARIABLES state,      \* "CONNECTING", "OPEN", "CLOSING" or "CLOSED"
          frag,       \* type of the message in progress, "NONE" between messages
          sent_close, \* this side's half of the close handshake
          rcvd_close  \* the peer's half

lcvars == << state, frag, sent_close, rcvd_close >>

Active == state \in {"OPEN", "CLOSING"}

Init ==
    /\ state = "CONNECTING"
    /\ frag = "NONE"
    /\ sent_close = FALSE
    /\ rcvd_close = FALSE

Handshake ==
    /\ state = "CONNECTING"
    /\ state' = "OPEN"
    /\ UNCHANGED << frag, sent_close, rcvd_close >>

SendClose ==
    /\ state = "OPEN"
    /\ state' = "CLOSING"
    /\ sent_close' = TRUE
    /\ UNCHANGED << frag, rcvd_close >>

\* The message in progress is discarded with the connection.
RecvClose ==
    /\ Active
    /\ state' = "CLOSED"
    /\ rcvd_close' = TRUE
    /\ sent_close' = TRUE
    /\ frag' = "NONE"

StartFrag(type) ==
    /\ Active
    /\ frag = "NONE"
    /\ frag' = type
    /\ UNCHANGED << state, sent_close, rcvd_close >>

\* The message is complete, or is given up with the connection.
FinishFrag ==
    /\ Active
    /\ frag # "NONE"
    /\ frag' = "NONE"
    /\ UNCHANGED << state, sent_close, rcvd_close >>

Next ==
    \/ Handshake
    \/ SendClose
    \/ RecvClose
    \/ \E type \in {"TEXT", "BIN"} : StartFrag(type)
    \/ FinishFrag

Spec == Init /\ [][Next]_lcvars
=============================================================================
