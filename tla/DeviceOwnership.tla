---------------------------- MODULE DeviceOwnership ----------------------------
(***************************************************************************)
(* socket/state/callDeviceOwnership.js: which device of an account carries *)
(* the media of a call. The table is one Redis hash per call (or session,  *)
(* or room), one field per account; here the row of one account for one    *)
(* key. tryClaim is one Lua script, every other operation one command.     *)
(***************************************************************************)
CONSTANTS Devices, NoDevice

NoOwner       == [state |-> "none",    dev |-> NoDevice]
CallingOn(d)  == [state |-> "calling", dev |-> d]
RingingOwner  == [state |-> "ringing", dev |-> NoDevice]
ActiveOn(d)   == [state |-> "active",  dev |-> d]

Ownerships == [state : {"none", "calling", "ringing", "active", "left"},
               dev : Devices \union {NoDevice}]

(* TRY_CLAIM: a row must exist; an active row is held by its device only;   *)
(* a row marked left is refused; any other row goes to the claimant.       *)
HeldByOther(o, d) == o.state = "active" /\ o.dev # NoDevice /\ o.dev # d

\* Mutants: an active row goes to the latest claimant; a row is invented.
ClaimLatest(o, d)   == o.state \notin {"none", "left"}
ClaimInvented(o, d) == o.state # "left" /\ ~HeldByOther(o, d)

ClaimOk(o, d)     == o.state \notin {"none", "left"} /\ ~HeldByOther(o, d)

IsOwnerDevice(o, d) == o.dev = d /\ o.state # "left"
=============================================================================
