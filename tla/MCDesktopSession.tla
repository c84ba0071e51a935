-------------------------- MODULE MCDesktopSession --------------------------
(***************************************************************************)
(* The desktop app for TLC: its start (Launch), and its session while it   *)
(* is up (DesktopSession).  The two are checked apart: either moves        *)
(* (`part`) and the other rests.                                           *)
(***************************************************************************)
EXTENDS DesktopSession, TLC

CONSTANTS MaxPort, Reserved, Span, None, MaxStarts, MaxEdits

VARIABLES part, db, staged, keyring, busy, program, at, cursor, session, lanPort,
          notice, starts, edits

\* A preset for a display: no login, public viewing.
Preset == <<"disabled", "public">>

L == INSTANCE Launch WITH kind <- program, live <- lanPort, Seeds <- Preset

launchVars == <<db, staged, keyring, busy, program, at, cursor, session, lanPort,
                notice, starts, edits>>
allVars == <<part, vars, launchVars>>

PartsInit ==
    /\ part \in {"session", "launch"}
    /\ Init
    /\ part # "session" => config = NoConf /\ row = NoSession
    /\ L!Init
    /\ part # "launch" => DOMAIN db.stored = {}

PartsNext ==
    \/ part = "session" /\ Next /\ UNCHANGED <<part, launchVars>>
    \/ part = "launch" /\ L!Next /\ UNCHANGED <<part, vars>>

PartsSpec == PartsInit /\ [][PartsNext]_allVars

\* Launch!LaunchFollowsTheStore
LaunchFollowsTheStore == part = "launch" => L!LaunchFollowsTheStore

Symmetry == Permutations(Procs)
=============================================================================
