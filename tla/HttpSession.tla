----------------------------- MODULE HttpSession -----------------------------
(***************************************************************************)
(* A browser tab against the LAN server: the session controller over the   *)
(* HTTP auth provider (packages/admin-core/src/providers/http.ts), with    *)
(* another tab of the same browser, and the server revoking sessions.      *)
(*                                                                         *)
(* The token in localStorage ("shared") is common to the tabs, the one in  *)
(* sessionStorage ("own") is this tab's, and the shared one is read first. *)
(* The other tab's write is in the storage at once; the storage event that *)
(* reports it to this tab comes later, and only it moves this tab's        *)
(* revision.  A token is a number, 0 for none; the server mints each once. *)
(*                                                                         *)
(* provider.resolve() is a question in three parts: sent, served (the      *)
(* response is on its way), body (the headers were judged, the body is     *)
(* read).  A question whose probe is done goes on until it is answered or  *)
(* the abort rejects it.  Reading and writing the two storages between two *)
(* awaits is atomic.                                                       *)
(***************************************************************************)
EXTENDS SessionController

CONSTANTS MaxToken,   \* tokens the server mints
          MaxOutside, \* writes of the other tab and signals, together
          MaxLate     \* unanswered questions of probes that are done

ASSUME TokensAreNat == MaxToken \in Nat

VARIABLES
    c,         \* the controller
    counter,   \* the provider's revision
    shared,    \* the token in localStorage
    own,       \* the token in this tab's sessionStorage
    events,    \* storage events not delivered to this tab yet
    outside,   \* writes of the other tab and signals so far
    op,        \* the operation on the credential this tab has under way
    ownerOf,   \* whose session each token is; NoOne before it is minted
    live,      \* the tokens the server still accepts
    dead,      \* the tokens that were revoked before the last signal
    told       \* the user the page last knew of since the session last ended

vars == <<c, counter, shared, own, events, outside, op, ownerOf,
          live, dead, told>>
storage == <<shared, own>>
server == <<ownerOf, live>>
ghosts == <<dead, told>>

Tokens == 1 .. MaxToken
NoOp == [rev |-> -1]

Token == IF shared # 0 THEN shared ELSE own

Ask(rev, token) == [checked |-> rev, token |-> token, at |-> "sent", said |-> "nothing"]

(* The provider as the controller sees it now, and after a step. *)
Provider == [rev |-> counter, ask |-> Ask(counter, Token)]
ProviderNext == [rev |-> counter', ask |-> Ask(counter', Token')]

Minted == {t \in Tokens : ownerOf[t] # NoOne}
Fresh == CHOOSE t \in Tokens : t \notin Minted

Mint(who) ==
    /\ Minted # Tokens
    /\ ownerOf' = [ownerOf EXCEPT ![Fresh] = who]
    /\ live' = live \cup {Fresh}

(* What the page knows: kept by hand beside the code, which has no such    *)
(* variable.  A first user is known from the screen; after that only an    *)
(* acknowledgement moves it.                                               *)
ToldAfter(next) ==
    IF next.status = "none" THEN NoOne
    ELSE IF told = NoOne /\ next.owner \in Users THEN next.owner
    ELSE told

(* The controller's next state, with the bound on late questions.  What    *)
(* was revoked before a signal matters until the signal is answered.       *)
Advance(next, deadNow) ==
    /\ Cardinality(next.late) <= MaxLate
    /\ c' = next
    /\ told' = ToldAfter(next)
    /\ dead' = IF next.pending THEN deadNow ELSE {}

Controller(next) == Advance(next, dead)

Init ==
    /\ c = InitialController
    /\ counter = 0
    /\ ownerOf \in {f \in [Tokens -> {NoOne} \cup Owners] :
                      \A t \in Tokens : t > 1 => f[t] = NoOne}
    /\ live = {t \in Tokens : ownerOf[t] # NoOne}
    /\ \/ shared = 0 /\ own \in {0} \cup live
       \/ own = 0 /\ shared \in {t \in live : ownerOf[t] \in Users}
    /\ events = 0
    /\ outside = 0
    /\ op = NoOp
    /\ dead = {}
    /\ told = NoOne

-----------------------------------------------------------------------------
(* Storing a token.  clear is setToken(null), which empties both storages. *)
SetToken(t, remember) ==
    /\ shared' = IF t # 0 /\ remember THEN t ELSE 0
    /\ own' = IF t # 0 /\ ~remember THEN t ELSE 0

(* Mutant: this tab's own write does not move the revision. *)
MutWriteToken(t, remember) ==
    /\ SetToken(t, remember)
    /\ counter' = counter

(* writeToken: the revision moves when the stored token did. *)
WriteToken(t, remember) ==
    /\ SetToken(t, remember)
    /\ counter' = IF Token' # Token THEN counter + 1 ELSE counter

(* writeTokenIfUnchanged: only over the token and the revision the         *)
(* operation started from, and reported to the controller.                 *)
Unchanged(start) == counter = start.rev /\ Token = start.token

WriteTokenIfUnchanged(start, t, remember) ==
    IF Unchanged(start)
    THEN /\ WriteToken(t, remember)
         /\ Controller(IF Token' # Token THEN OnCredentialChanged(c, ProviderNext) ELSE c)
    ELSE UNCHANGED <<storage, counter, c, ghosts>>

(* An operation is what it started from; whether it is a login (or the     *)
(* first setup), a logout or a password change shows at its reply.         *)
Begin(grant) ==
    /\ op = NoOp
    /\ op' = [grant |-> grant, rev |-> counter, token |-> Token]
    /\ UNCHANGED <<c, counter, storage, events, outside, server, ghosts>>

StartOperation == Begin(FALSE)

(* grantFallback, on a ticket that is still current, for a confirmed none; *)
(* with a token stored already no request is made.                         *)
StartEnterGrant ==
    /\ c.status = "none"
    /\ c.applied = counter
    /\ Token = 0
    /\ Begin(TRUE)

Replied(grant) ==
    /\ op # NoOp
    /\ op.grant = grant
    /\ op' = NoOp
    /\ UNCHANGED <<events, outside>>

LoginReply(user, remember) ==
    /\ Replied(FALSE)
    /\ Mint(user)
    /\ WriteTokenIfUnchanged(op, Fresh, remember)

EnterGrantReply(grant) ==
    /\ Replied(TRUE)
    /\ Mint(grant)
    /\ WriteTokenIfUnchanged(op, Fresh, FALSE)

(* The local token goes whether the server was reached or not; when it     *)
(* was, its revocation of the token is a Revoke before this step.          *)
LogoutReply ==
    /\ Replied(FALSE)
    /\ WriteTokenIfUnchanged(op, 0, FALSE)
    /\ UNCHANGED server

(* A password change answered 401: the token it was sent with is over. *)
ChangePasswordUnauthorized ==
    /\ Replied(FALSE)
    /\ op.token \notin live \cup {0}
    /\ IF Token = op.token
       THEN /\ WriteToken(0, FALSE)
            /\ Controller(OnCredentialChanged(c, ProviderNext))
       ELSE UNCHANGED <<storage, counter, c, ghosts>>
    /\ UNCHANGED server

(* A login or a grant is refused, a request fails, a password is changed. *)
NothingStored ==
    /\ op # NoOp
    /\ op' = NoOp
    /\ UNCHANGED <<c, counter, storage, events, outside, server, ghosts>>

-----------------------------------------------------------------------------
(* The other tab writes the shared token; this tab will hear of it. *)
OtherWrites(t) ==
    /\ outside < MaxOutside
    /\ t # shared
    /\ outside' = outside + 1
    /\ shared' = t
    /\ events' = events + 1
    /\ UNCHANGED <<c, counter, own, op, ghosts>>

OtherLogin(user) ==
    /\ Mint(user)
    /\ OtherWrites(Fresh)

(* A logout there, or a login it does not remember. *)
OtherForgets ==
    /\ OtherWrites(0)
    /\ UNCHANGED server

StorageEvent ==
    /\ events > 0
    /\ events' = events - 1
    /\ counter' = counter + 1
    /\ Controller(OnCredentialChanged(c, [rev |-> counter + 1, ask |-> Ask(counter + 1, Token)]))
    /\ UNCHANGED <<storage, outside, op, server>>

(* The server ends a session: an administrator, an expiry, a new role. *)
Revoke(t) ==
    /\ t \in live
    /\ live' = live \ {t}
    /\ UNCHANGED <<c, counter, storage, events, outside, op, ownerOf, ghosts>>

-----------------------------------------------------------------------------
(* The life of a question. *)
Served(ask) ==
    {[ask EXCEPT !.at = "served", !.said = s] :
        s \in {IF ask.token \in live THEN ownerOf[ask.token] ELSE NoOne}}

(* The headers are judged: an answer about a token that is no longer the   *)
(* stored one is stale; otherwise the body is read.                        *)
StaleHere(ask) == ask.at = "served" /\ Token # ask.token
Judged(ask) ==
    IF ask.at = "served" /\ ~StaleHere(ask) THEN {[ask EXCEPT !.at = "body"]} ELSE {}

Progress(ask) ==
    IF ask.at = "sent" /\ ask.token # 0 THEN Served(ask) ELSE Judged(ask)

SaysNone(ask) ==
    \/ ask.token = 0
    \/ ask.at = "served" /\ ~StaleHere(ask) /\ ask.said = NoOne
    \/ ask.at = "body" /\ ask.said = NoOne

(* Mutant: whatever token is stored is cleared. *)
MutClearTokenIfCurrent(ask) == ask.token # 0

(* clearTokenIfCurrent: the token that was found to be over, if it is      *)
(* still the stored one.                                                   *)
ClearTokenIfCurrent(ask) == ask.token # 0 /\ Token = ask.token

(* What the controller makes of an answer to the probe in flight, or to    *)
(* the question of a probe that is done.                                   *)
Handled(late, ask, p, a) ==
    IF late THEN OnLateAnswer(c, p, ask, a) ELSE OnProbeSettled(c, p, a)

Answer(ask, who, current) ==
    [ok |-> TRUE, stale |-> FALSE, checked |-> ask.checked, current |-> current, who |-> who]
Rejection(ask, stale) ==
    [ok |-> FALSE, stale |-> stale, checked |-> ask.checked, current |-> ask.checked,
     who |-> NoOne]

SettlesUnchanged(late, ask, a) ==
    /\ Controller(Handled(late, ask, Provider, a))
    /\ UNCHANGED <<counter, storage>>

(* No answer, an error of the server, or the abort. *)
Fails(late, ask) == ask.token # 0 /\ SettlesUnchanged(late, ask, Rejection(ask, FALSE))

IsStale(late, ask) == StaleHere(ask) /\ SettlesUnchanged(late, ask, Rejection(ask, TRUE))

AnswersActive(late, ask) ==
    /\ ask.at = "body"
    /\ ask.said \in Owners
    /\ SettlesUnchanged(late, ask, Answer(ask, ask.said, ask.checked))

(* None is carried by the answer together with the clearing, which is not  *)
(* reported otherwise.                                                     *)
AnswersNone(late, ask) ==
    /\ SaysNone(ask)
    /\ IF ClearTokenIfCurrent(ask)
       THEN /\ WriteToken(0, FALSE)
            /\ Controller(Handled(late, ask, ProviderNext, Answer(ask, NoOne, counter')))
       ELSE SettlesUnchanged(late, ask, Answer(ask, NoOne, ask.checked))

Settles(late, ask) ==
    /\ \/ Fails(late, ask)
       \/ IsStale(late, ask)
       \/ AnswersActive(late, ask)
       \/ AnswersNone(late, ask)
    /\ UNCHANGED <<events, outside, op, server>>

ProbeProgress ==
    /\ c.probe # NoProbe
    /\ \E next \in Progress(c.probe.ask) : c' = [c EXCEPT !.probe.ask = next]
    /\ UNCHANGED <<counter, storage, events, outside, op, server, ghosts>>

ProbeSettles == c.probe # NoProbe /\ Settles(FALSE, c.probe.ask)

LateProgress(ask) ==
    /\ \E next \in Progress(ask) : c' = [c EXCEPT !.late = (@ \ {ask}) \cup {next}]
    /\ UNCHANGED <<counter, storage, events, outside, op, server, ghosts>>

LateSettles(ask) == Settles(TRUE, ask)

-----------------------------------------------------------------------------
(* The controller's own events. *)
Quiet == UNCHANGED <<counter, storage, events, op, server>>

ProbeTimeout ==
    /\ c.probe # NoProbe
    /\ Controller(OnProbeTimeout(c, Provider))
    /\ Quiet /\ UNCHANGED outside

BackgroundTimer ==
    /\ c.timer
    /\ Controller(OnBackgroundTimer(c, Provider))
    /\ Quiet /\ UNCHANGED outside

(* A page asks, and asks again by itself while it is superseded. *)
Navigate(w) ==
    /\ w \notin c.waiting
    /\ Controller(Resolve(c, Provider, w, "navigation"))
    /\ Quiet /\ UNCHANGED outside

Signalled(next) ==
    /\ outside < MaxOutside
    /\ outside' = outside + 1
    /\ Advance(next, Minted \ live)

AskBySignal(w) ==
    /\ w \notin c.waiting
    /\ Signalled(Resolve(c, Provider, w, "signal"))
    /\ Quiet

RaiseSignal ==
    /\ Signalled(Signal(c, Provider))
    /\ Quiet

CallerLeaves(w) ==
    /\ w \in c.waiting
    /\ Controller(Leave(c, w))
    /\ Quiet /\ UNCHANGED outside

AcknowledgeOwnerChange ==
    /\ c.status = "active"
    /\ c.change # NoChange
    /\ c' = Acknowledge(c)
    /\ told' = c.lastUser
    /\ Quiet /\ UNCHANGED <<outside, dead>>

Operation ==
    \/ StartOperation
    \/ StartEnterGrant
    \/ \E user \in Users, remember \in BOOLEAN : LoginReply(user, remember)
    \/ \E grant \in Grants : EnterGrantReply(grant)
    \/ LogoutReply
    \/ ChangePasswordUnauthorized
    \/ NothingStored

Environment ==
    \/ \E user \in Users : OtherLogin(user)
    \/ OtherForgets
    \/ StorageEvent
    \/ \E t \in Tokens : Revoke(t)

Question ==
    \/ ProbeProgress
    \/ ProbeSettles
    \/ \E ask \in c.late : LateProgress(ask) \/ LateSettles(ask)
    \/ ProbeTimeout
    \/ BackgroundTimer

Page ==
    \/ \E w \in Callers : Navigate(w) \/ AskBySignal(w) \/ CallerLeaves(w)
    \/ RaiseSignal
    \/ AcknowledgeOwnerChange

Next == Operation \/ Environment \/ Question \/ Page

Spec == Init /\ [][Next]_vars

-----------------------------------------------------------------------------
(* No step of the tab, late answers of abandoned probes and unreported     *)
(* clearings included, leaves a user active once the provider's revision   *)
(* is no longer the one that user was confirmed with; and once no storage  *)
(* event is on its way, a state confirmed with the current revision is     *)
(* about the token that is stored: the user on the screen is the one whose *)
(* token the next request carries, and a confirmed none has no token       *)
(* behind it (onCredentialChanged, detectDrift, the answers of done        *)
(* probes, and resolve() against a write of another tab not reported yet). *)
ConfirmedIsCurrent ==
    /\ c.status = "active" => c.applied = counter
    /\ (events = 0 /\ c.status # "unknown" /\ c.applied = counter)
           => c.owner = (IF Token = 0 THEN NoOne ELSE ownerOf[Token])

(* No retirement, hold, discard, timeout or leaving caller forgets anyone: *)
(* a caller that waits, waits for a probe; a needed confirmation is being  *)
(* asked for or has its timer running (pendingBackground); and the change  *)
(* of account the page has to tell of leads from the user it last knew to  *)
(* the account last active, through holds, grants and a return of the      *)
(* first user.                                                             *)
NobodyIsForgotten ==
    /\ c.waiting # {} => c.probe # NoProbe
    /\ c.pending => c.probe # NoProbe \/ c.timer
    /\ c.change = IF told = NoOne \/ told = c.lastUser THEN NoChange
                  ELSE [from |-> told, to |-> c.lastUser]

(* After a signal only a probe started later settles the matter: a token   *)
(* the server had revoked before the signal is never confirmed active by   *)
(* the answer that ends the signal's confirmation.                         *)
SignalIsAnsweredAfresh ==
    [][(c.pending /\ ~c'.pending /\ c'.status = "active")
          => c.probe.ask.token \notin dead]_vars

(* A token the server still accepts is emptied from this tab's storages    *)
(* only by the other tab or by a logout that was started with it: no late  *)
(* answer about an older token and no overtaken operation takes it.        *)
LiveTokenStays ==
    [][(Token \in live /\ Token' = 0)
          => \/ outside' # outside
             \/ op # NoOp /\ op' = NoOp /\ op.token = Token]_vars
=============================================================================
