------------------------------- MODULE Account -------------------------------
(***************************************************************************)
(* mi/base/account/mi_account_impl.go, and what the two cloud clients do   *)
(* with an account (mina_impl.go and miot_impl.go).  A client logs in once *)
(* and keeps a COPY of the account, made when the login returned.  Only    *)
(* the account itself is subscribed to its PubSub, so a login the PubSub   *)
(* causes later changes the account and not the copy.                      *)
(*                                                                         *)
(* The PubSub is what module PubSub says of it: the goroutine run ends at  *)
(* once and closes done when the context is live, loops when it is not;    *)
(* messages are delivered once the context is cancelled, one at a time.    *)
(* OnMessage, and with it the login, is under the lock Publish needs.      *)
(*                                                                         *)
(* The cloud is external.  A session is the number of a login it accepted; *)
(* the Pass of a session and the service token signed with it are known by *)
(* that number.  Sessions expire.                                          *)
(***************************************************************************)
EXTENDS Naturals

CONSTANTS
    MaxSessions,  \* how many logins the cloud accepts (bound)
    MaxDepth,     \* how deep logins nest (bound)
    MaxPending    \* how many messages wait in the PubSub (bound)

ASSUME AccountAssumption == {MaxSessions, MaxDepth, MaxPending} \subseteq Nat

VARIABLES
    sid,          \* which service: the client is Mina's or Miot's
    pc, by,       \* where GetLoginAccount is, and who called it
    depth,        \* the TakeLoginTokens that wait for a login of their own
    pass, token,  \* m.Pass and m.ServiceToken
    up,           \* the client exists
    clientPass, clientToken,  \* those fields of the client's copy
    reply,        \* what the client's last request came to
    refresh,      \* where a RefreshLoginToken is
    asked,        \* how many sessions there were when it was called
    cancelled,    \* the context is
    run,          \* where the serializer's goroutine is
    closed,       \* the serializer's buffer is
    subscribed,   \* the account is
    pending,      \* the messages that are published and not delivered
    opened, live, \* the sessions the cloud has opened, and those still good
    crashed       \* the process died

loginVars   == <<pc, by, depth, pass, token>>
clientVars  == <<up, clientPass, clientToken, reply>>
refreshVars == <<refresh, asked>>
pubsubVars  == <<cancelled, run, closed, subscribed, pending>>
cloudVars   == <<opened, live>>
vars == <<sid, loginVars, clientVars, refreshVars, pubsubVars, cloudVars, crashed>>

Sessions == 0..MaxSessions

(* A Pass; whole: nonce, location and ssecurity are there; renewable: so is *)
(* passToken.  Session 0 is the nil pointer, token 0 the empty string.      *)
NoPass == [session |-> 0, whole |-> FALSE, renewable |-> FALSE]
Passes == {NoPass} \cup
          [session : Sessions \ {0}, whole : BOOLEAN, renewable : BOOLEAN]

TypeOK ==
    /\ sid \in {"mina", "miot"}
    /\ pc \in {"start", "login", "auth", "take", "read", "sign", "idle"}
    /\ by \in {"init", "pubsub"}
    /\ depth \in 0..MaxDepth
    /\ {pass, clientPass} \subseteq Passes
    /\ {token, clientToken, asked, opened} \subseteq Sessions
    /\ live \subseteq 1..opened
    /\ reply \in {"none", "served", "refused", "failed", "unregistered"}
    /\ refresh \in {"none", "on", "returned", "rejected"}
    /\ run \in {"start", "over", "looping"}
    /\ pending \in 0..MaxPending
    /\ {up, cancelled, closed, subscribed, crashed} \subseteq BOOLEAN
    /\ refresh \in {"on", "returned"} => clientPass.renewable   \* PassToken is there

Init ==
    /\ sid \in {"mina", "miot"}
    /\ pc = "start" /\ by = "init" /\ depth = 0
    /\ pass = NoPass /\ token = 0
    /\ up = FALSE /\ clientPass = NoPass /\ clientToken = 0 /\ reply = "none"
    /\ refresh = "none" /\ asked = 0
    /\ cancelled = FALSE /\ run = "start" /\ closed = FALSE
    /\ subscribed = FALSE /\ pending = 0
    /\ opened = 0 /\ live = {} /\ crashed = FALSE

-----------------------------------------------------------------------------
(* GetLoginAccount, in InitMina, InitMiot or OnMessage. *)

Goto(from, to) == ~crashed /\ pc = from /\ pc' = to

(* A panic or a nil dereference in any goroutine. *)
Die ==
    /\ ~crashed
    /\ crashed' = TRUE
    /\ UNCHANGED <<sid, loginVars, clientVars, refreshVars, pubsubVars, cloudVars>>

(* What a login leaves alone. *)
LoginStep == UNCHANGED <<sid, by, refreshVars, pubsubVars, crashed>>

(* InitMIAccount. *)
InitMIAccount ==
    /\ Goto("start", "login")
    /\ UNCHANGED <<depth, pass, token, clientVars, cloudVars>> /\ LoginStep

(* Was the login begun by a TakeLoginToken (line 93)? *)
Nested == depth > 0

(***************************************************************************)
(* GetLoginAccount returns without an error: to the TakeLoginToken that    *)
(* called it, to InitMina or InitMiot, which copies *act, or to OnMessage, *)
(* which drops the result.                                                 *)
(***************************************************************************)
Succeed(serviceToken) ==
    /\ ~crashed
    /\ token' = serviceToken
    /\ \/ /\ Nested
          /\ depth' = depth - 1
          /\ pc' = "read"
          /\ UNCHANGED <<up, clientPass, clientToken>>
       \/ /\ ~Nested /\ by = "init"
          /\ pc' = "idle" /\ up' = TRUE
          /\ clientPass' = pass /\ clientToken' = serviceToken
          /\ UNCHANGED depth
       \/ /\ ~Nested /\ by = "pubsub"
          /\ pc' = "idle"
          /\ UNCHANGED <<depth, up, clientPass, clientToken>>
    /\ UNCHANGED <<pass, reply, cloudVars>> /\ LoginStep

(* With an error: the first two panic. *)
Fail ==
    \/ (Nested \/ by = "init") /\ Die
    \/ /\ ~crashed /\ ~Nested /\ by = "pubsub"
       /\ pc' = "idle"
       /\ UNCHANGED <<depth, pass, token, clientVars, cloudVars>> /\ LoginStep

(* ServiceLogin.  With code 0 there is nothing to do, and no Pass is set. *)
LoggedIn == pc = "login" /\ Succeed(token)

NotLoggedIn ==
    /\ Goto("login", "auth")
    /\ UNCHANGED <<depth, pass, token, clientVars, cloudVars>> /\ LoginStep

(* On its other errors it returns an empty response, whose Qs is nil. *)
ServiceLoginFails == pc = "login" /\ Die

(* The second request: m.Pass becomes that of a new session. *)
Authenticate(whole, renewable) ==
    /\ Goto("auth", "take")
    /\ opened < MaxSessions /\ (whole \/ depth < MaxDepth)
    /\ opened' = opened + 1
    /\ live' = live \cup {opened'}
    /\ pass' = [session |-> opened', whole |-> whole, renewable |-> renewable]
    /\ UNCHANGED <<depth, token, clientVars>> /\ LoginStep

(* It fails, or the user is to open a page first. *)
AuthenticateFails == pc = "auth" /\ Fail

(* TakeLoginToken, lines 92-97. *)
TakeLoginToken ==
    /\ IF pass.whole
         THEN Goto("take", "read") /\ UNCHANGED depth
         ELSE Goto("take", "login") /\ depth' = depth + 1
    /\ UNCHANGED <<pass, token, clientVars, cloudVars>> /\ LoginStep

(* Lines 99-101 dereference what is there by now. *)
ReadPass ==
    /\ pass.whole
    /\ Goto("read", "sign")
    /\ UNCHANGED <<depth, pass, token, clientVars, cloudVars>> /\ LoginStep

ReadPassFails == pc = "read" /\ ~pass.whole /\ Die

(* The last request sets a cookie, ... *)
TakeCookie == pc = "sign" /\ Succeed(pass.session)

(* ... or does not, which is an error if there is no token yet.  Mutant:    *)
(* line 146 is missing.                                                     *)
MutHasToken == TRUE
HasToken    == token # 0

NoCookie ==
    /\ pc = "sign"
    /\ \/ HasToken /\ Succeed(token)
       \/ ~HasToken /\ Fail

(* It fails, or the location is no URL, which is a panic. *)
TakeFails == pc = "sign" /\ (Fail \/ Die)

-----------------------------------------------------------------------------
(* The client, in whichever goroutine of the program. *)

(* Mutant: the clients embed the account itself.  *)
MutHeld == [pass |-> pass, token |-> token]
Held    == [pass |-> clientPass, token |-> clientToken]

(* A good token; Miot's requests are also signed, with the Pass. *)
Accepted ==
    /\ Held.token \in live
    /\ sid = "miot" => Held.pass.session = Held.token

Reply(r) ==
    /\ ~crashed
    /\ reply' = r
    /\ UNCHANGED <<sid, loginVars, up, clientPass, clientToken, refreshVars,
                   pubsubVars, cloudVars, crashed>>

(* requestMinaUbus and GetUserConversations; requestMiot.  A refusal is an  *)
(* answer like any other to them.                                           *)
Request ==
    /\ up
    /\ \/ sid = "miot" /\ Held.pass = NoPass /\ Die
       \/ /\ sid = "miot" => Held.pass # NoPass
          /\ \E r \in {"failed", IF Accepted THEN "served" ELSE "refused"} : Reply(r)

(* What InitMina and InitMiot register; each of them makes one request. *)
MinaControls == {"pause", "play", "player_set_volume", "toggle", "stop",
                 "player_get_play_status"}
MiotControls == {"action"}

Controller(op) ==
    \/ /\ op \in IF sid = "mina" THEN MinaControls ELSE MiotControls
       /\ Request
    \/ /\ op \notin IF sid = "mina" THEN MinaControls ELSE MiotControls
       /\ up /\ Reply("unregistered")

(* It takes whatever list comes. *)
GetMiDeviceList == sid = "mina" /\ Request

(* It also dereferences a result that a refusal does not have. *)
GetMiotDevices ==
    /\ sid = "miot"
    /\ \/ Request
       \/ up /\ Held.pass # NoPass /\ ~Accepted /\ Die

(* Line 156.  Mutant: it is not asked for. *)
MutRefreshable == TRUE
Refreshable    == Held.pass.renewable

RefreshLoginToken ==
    /\ up /\ refresh # "on"
    /\ \/ Held.pass = NoPass /\ Die
       \/ /\ ~crashed /\ Held.pass # NoPass
          /\ refresh' = IF Refreshable THEN "on" ELSE "rejected"
          /\ asked' = opened
          /\ UNCHANGED <<sid, loginVars, clientVars, pubsubVars, cloudVars, crashed>>

(* Its ticker: Publish, which dies of a closed buffer. *)
Tick ==
    /\ refresh = "on" /\ subscribed /\ pc = "idle"
    /\ \/ closed /\ Die
       \/ /\ ~crashed /\ ~closed
          /\ pending < MaxPending
          /\ pending' = pending + 1
          /\ UNCHANGED <<sid, loginVars, clientVars, refreshVars, cancelled, run,
                         closed, subscribed, cloudVars, crashed>>

Done ==
    /\ ~crashed
    /\ refresh = "on" /\ run = "over"
    /\ refresh' = "returned"
    /\ UNCHANGED <<sid, loginVars, clientVars, asked, pubsubVars, cloudVars, crashed>>

-----------------------------------------------------------------------------
(* The PubSub, and the cloud. *)

PubSubStep ==
    ~crashed /\ UNCHANGED <<sid, clientVars, refreshVars, cloudVars, crashed>>

(* The goroutine InitMIAccount starts. *)
Subscribe ==
    /\ pc # "start"
    /\ subscribed' = TRUE
    /\ UNCHANGED <<loginVars, cancelled, run, closed, pending>> /\ PubSubStep

Cancel ==
    /\ cancelled' = TRUE
    /\ UNCHANGED <<loginVars, run, closed, subscribed, pending>> /\ PubSubStep

(* Line 48 of callback_serializer.go. *)
Run ==
    /\ pc # "start" /\ run = "start"
    /\ run' = IF cancelled THEN "looping" ELSE "over"
    /\ UNCHANGED <<loginVars, cancelled, closed, subscribed, pending>> /\ PubSubStep

(* Mutant: run registers none, so nobody closes the buffer. *)
MutAfterFunc == FALSE
AfterFunc ==
    /\ cancelled /\ run # "start"
    /\ closed' = TRUE
    /\ UNCHANGED <<loginVars, cancelled, run, subscribed, pending>> /\ PubSubStep

(* A loop that looks into the closed channel dies. *)
LoopDies == run = "looping" /\ closed /\ Die

OnMessage ==
    /\ pending > 0
    /\ closed \/ run = "looping"
    /\ Goto("idle", "login")
    /\ by' = "pubsub"
    /\ pending' = pending - 1
    /\ UNCHANGED <<depth, pass, token, cancelled, run, closed, subscribed>>
    /\ PubSubStep

Expire(s) ==
    /\ ~crashed /\ s \in live
    /\ live' = live \ {s}
    /\ UNCHANGED <<sid, loginVars, clientVars, refreshVars, pubsubVars, opened, crashed>>

-----------------------------------------------------------------------------
Login ==
    \/ InitMIAccount \/ LoggedIn \/ NotLoggedIn \/ ServiceLoginFails
    \/ \E whole, renewable \in BOOLEAN : Authenticate(whole, renewable)
    \/ AuthenticateFails \/ TakeLoginToken \/ ReadPass \/ ReadPassFails
    \/ TakeCookie \/ NoCookie \/ TakeFails

Client ==
    \/ GetMiDeviceList \/ GetMiotDevices
    \/ RefreshLoginToken \/ Tick \/ Done
    \/ \E op \in {"play", "action", "pause"} : Controller(op)

PubSub == Subscribe \/ Cancel \/ Run \/ AfterFunc \/ LoopDies \/ OnMessage

Next == Login \/ Client \/ PubSub \/ \E s \in live : Expire(s)

(* The cloud answers, goroutines run, a ticker ticks, and a Publish that    *)
(* waits for the lock gets it.                                              *)
Fairness ==
    /\ WF_vars(Login) /\ WF_vars(Done) /\ SF_vars(Tick)
    /\ WF_vars(Subscribe) /\ WF_vars(Run) /\ WF_vars(AfterFunc)

Spec == Init /\ [][Next]_vars
FairSpec == Spec /\ Fairness

-----------------------------------------------------------------------------
(***************************************************************************)
(* The client's token and Pass are of one session, and that Pass is whole, *)
(* or the cloud has never given either: through nested logins, responses   *)
(* with parts missing and requests that set no cookie.                     *)
(***************************************************************************)
ClientHasOneSession ==
    up => /\ clientToken = clientPass.session
          /\ clientPass # NoPass => clientPass.whole

(***************************************************************************)
(* A client that has logged in is refused only when its session has        *)
(* expired, also while another login is going on.                          *)
(***************************************************************************)
RefusedOnlyIfExpired ==
    reply = "refused" => clientToken = 0 \/ clientToken \notin live

(***************************************************************************)
(* A cancelled context ends a RefreshLoginToken that is going on, whatever *)
(* the serializer's goroutine was doing when the cancel came: done is      *)
(* closed, or a Publish or the loop finds the buffer closed and dies of    *)
(* it.  It is not kept ticking for ever.                                   *)
(***************************************************************************)
CancelEndsRefresh == refresh = "on" /\ cancelled ~> (refresh # "on" \/ crashed)

(***************************************************************************)
(* What mi_account.go:12 says of RefreshLoginToken: it refreshes the login *)
(* token.  So a client whose call returned without an error has a token    *)
(* from a login made after it called.                                      *)
(***************************************************************************)
RefreshRefreshes == refresh = "returned" => clientToken > asked
=============================================================================
