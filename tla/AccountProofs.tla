----------------------------- MODULE AccountProofs -----------------------------
(***************************************************************************)
(* For any number of sessions, any depth of nested logins and any number   *)
(* of messages.                                                            *)
(*                                                                         *)
(* The client's copy is made at one point of the first login, so all       *)
(* depends on what a login can leave behind at that point: a token that    *)
(* was set before belongs to the Pass that is there, because no login goes *)
(* back to ServiceLogin after it got a token (FirstLogin).                 *)
(***************************************************************************)
EXTENDS Account, TLAPS

(* The types, one by one. *)
Typed ==
    /\ sid \in {"mina", "miot"}
    /\ pc \in {"start", "login", "auth", "take", "read", "sign", "idle"}
    /\ by \in {"init", "pubsub"}
    /\ depth \in 0..MaxDepth
    /\ pass \in Passes /\ clientPass \in Passes
    /\ token \in Sessions /\ clientToken \in Sessions
    /\ asked \in Sessions /\ opened \in Sessions
    /\ live \subseteq 1..opened
    /\ reply \in {"none", "served", "refused", "failed", "unregistered"}
    /\ refresh \in {"none", "on", "returned", "rejected"}
    /\ run \in {"start", "over", "looping"}
    /\ pending \in 0..MaxPending
    /\ up \in BOOLEAN /\ cancelled \in BOOLEAN /\ closed \in BOOLEAN
    /\ subscribed \in BOOLEAN /\ crashed \in BOOLEAN

(* A refresh is for a client that is there and has a PassToken. *)
Renews == refresh \in {"on", "returned"} => up /\ clientPass.renewable

(* The second request saw to it that a login in pieces may nest. *)
DepthLeft == pc = "take" => pass.whole \/ depth < MaxDepth

(* The sessions one knows have been opened. *)
Known == pass.session <= opened /\ token <= opened /\ clientToken <= opened

(* The client is there from the end of the first login on. *)
UpSince ==
    /\ pc = "idle" \/ by = "pubsub" => up
    /\ up /\ by = "init" => pc = "idle"
    /\ ~up => reply = "none"

(* During the first login a token is there only between the end of a        *)
(* nested login and the end of the one around it, and is the Pass's.        *)
FirstLogin ==
    ~up => /\ token # 0 => token = pass.session /\ pass.whole /\ pc \in {"read", "sign"}
           /\ pc = "start" => depth = 0
           /\ pc \in {"start", "login"} /\ depth = 0 => pass = NoPass
           /\ pc = "sign" => pass.whole

IInv ==
    /\ Typed
    /\ DepthLeft
    /\ Known
    /\ UpSince
    /\ FirstLogin
    /\ ClientHasOneSession
    /\ RefusedOnlyIfExpired

-----------------------------------------------------------------------------
LEMMA Bounds == MaxSessions \in Nat /\ MaxDepth \in Nat /\ MaxPending \in Nat
BY AccountAssumption

LEMMA TypedIsTypeOK == Typed /\ Renews => TypeOK
BY DEF Typed, Renews, TypeOK

LEMMA PassFields ==
    /\ NoPass \in Passes
    /\ \A p \in Passes : /\ p.session \in Sessions /\ p.whole \in BOOLEAN
                         /\ p.whole => p # NoPass
                         /\ p = NoPass <=> p.session = 0
    /\ \A n \in Sessions, w \in BOOLEAN, r \in BOOLEAN :
          n # 0 => [session |-> n, whole |-> w, renewable |-> r] \in Passes
<1>1. ASSUME NEW p \in Passes
      PROVE  /\ p.session \in Sessions /\ p.whole \in BOOLEAN
             /\ p.whole => p # NoPass
             /\ p = NoPass <=> p.session = 0
  <2>1. CASE p = NoPass
    BY <2>1, Bounds DEF NoPass, Sessions
  <2>2. CASE p \in [session : Sessions \ {0}, whole : BOOLEAN, renewable : BOOLEAN]
    <3>1. p.session \in Sessions /\ p.session # 0 /\ p.whole \in BOOLEAN
      BY <2>2
    <3>2. NoPass.session = 0
      BY DEF NoPass
    <3> QED
      BY <3>1, <3>2
  <2> QED
    BY <2>1, <2>2 DEF Passes
<1>2. NoPass \in Passes
  BY DEF Passes
<1>3. ASSUME NEW n \in Sessions, NEW w \in BOOLEAN, NEW r \in BOOLEAN, n # 0
      PROVE  [session |-> n, whole |-> w, renewable |-> r] \in Passes
  BY <1>3 DEF Passes
<1> QED
  BY <1>1, <1>2, <1>3

LEMMA InitIInv == Init => IInv
<1> SUFFICES ASSUME Init PROVE IInv
  OBVIOUS
<1>1. NoPass \in Passes /\ NoPass.session = 0 /\ NoPass.whole = FALSE
  BY PassFields DEF NoPass
<1>2. 0 \in Sessions /\ 0 \in 0..MaxDepth /\ 0 \in 0..MaxPending /\ {} \subseteq 1..0
  BY Bounds DEF Sessions
<1>3. Typed
  BY <1>1, <1>2 DEF Init, Typed
<1>4. DepthLeft /\ Known /\ UpSince /\ FirstLogin
  BY <1>1 DEF Init, DepthLeft, Known, UpSince, FirstLogin
<1> QED
  BY <1>3, <1>4 DEF Init, IInv, ClientHasOneSession, RefusedOnlyIfExpired

(* The part of IInv that a death leaves as it is. *)
LEMMA DieKeepsIInv ==
    ASSUME IInv, Die
    PROVE  IInv'
BY DEF IInv, Die, loginVars, clientVars, refreshVars, pubsubVars, cloudVars, Typed,
       DepthLeft, Known, UpSince, FirstLogin, ClientHasOneSession, RefusedOnlyIfExpired

(* A login that ends well: the client gets the Pass and the token, or has   *)
(* had them.                                                                *)
LEMMA SucceedKeepsIInv ==
    ASSUME IInv, NEW t \in Sessions, Succeed(t),
           pc \in {"login", "sign"},
           t <= opened,
           ~up /\ t # 0 => t = pass.session /\ pass.whole,
           ~up /\ t = 0 => depth > 0 \/ pass = NoPass
    PROVE  IInv'
<1> USE DEF LoginStep, refreshVars, pubsubVars, cloudVars, Nested
<1>1. Typed /\ DepthLeft /\ Known /\ UpSince /\ FirstLogin
      /\ ClientHasOneSession /\ RefusedOnlyIfExpired
  BY DEF IInv
<1>2. /\ token' = t
      /\ UNCHANGED <<sid, by, pass, reply, opened, live, refresh, asked, cancelled, run,
                     closed, subscribed, pending, crashed>>
  BY DEF Succeed
<1>3. CASE Nested
  <2>1. depth' = depth - 1 /\ pc' = "read" /\ UNCHANGED <<up, clientPass, clientToken>>
    BY <1>3 DEF Succeed
  <2>2. Typed'
    BY <1>1, <1>2, <1>3, <2>1, Bounds DEF Typed
  <2>3. UpSince' /\ FirstLogin'
    BY <1>1, <1>2, <2>1 DEF UpSince, FirstLogin
  <2>4. DepthLeft' /\ Known' /\ ClientHasOneSession' /\ RefusedOnlyIfExpired'
    BY <1>1, <1>2, <2>1
    DEF DepthLeft, Known, ClientHasOneSession, RefusedOnlyIfExpired
  <2> QED
    BY <2>2, <2>3, <2>4 DEF IInv
<1>4. CASE ~Nested /\ by = "init"
  <2>1. /\ pc' = "idle" /\ up' = TRUE /\ clientPass' = pass /\ clientToken' = t
        /\ UNCHANGED depth
    BY <1>4 DEF Succeed
  <2>2. ~up /\ reply = "none"
    BY <1>1, <1>4 DEF UpSince, Typed
  <2>3. t = pass.session /\ (pass # NoPass => pass.whole)
    <3>1. CASE t = 0
      BY <1>1, <1>4, <2>2, <3>1, Bounds DEF Typed, NoPass
    <3>2. CASE t # 0
      BY <2>2, <3>2
    <3> QED
      BY <3>1, <3>2
  <2>4. Typed' /\ Known' /\ ClientHasOneSession'
    BY <1>1, <1>2, <2>1, <2>3 DEF Typed, Known, ClientHasOneSession
  <2>5. DepthLeft' /\ UpSince' /\ FirstLogin' /\ RefusedOnlyIfExpired'
    BY <1>2, <2>1, <2>2 DEF DepthLeft, UpSince, FirstLogin, RefusedOnlyIfExpired
  <2> QED
    BY <2>4, <2>5 DEF IInv
<1>5. CASE ~Nested /\ by = "pubsub"
  <2>1. pc' = "idle" /\ UNCHANGED <<depth, up, clientPass, clientToken>>
    BY <1>5 DEF Succeed
  <2>2. up
    BY <1>1, <1>5 DEF UpSince
  <2> QED
    BY <1>1, <1>2, <2>1, <2>2
    DEF IInv, Typed, DepthLeft, Known, UpSince, FirstLogin, ClientHasOneSession,
        RefusedOnlyIfExpired
<1> QED
  BY <1>1, <1>3, <1>4, <1>5 DEF Typed

(* The steps of a login. *)
LEMMA LoginKeepsIInv ==
    ASSUME IInv, Login
    PROVE  IInv'
<1> USE DEF LoginStep, Goto, clientVars, refreshVars, pubsubVars, cloudVars
<1>1. Typed /\ DepthLeft /\ Known /\ UpSince /\ FirstLogin
      /\ ClientHasOneSession /\ RefusedOnlyIfExpired
  BY DEF IInv
<1>2. /\ pass \in Passes /\ pass.session \in Sessions
      /\ token \in Sessions /\ opened \in Sessions /\ depth \in 0..MaxDepth
      /\ pass.session <= opened /\ token <= opened /\ 0 \in Sessions /\ 0 <= opened
  BY <1>1, PassFields, Bounds DEF Typed, Known, Sessions
<1>3. CASE InitMIAccount \/ NotLoggedIn \/ ReadPass
  <2>1. /\ UNCHANGED <<sid, by, depth, pass, token, up, clientPass, clientToken, reply,
                       opened, live, refresh, asked, cancelled, run, closed, subscribed,
                       pending, crashed>>
        /\ \/ pc = "start" /\ pc' = "login"
           \/ pc = "login" /\ pc' = "auth"
           \/ pc = "read" /\ pc' = "sign" /\ pass.whole
    BY <1>3 DEF InitMIAccount, NotLoggedIn, ReadPass
  <2>2. Typed' /\ DepthLeft' /\ Known' /\ ClientHasOneSession' /\ RefusedOnlyIfExpired'
    BY <1>1, <2>1 DEF Typed, DepthLeft, Known, ClientHasOneSession, RefusedOnlyIfExpired
  <2>3. UpSince'
    BY <1>1, <2>1 DEF UpSince
  <2>4. FirstLogin'
    BY <1>1, <2>1 DEF FirstLogin, UpSince
  <2> QED
    BY <2>2, <2>3, <2>4 DEF IInv
<1>4. CASE LoggedIn
  <2>1. ~up => token = 0 /\ (depth > 0 \/ pass = NoPass)
    BY <1>1, <1>2, <1>4, Bounds DEF LoggedIn, FirstLogin
  <2> QED
    BY <1>2, <1>4, <2>1, SucceedKeepsIInv DEF LoggedIn
<1>5. CASE ServiceLoginFails \/ ReadPassFails
  BY <1>5, DieKeepsIInv DEF ServiceLoginFails, ReadPassFails
<1>6. ASSUME Fail, pc \in {"auth", "sign"} PROVE IInv'
  <2>1. CASE Die
    BY <2>1, DieKeepsIInv
  <2>2. CASE ~Die
    <3>1. /\ by = "pubsub" /\ pc' = "idle"
          /\ UNCHANGED <<sid, by, depth, pass, token, up, clientPass, clientToken, reply,
                         opened, live, refresh, asked, cancelled, run, closed, subscribed,
                         pending, crashed>>
      BY <1>6, <2>2 DEF Fail
    <3>2. up
      BY <1>1, <3>1 DEF UpSince
    <3> QED
      BY <1>1, <3>1, <3>2
      DEF IInv, Typed, DepthLeft, Known, UpSince, FirstLogin, ClientHasOneSession,
          RefusedOnlyIfExpired
  <2> QED
    BY <2>1, <2>2
<1>7. ASSUME NEW w \in BOOLEAN, NEW r \in BOOLEAN, Authenticate(w, r) PROVE IInv'
  <2>1. /\ pc = "auth" /\ pc' = "take"
        /\ opened < MaxSessions /\ (w \/ depth < MaxDepth)
        /\ opened' = opened + 1 /\ live' = live \cup {opened + 1}
        /\ pass' = [session |-> opened + 1, whole |-> w, renewable |-> r]
        /\ UNCHANGED <<sid, by, depth, token, up, clientPass, clientToken, reply, refresh,
                       asked, cancelled, run, closed, subscribed, pending, crashed>>
    BY <1>7 DEF Authenticate
  <2>2. opened' \in Sessions /\ opened' # 0 /\ opened \in Nat
    BY <1>2, <2>1, Bounds DEF Sessions
  <2>3. pass' \in Passes /\ pass'.session = opened' /\ pass'.whole = w
    BY <2>1, <2>2, PassFields
  <2>4. live' \subseteq 1..opened'
    BY <1>1, <2>1, <2>2 DEF Typed
  <2>5. Typed'
    BY <1>1, <2>1, <2>2, <2>3, <2>4 DEF Typed
  <2>6. DepthLeft' /\ UpSince' /\ ClientHasOneSession'
    BY <1>1, <2>1, <2>3 DEF DepthLeft, UpSince, ClientHasOneSession
  <2>7. FirstLogin'
    BY <1>1, <2>1, <2>3 DEF FirstLogin
  <2>8. clientToken \in Nat /\ token \in Nat
    BY <1>1, Bounds DEF Typed, Sessions
  <2>9. Known' /\ RefusedOnlyIfExpired'
    BY <1>1, <2>1, <2>2, <2>3, <2>8 DEF Known, RefusedOnlyIfExpired
  <2> QED
    BY <2>5, <2>6, <2>7, <2>9 DEF IInv
<1>8. CASE TakeLoginToken
  <2>1. /\ pc = "take"
        /\ \/ pass.whole /\ pc' = "read" /\ UNCHANGED depth
           \/ ~pass.whole /\ pc' = "login" /\ depth' = depth + 1
        /\ UNCHANGED <<sid, by, pass, token, up, clientPass, clientToken, reply,
                       opened, live, refresh, asked, cancelled, run, closed, subscribed,
                       pending, crashed>>
    BY <1>8 DEF TakeLoginToken
  <2>2. depth' \in 0..MaxDepth /\ (pc' = "login" => depth' # 0)
    BY <1>1, <1>2, <2>1, Bounds DEF DepthLeft
  <2>3. Typed'
    BY <1>1, <2>1, <2>2 DEF Typed
  <2>4. DepthLeft' /\ Known' /\ UpSince' /\ ClientHasOneSession' /\ RefusedOnlyIfExpired'
    BY <1>1, <2>1
    DEF DepthLeft, Known, UpSince, ClientHasOneSession, RefusedOnlyIfExpired
  <2>5. FirstLogin'
    BY <1>1, <2>1, <2>2 DEF FirstLogin
  <2> QED
    BY <2>3, <2>4, <2>5 DEF IInv
<1>9. CASE TakeCookie
  <2>1. pc = "sign" /\ Succeed(pass.session)
    BY <1>9 DEF TakeCookie
  <2>2. ~up => pass.whole
    BY <1>1, <2>1 DEF FirstLogin
  <2>3. pass.session = 0 => pass = NoPass
    BY <1>2, PassFields
  <2> QED
    BY <1>2, <2>1, <2>2, <2>3, SucceedKeepsIInv
<1>10. CASE NoCookie
  <2>1. CASE HasToken /\ Succeed(token)
    <3>1. pc = "sign" /\ token # 0
      BY <1>10, <2>1 DEF NoCookie, HasToken
    <3>2. ~up => token = pass.session /\ pass.whole
      BY <1>1, <3>1 DEF FirstLogin
    <3> QED
      BY <1>2, <2>1, <3>1, <3>2, SucceedKeepsIInv
  <2> QED
    BY <1>6, <1>10, <2>1 DEF NoCookie
<1>11. CASE AuthenticateFails \/ TakeFails
  BY <1>6, <1>11, DieKeepsIInv DEF AuthenticateFails, TakeFails
<1> QED
  BY <1>3, <1>4, <1>5, <1>7, <1>8, <1>9, <1>10, <1>11 DEF Login

(* Requests: a refusal is right because token and Pass are of one session.  *)
LEMMA RequestKeepsIInv ==
    ASSUME IInv, Request \/ (up /\ Reply("unregistered"))
    PROVE  IInv'
<1> USE DEF loginVars, refreshVars, pubsubVars, cloudVars
<1>1. up /\ (Die \/ \E r \in {"failed", "served", "refused", "unregistered"} : Reply(r))
  BY DEF Request
<1>2. ASSUME Reply("refused"), Request PROVE clientToken \notin live
  <2>1. ~Accepted
    BY <1>2 DEF Request, Reply, Die
  <2>2. clientToken = clientPass.session
    BY <1>1 DEF IInv, ClientHasOneSession
  <2> QED
    BY <2>1, <2>2 DEF Accepted, Held
<1>3. ASSUME NEW r \in {"failed", "served", "refused", "unregistered"}, Reply(r)
      PROVE  IInv'
  <2>1. r = "refused" => clientToken \notin live
    BY <1>2, <1>3 DEF Reply
  <2> QED
    BY <1>1, <1>3, <2>1
    DEF Reply, IInv, Typed, DepthLeft, Known, UpSince, FirstLogin, ClientHasOneSession,
        RefusedOnlyIfExpired
<1> QED
  BY <1>1, <1>3, DieKeepsIInv

LEMMA ClientKeepsIInv ==
    ASSUME IInv, Client
    PROVE  IInv'
<1> USE DEF loginVars, clientVars, refreshVars, pubsubVars, cloudVars
<1>1. CASE GetMiDeviceList \/ GetMiotDevices
  BY <1>1, RequestKeepsIInv, DieKeepsIInv DEF GetMiDeviceList, GetMiotDevices
<1>2. ASSUME NEW op \in {"play", "action", "pause"}, Controller(op) PROVE IInv'
  BY <1>2, RequestKeepsIInv DEF Controller
<1>3. ASSUME UNCHANGED <<sid, loginVars, clientVars, cloudVars, crashed>>,
             refresh' \in {"none", "on", "returned", "rejected"}, asked' \in Sessions,
             pending' \in 0..MaxPending,
             UNCHANGED <<cancelled, run, closed, subscribed>>
      PROVE  IInv'
  BY <1>3 DEF IInv, Typed, DepthLeft, Known, UpSince, FirstLogin, ClientHasOneSession,
              RefusedOnlyIfExpired
<1>4. CASE RefreshLoginToken
  BY <1>3, <1>4, DieKeepsIInv DEF RefreshLoginToken, IInv, Typed
<1>5. CASE Tick
  <2>1. pending \in Nat /\ (pending < MaxPending => pending + 1 \in 0..MaxPending)
    BY Bounds DEF IInv, Typed
  <2> QED
    BY <1>3, <1>5, <2>1, DieKeepsIInv DEF Tick, IInv, Typed
<1>6. CASE Done
  BY <1>3, <1>6 DEF Done, IInv, Typed
<1> QED
  BY <1>1, <1>2, <1>4, <1>5, <1>6 DEF Client

(* A message starts a login only when the client is there. *)
LEMMA PubSubKeepsIInv ==
    ASSUME IInv, PubSub
    PROVE  IInv'
<1> USE DEF PubSubStep, loginVars, clientVars, refreshVars, cloudVars, Goto
<1>1. CASE Subscribe \/ Cancel \/ Run \/ AfterFunc
  <2>1. /\ UNCHANGED <<sid, loginVars, clientVars, refreshVars, cloudVars, crashed, pending>>
        /\ cancelled' \in BOOLEAN /\ run' \in {"start", "over", "looping"}
        /\ closed' \in BOOLEAN /\ subscribed' \in BOOLEAN
    BY <1>1 DEF Subscribe, Cancel, Run, AfterFunc, IInv, Typed
  <2> QED
    BY <2>1 DEF IInv, Typed, DepthLeft, Known, UpSince, FirstLogin, ClientHasOneSession,
                RefusedOnlyIfExpired
<1>2. CASE LoopDies
  BY <1>2, DieKeepsIInv DEF LoopDies
<1>3. CASE OnMessage
  <2>1. pending - 1 \in 0..MaxPending
    BY <1>3, Bounds DEF OnMessage, IInv, Typed
  <2>2. up
    BY <1>3 DEF OnMessage, IInv, UpSince
  <2> QED
    BY <1>3, <2>1, <2>2
    DEF OnMessage, IInv, Typed, DepthLeft, Known, UpSince, FirstLogin,
        ClientHasOneSession, RefusedOnlyIfExpired
<1> QED
  BY <1>1, <1>2, <1>3 DEF PubSub

LEMMA NextKeepsIInv ==
    ASSUME IInv, [Next]_vars
    PROVE  IInv'
<1>1. ASSUME NEW s \in live, Expire(s) PROVE IInv'
  BY <1>1 DEF Expire, loginVars, clientVars, refreshVars, pubsubVars, IInv, Typed,
              DepthLeft, Known, UpSince, FirstLogin, ClientHasOneSession,
              RefusedOnlyIfExpired
<1>2. CASE UNCHANGED vars
  BY <1>2 DEF vars, loginVars, clientVars, refreshVars, pubsubVars, cloudVars, IInv,
              Typed, DepthLeft, Known, UpSince, FirstLogin, ClientHasOneSession,
              RefusedOnlyIfExpired
<1> QED
  BY <1>1, <1>2, LoginKeepsIInv, ClientKeepsIInv, PubSubKeepsIInv DEF Next

LEMMA AlwaysIInv == Spec => []IInv
BY InitIInv, NextKeepsIInv, PTL DEF Spec

-----------------------------------------------------------------------------
(* However logins nest and whatever the cloud leaves out, what the client   *)
(* copies belongs together.                                                 *)
THEOREM ClientsHaveOneSession == Spec => []ClientHasOneSession
BY AlwaysIInv, PTL DEF IInv

(* A client that logged in is refused only when its session has expired.    *)
THEOREM RefusedOnlyWhenExpired == Spec => []RefusedOnlyIfExpired
BY AlwaysIInv, PTL DEF IInv

-----------------------------------------------------------------------------
(* A client that is up is the same for ever: only the end of the first      *)
(* login writes its copy of the account.                                    *)
LEMMA CopyStays ==
    ASSUME IInv, [Next]_vars
    PROVE  up => up' /\ UNCHANGED <<clientPass, clientToken>>
<1> USE DEF LoginStep, PubSubStep, clientVars, loginVars
<1> SUFFICES ASSUME up PROVE up' /\ UNCHANGED <<clientPass, clientToken>>
  OBVIOUS
<1>1. Die => UNCHANGED <<up, clientPass, clientToken>>
  BY DEF Die
<1>2. ASSUME NEW t, Succeed(t), pc \in {"login", "sign"}
      PROVE  UNCHANGED <<up, clientPass, clientToken>>
  BY <1>2 DEF Succeed, IInv, UpSince
<1>3. CASE Login
  <2>1. Fail => UNCHANGED <<up, clientPass, clientToken>>
    BY <1>1 DEF Fail
  <2> QED
    BY <1>1, <1>2, <1>3, <2>1
    DEF Login, InitMIAccount, LoggedIn, NotLoggedIn, ServiceLoginFails, Authenticate,
        AuthenticateFails, TakeLoginToken, ReadPass, ReadPassFails, TakeCookie, NoCookie,
        TakeFails
<1>4. CASE Client
  <2>1. ASSUME NEW r, Reply(r) PROVE UNCHANGED <<up, clientPass, clientToken>>
    BY <2>1 DEF Reply
  <2>2. Request => UNCHANGED <<up, clientPass, clientToken>>
    BY <1>1, <2>1 DEF Request
  <2> QED
    BY <1>1, <1>4, <2>1, <2>2
    DEF Client, GetMiDeviceList, GetMiotDevices, RefreshLoginToken, Tick, Done, Controller
<1>5. CASE PubSub
  BY <1>1, <1>5 DEF PubSub, Subscribe, Cancel, Run, AfterFunc, LoopDies, OnMessage
<1>6. ASSUME NEW s \in live, Expire(s) PROVE UNCHANGED <<up, clientPass, clientToken>>
  BY <1>6 DEF Expire
<1>7. CASE UNCHANGED vars
  BY <1>7 DEF vars
<1> QED
  BY <1>3, <1>4, <1>5, <1>6, <1>7 DEF Next

(* Only RefreshLoginToken begins a refresh. *)
LEMMA RefreshSteps ==
    [Next]_vars => \/ refresh' = refresh
                   \/ refresh' = "rejected"
                   \/ refresh' = "returned" /\ refresh = "on"
                   \/ refresh' = "on" /\ up /\ clientPass.renewable
<1> USE DEF LoginStep, PubSubStep, refreshVars, loginVars
<1>1. Die \/ Fail \/ (\E t : Succeed(t)) => UNCHANGED refresh
  BY DEF Die, Fail, Succeed
<1>2. Login => UNCHANGED refresh
  BY <1>1
  DEF Login, InitMIAccount, LoggedIn, NotLoggedIn, ServiceLoginFails, Authenticate,
      AuthenticateFails, TakeLoginToken, ReadPass, ReadPassFails, TakeCookie, NoCookie,
      TakeFails
<1>3. Request \/ (\E r : Reply(r)) => UNCHANGED refresh
  BY <1>1 DEF Request, Reply
<1>4. CASE Client
  BY <1>1, <1>3, <1>4
  DEF Client, GetMiDeviceList, GetMiotDevices, RefreshLoginToken, Refreshable, Held, Tick,
      Done, Controller
<1>5. PubSub => UNCHANGED refresh
  BY <1>1 DEF PubSub, Subscribe, Cancel, Run, AfterFunc, LoopDies, OnMessage
<1>6. (\E s \in live : Expire(s)) => UNCHANGED refresh
  BY DEF Expire
<1> QED
  BY <1>2, <1>4, <1>5, <1>6 DEF Next, vars

(* Types; in particular only sessions the cloud has opened are still good,  *)
(* and nobody refreshes without the PassToken that line 156 asks for.       *)
THEOREM TypeCorrect == Spec => []TypeOK
<1>1. Init => Renews
  BY DEF Init, Renews
<1>2. IInv /\ Renews /\ [Next]_vars => Renews'
  BY CopyStays, RefreshSteps DEF Renews
<1> QED
  BY <1>1, <1>2, AlwaysIInv, TypedIsTypeOK, PTL DEF IInv, Spec

(* The cloud's sessions are new ones or old ones that expire. *)
LEMMA SessionsAreNew ==
    [Next]_vars => \A s \in live' : s \in live \/ s = opened + 1
<1> USE DEF cloudVars
<1> DEFINE Goal == \A s \in live' : s \in live \/ s = opened + 1
<1>1. UNCHANGED live => Goal
  OBVIOUS
<1>2. Die \/ Fail => UNCHANGED live
  BY DEF Die, Fail
<1>3. \A t : Succeed(t) => UNCHANGED live
  BY DEF Succeed
<1>4. ASSUME NEW w \in BOOLEAN, NEW r \in BOOLEAN, Authenticate(w, r) PROVE Goal
  BY <1>4 DEF Authenticate
<1>5. CASE Login
  BY <1>1, <1>2, <1>3, <1>4, <1>5
  DEF Login, InitMIAccount, LoggedIn, NotLoggedIn, ServiceLoginFails, AuthenticateFails,
      TakeLoginToken, ReadPass, ReadPassFails, TakeCookie, NoCookie, TakeFails
<1>6. CASE Client
  <2>1. Request \/ (\E r : Reply(r)) => UNCHANGED live
    BY <1>2 DEF Request, Reply
  <2> QED
    BY <1>1, <1>2, <1>6, <2>1
    DEF Client, GetMiDeviceList, GetMiotDevices, RefreshLoginToken, Tick, Done, Controller
<1>7. CASE PubSub
  BY <1>1, <1>2, <1>7
  DEF PubSub, PubSubStep, Subscribe, Cancel, Run, AfterFunc, LoopDies, OnMessage
<1>8. ASSUME NEW s \in live, Expire(s) PROVE Goal
  BY <1>8 DEF Expire
<1>9. CASE UNCHANGED vars
  BY <1>1, <1>9 DEF vars
<1> QED
  BY <1>5, <1>6, <1>7, <1>8, <1>9 DEF Next

(* A client whose session has expired has lost it for good: whatever the    *)
(* account logs in to later, and however often it is told to refresh, no    *)
(* request of the client is served any more.                                *)
Refused == up /\ clientToken \notin live /\ reply # "served"

THEOREM ExpiredForGood == Spec => [][Refused => Refused']_vars
<1>1. ASSUME IInv, Next, Refused PROVE Refused'
  <2>1. up' /\ clientToken' = clientToken
    BY <1>1, CopyStays DEF Refused
  <2>2. clientToken # opened + 1
    BY <1>1, Bounds DEF IInv, Typed, Known, Sessions
  <2>3. clientToken \notin live'
    BY <1>1, <2>2, SessionsAreNew DEF Refused
  <2>4. ~Accepted
    BY <1>1 DEF Refused, Accepted, Held
  <2>5. reply' # "served"
    <3> USE DEF LoginStep, PubSubStep, clientVars
    <3>1. Die \/ Fail => reply' = reply
      BY DEF Die, Fail
    <3>2. \A t : Succeed(t) => reply' = reply
      BY DEF Succeed
    <3>3. \A r : Reply(r) => reply' = r
      BY DEF Reply
    <3>4. Login => reply' = reply
      BY <3>1, <3>2
      DEF Login, InitMIAccount, LoggedIn, NotLoggedIn, ServiceLoginFails, Authenticate,
          AuthenticateFails, TakeLoginToken, ReadPass, ReadPassFails, TakeCookie, NoCookie,
          TakeFails
    <3>5. Request => reply' \in {reply, "failed", "refused"}
      BY <2>4, <3>1, <3>3 DEF Request
    <3>6. Client => reply' \in {reply, "failed", "refused", "unregistered"}
      BY <3>1, <3>3, <3>5
      DEF Client, GetMiDeviceList, GetMiotDevices, RefreshLoginToken, Tick, Done, Controller
    <3>7. PubSub \/ (\E s \in live : Expire(s)) => reply' = reply
      BY <3>1
      DEF PubSub, Subscribe, Cancel, Run, AfterFunc, LoopDies, OnMessage, Expire
    <3> QED
      BY <1>1, <3>4, <3>6, <3>7 DEF Next, Refused
  <2> QED
    BY <2>1, <2>3, <2>5 DEF Refused
<1>2. IInv /\ [Next]_vars => [Refused => Refused']_vars
  BY <1>1
<1> QED
  BY <1>2, AlwaysIInv, PTL DEF Spec

-----------------------------------------------------------------------------
(* A refresh is asked for by a client that is up, when its token is among   *)
(* the sessions the cloud has opened by then.  The PubSub's goroutine has   *)
(* been started, and loops only when the context has been cancelled.        *)
RefreshIsIdle ==
    /\ refresh # "none" => up /\ clientToken <= asked
    /\ up => pc # "start"
    /\ run = "looping" => cancelled

LEMMA RefreshIsIdleKept ==
    ASSUME IInv, RefreshIsIdle, [Next]_vars
    PROVE  RefreshIsIdle'
<1> USE DEF LoginStep, PubSubStep, refreshVars, pubsubVars
<1>1. Die \/ Fail => /\ UNCHANGED <<refresh, asked, cancelled, run>>
                     /\ pc' = pc \/ pc' = "idle"
  BY DEF Die, Fail, loginVars
<1>2. \A t : Succeed(t) => /\ UNCHANGED <<refresh, asked, cancelled, run>>
                           /\ pc' # "start"
  BY DEF Succeed
<1>3. /\ up => up' /\ UNCHANGED <<clientPass, clientToken>>
      /\ clientToken <= opened
  BY CopyStays DEF IInv, Known
<1>4. ASSUME UNCHANGED <<refresh, asked, cancelled, run>>, pc' # "start" \/ pc' = pc,
             up' => up \/ pc' # "start"
      PROVE  RefreshIsIdle'
  BY <1>3, <1>4 DEF RefreshIsIdle
<1>5. CASE Login
  <2>1. /\ UNCHANGED <<refresh, asked, cancelled, run>>
        /\ pc' # "start" \/ pc' = pc
    BY <1>1, <1>2, <1>5
    DEF Login, Goto, InitMIAccount, LoggedIn, NotLoggedIn, ServiceLoginFails, Authenticate,
        AuthenticateFails, TakeLoginToken, ReadPass, ReadPassFails, TakeCookie, NoCookie,
        TakeFails
  <2>2. pc' = "start" => up' = up
    <3>1. Die \/ Fail => up' = up
      BY DEF Die, Fail, clientVars
    <3> QED
      BY <1>2, <1>5, <3>1
      DEF Login, Goto, InitMIAccount, LoggedIn, NotLoggedIn, ServiceLoginFails,
          Authenticate, AuthenticateFails, TakeLoginToken, ReadPass, ReadPassFails,
          TakeCookie, NoCookie, TakeFails, clientVars
  <2> QED
    BY <1>4, <2>1, <2>2
<1>6. CASE RefreshLoginToken
  <2>1. CASE Die
    BY <1>3, <2>1 DEF Die, RefreshIsIdle, loginVars, clientVars
  <2>2. CASE ~Die
    BY <1>3, <1>6, <2>2 DEF RefreshLoginToken, RefreshIsIdle, loginVars, clientVars
  <2> QED
    BY <2>1, <2>2
<1>7. CASE Done
  BY <1>3, <1>7 DEF Done, RefreshIsIdle, loginVars, clientVars
<1>8. CASE Tick
  <2>1. UNCHANGED <<refresh, asked, pc, cancelled, run, up>>
    BY <1>8 DEF Tick, Die, loginVars, clientVars
  <2> QED
    BY <1>3, <2>1 DEF RefreshIsIdle
<1>9. ASSUME Request \/ (up /\ \E r : Reply(r)) PROVE RefreshIsIdle'
  BY <1>3, <1>9 DEF Request, Reply, Die, RefreshIsIdle, loginVars
<1>10. CASE Client
  <2>1. GetMiotDevices => RefreshIsIdle'
    BY <1>3, <1>9 DEF GetMiotDevices, Die, RefreshIsIdle, loginVars
  <2> QED
    BY <1>6, <1>7, <1>8, <1>9, <1>10, <2>1 DEF Client, GetMiDeviceList, Controller
<1>11. CASE PubSub
  <2>1. UNCHANGED <<refresh, asked, up>> /\ (pc' = pc \/ pc' = "login")
    BY <1>11 DEF PubSub, Subscribe, Cancel, Run, AfterFunc, LoopDies, OnMessage, Die, Goto,
                 loginVars, clientVars
  <2>2. /\ cancelled => cancelled'
        /\ run' = run \/ (run' = "looping" => cancelled')
    BY <1>11 DEF PubSub, Subscribe, Cancel, Run, AfterFunc, LoopDies, OnMessage, Die
  <2> QED
    BY <1>3, <2>1, <2>2 DEF RefreshIsIdle
<1>12. (\E s \in live : Expire(s)) \/ UNCHANGED vars => RefreshIsIdle'
  BY <1>3 DEF Expire, vars, loginVars, clientVars, RefreshIsIdle
<1> QED
  BY <1>5, <1>10, <1>11, <1>12 DEF Next

LEMMA AlwaysRefreshIsIdle == Spec => []RefreshIsIdle
<1>1. Init => RefreshIsIdle
  BY DEF Init, RefreshIsIdle
<1> QED
  BY <1>1, RefreshIsIdleKept, AlwaysIInv, PTL DEF Spec

(* RefreshLoginToken never refreshes what the client uses: in EVERY state   *)
(* in which it has returned, or has been rejected, the client still has a   *)
(* token that was there when it was called.                                 *)
THEOREM RefreshChangesNothing ==
    Spec => [](refresh \in {"returned", "rejected"} => clientToken <= asked)
<1>1. RefreshIsIdle => (refresh \in {"returned", "rejected"} => clientToken <= asked)
  BY DEF RefreshIsIdle
<1> QED
  BY <1>1, AlwaysRefreshIsIdle, PTL

(* While it waits, what ends it has happened or is about to: the goroutine  *)
(* that closes done is over, or has still to begin, and may; or it loops    *)
(* because the context was cancelled, and then the buffer is going to be    *)
(* closed and the next tick is the last.                                    *)
THEOREM RefreshWillEnd ==
    Spec => [](refresh = "on" => \/ run = "over"
                                 \/ run = "start" /\ pc # "start"
                                 \/ run = "looping" /\ cancelled)
<1>1. IInv /\ RefreshIsIdle => (refresh = "on" => \/ run = "over"
                                                  \/ run = "start" /\ pc # "start"
                                                  \/ run = "looping" /\ cancelled)
  BY DEF IInv, Typed, RefreshIsIdle
<1> QED
  BY <1>1, AlwaysIInv, AlwaysRefreshIsIdle, PTL
=============================================================================
