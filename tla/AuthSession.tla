----------------------------- MODULE AuthSession -----------------------------
(***************************************************************************)
(* A browser's login: the tabs of the web front end (lib/auth-session.ts   *)
(* and its callers), the one refresh cookie they share, and the server's   *)
(* login sessions (controller/auth_session.go, service/auth_session.go,    *)
(* model/user_session.go).                                                 *)
(*                                                                         *)
(* Requests carry the cookie of the moment they are sent; answers change   *)
(* the cookie, and the tab, when they arrive.  Tabs hear of each other     *)
(* through a broadcast channel they join only once their first refresh is  *)
(* over.  A reload leaves the request it cuts off to the server.           *)
(*                                                                         *)
(* Refresh secrets form a chain in which each is derived from the one      *)
(* before, so a token is its session and its age: 0 the current secret,    *)
(* 1 the previous one, 2 any older one.  The authEpoch of a tab matters    *)
(* only by whether it moved since a refresh began: refresh[t].current.     *)
(***************************************************************************)
EXTENDS Naturals, Sequences, FiniteSets

CONSTANTS
    Tabs,           \* the tabs of one browser
    MaxSessions,    \* login sessions ever created (bound)
    MaxActs,        \* logins, sign-outs, revocations and losses together (bound)
    MaxOrphans,     \* requests of pages that are gone, at one time (bound)
    MaxLost,        \* requests or answers the network loses (bound)
    HasLocks        \* does the browser offer navigator.locks?

ASSUME AuthAssumption ==
    /\ MaxSessions \in Nat \ {0} /\ MaxActs \in Nat /\ MaxOrphans \in Nat /\ MaxLost \in Nat
    /\ HasLocks \in BOOLEAN

VARIABLES
    sess,       \* the user_sessions rows
    jar,        \* the refresh cookie of the browser
    tab,        \* the auth store of each tab
    refresh,    \* refreshPromise of each tab, and its request
    form,       \* the login or sign-out under way in each tab
    orphans,    \* requests of pages that are gone
    events,     \* broadcast events not yet delivered to each tab
    lost,       \* bound: messages lost so far
    acts,       \* bound: logins, sign-outs and revocations begun so far
    told,       \* ghost: revoked sessions each tab has heard are signed out
    refused     \* ghost: has an active session's own token been refused?

vars == <<sess, jar, tab, refresh, form, orphans, events, lost, acts, told, refused>>

NoSID == 0
SIDs == 1..MaxSessions
NoToken == [sid |-> NoSID, age |-> 0]
Tokens == [sid : SIDs, age : 0..2] \cup {NoToken}

NoRequest == [token |-> NoToken, expect |-> NoSID, bearer |-> NoSID]
NoAnswer == [kind |-> "none", cookie |-> "keep", token |-> NoToken]
Idle == [ph |-> "off", current |-> FALSE, again |-> FALSE, attempt |-> 0, callers |-> {},
         req |-> NoRequest, ans |-> NoAnswer]
NoForm == [ph |-> "off", kind |-> "none", again |-> FALSE, req |-> NoRequest, ans |-> NoAnswer]
Anonymous(boot) == [sid |-> NoSID, fresh |-> FALSE, boot |-> boot, up |-> TRUE, retry |-> FALSE]
Loading == [Anonymous("checking") EXCEPT !.up = FALSE]
Queued(who) == [Idle EXCEPT !.ph = "queued", !.current = TRUE, !.again = TRUE, !.callers = {who}]

-----------------------------------------------------------------------------
(* The server.  Each handler takes effect at one point: the update of      *)
(* user_sessions.refresh_hash is a compare-and-swap, and a revocation is   *)
(* one transaction.                                                        *)

Active(s) == s # NoSID /\ sess[s].status = "active"
Revoked(s) == [sess EXCEPT ![s].status = "revoked", ![s].grace = FALSE]

Answer(kind, cookie, token) == [kind |-> kind, cookie |-> cookie, token |-> token]
Refuse == Answer("unauthorized", "clear", NoToken)
Current(s) == [sid |-> s, age |-> 0]

(* Plausible bug: the mismatch has no case in authSessionErrorCode, and is answered 500. *)
MismatchAsInternalError == Answer("failed", "keep", NoToken)
Mismatch == Answer("mismatch", "keep", NoToken)

(* Plausible bug: no replay window, the previous secret is refused at once. *)
CurrentSecretOnly(k) == k.age = 0
(* The current secret, or the previous one inside RefreshReplayWindow *)
Presentable(k) == k.age = 0 \/ (k.age = 1 /\ sess[k.sid].grace)

(* RefreshAuth: what the request with token k, naming session expect, is told *)
RefreshAnswer(k, expect) ==
    IF k = NoToken THEN Refuse
    ELSE IF expect \notin {NoSID, k.sid} THEN Mismatch
    ELSE IF Active(k.sid) /\ Presentable(k) THEN Answer("ok", "set", Current(k.sid))
    ELSE Refuse

(* RotateUserSessionRefresh: does the refresh rotate the secret, or revoke for reuse? *)
Rotates(k, expect) == RefreshAnswer(k, expect).kind = "ok" /\ k.age = 0
Reuses(k, expect) ==
    expect \in {NoSID, k.sid} /\ Active(k.sid) /\ k.age = 1 /\ ~sess[k.sid].grace

RefreshedSessions(k, expect) ==
    IF Rotates(k, expect) THEN [sess EXCEPT ![k.sid].grace = TRUE]
    ELSE IF Reuses(k, expect) THEN Revoked(k.sid)
    ELSE sess

(* AuthLogout *)
LogoutAnswer(r) ==
    IF r.expect # NoSID /\ r.token # NoToken /\ r.token.sid # r.expect
    THEN Mismatch
    ELSE Answer("ok", IF r.bearer # NoSID /\ r.token.sid # r.bearer THEN "keep" ELSE "clear", NoToken)
LogoutSessions(r) ==
    IF LogoutAnswer(r) = Mismatch THEN sess
    ELSE IF r.bearer # NoSID THEN IF Active(r.bearer) THEN Revoked(r.bearer) ELSE sess
    ELSE IF Active(r.token.sid) /\ Presentable(r.token) THEN Revoked(r.token.sid) ELSE sess

(* A rotation makes every copy of the session's tokens one step older *)
Older(k, s) == IF k.sid = s /\ k.age < 2 THEN [k EXCEPT !.age = @ + 1] ELSE k
OlderCarrier(c, s) == [c EXCEPT !.req.token = Older(@, s), !.ans.token = Older(@, s)]
OlderOrphans(s) == {[o EXCEPT !.req.token = Older(@, s)] : o \in orphans}

Unused == {s \in SIDs : sess[s].status = "none"}
NewSID == CHOOSE s \in Unused : \A u \in Unused : s <= u

-----------------------------------------------------------------------------
(* The tab *)

Publish(t, kind, sid) ==
    [u \in Tabs |-> IF u # t /\ tab[u].up /\ sid # NoSID
                    THEN Append(events[u], [kind |-> kind, sid |-> sid]) ELSE events[u]]

(* Plausible bug: authEpoch is not advanced. *)
SupersedeNothing(t) == refresh
(* authEpoch += 1 in tab t *)
Superseded(t) == [refresh EXCEPT ![t].current = FALSE]

SetBundle(w, s) == [w EXCEPT !.sid = s, !.fresh = TRUE, !.boot = "complete"]
(* Plausible bug: reset forgets the access token. *)
ResetKeepsToken(w, boot) == [w EXCEPT !.sid = NoSID, !.boot = boot]
(* Plausible bug: reset leaves bootstrapState alone. *)
ResetKeepsBoot(w, boot) == [w EXCEPT !.sid = NoSID, !.fresh = FALSE]
Reset(w, boot) == [w EXCEPT !.sid = NoSID, !.fresh = FALSE, !.boot = boot]

(* Tab t gives up its session because that was signed out *)
Told(t) == [told EXCEPT ![t] = @ \cup {s \in {tab[t].sid} \ {NoSID} : ~Active(s)}]

(* refreshAuthentication: join the refresh under way or begin one *)
Joined(r, who) == IF r.ph = "off" THEN Queued(who) ELSE [r EXCEPT !.callers = @ \cup {who}]

(* The requests a page leaves behind; the server may or may not have got them *)
Abandoned(F, R) ==
    LET left == {[kind |-> "refresh", req |-> r.req] : r \in {x \in {R} : x.ph = "sent"}}
                \cup {[kind |-> "logout", req |-> f.req] :
                        f \in {x \in {F} : x.ph = "sent" /\ x.kind = "logout"}}
    IN  {kept \in SUBSET left : Cardinality(orphans \cup kept) <= MaxOrphans}

(* window.location.reload and replace: the page starts anew, with bootstrapAuthentication *)
Load(t, R) ==
    /\ tab' = [tab EXCEPT ![t] = Loading]
    /\ refresh' = [R EXCEPT ![t] = Queued("boot")]
    /\ form' = [form EXCEPT ![t] = NoForm]
    /\ \E left \in Abandoned(form[t], R[t]) : orphans' = orphans \cup left

-----------------------------------------------------------------------------
(* One refresh, from the lock to its outcome *)

LockFree == \A u \in Tabs : refresh[u].ph \notin {"sent", "answered"}

(* performRefreshWithBrowserLock, then the first lines of run *)
SendRefresh(t) ==
    /\ refresh[t].ph = "queued"
    /\ HasLocks => LockFree
    /\ refresh[t].current
    /\ refresh' = [refresh EXCEPT ![t].ph = "sent",
                     ![t].req = [NoRequest EXCEPT !.token = jar, !.expect = tab[t].sid]]
    /\ UNCHANGED <<sess, jar, tab, form, orphans, events, lost, acts, told, refused>>

ServeRefresh(t) ==
    LET r == refresh[t].req
        a == RefreshAnswer(r.token, r.expect)
        aged == Rotates(r.token, r.expect)
    IN  /\ refresh[t].ph = "sent"
        /\ sess' = RefreshedSessions(r.token, r.expect)
        /\ refresh' = [u \in Tabs |->
             IF u = t THEN [refresh[t] EXCEPT !.ph = "answered", !.ans = a, !.req = NoRequest]
             ELSE IF aged THEN OlderCarrier(refresh[u], r.token.sid) ELSE refresh[u]]
        /\ form' = IF aged THEN [u \in Tabs |-> OlderCarrier(form[u], r.token.sid)] ELSE form
        /\ jar' = IF aged THEN Older(jar, r.token.sid) ELSE jar
        /\ orphans' = IF aged THEN OlderOrphans(r.token.sid) ELSE orphans
        /\ refused' = (refused \/ (a = Refuse /\ Active(r.token.sid)))
        /\ UNCHANGED <<tab, events, lost, acts, told>>

(* The page that asked is gone: the answer reaches nobody *)
ServeOrphan(o) ==
    LET k == o.req.token
        aged == o.kind = "refresh" /\ Rotates(k, o.req.expect)
    IN  /\ sess' = IF o.kind = "refresh" THEN RefreshedSessions(k, o.req.expect) ELSE LogoutSessions(o.req)
        /\ refresh' = IF aged THEN [u \in Tabs |-> OlderCarrier(refresh[u], k.sid)] ELSE refresh
        /\ form' = IF aged THEN [u \in Tabs |-> OlderCarrier(form[u], k.sid)] ELSE form
        /\ jar' = IF aged THEN Older(jar, k.sid) ELSE jar
        /\ orphans' = (IF aged THEN OlderOrphans(k.sid) ELSE orphans)
                      \ {IF aged THEN [o EXCEPT !.req.token = Older(@, k.sid)] ELSE o}
        /\ UNCHANGED <<tab, events, lost, acts, told, refused>>

Cookie(a) == CASE a.cookie = "set" -> a.token [] a.cookie = "clear" -> NoToken [] OTHER -> jar

(* The callers of the refresh get its outcome o: the tab is now w, the events ev. *)
(* R is the refresh state after it.                                            *)
Settle(t, o, w, ev, R) ==
    LET r == refresh[t]
        redirect == "api" \in r.callers /\ o \in {"anonymous", "out_of_sync"}
        up == [w EXCEPT !.up = TRUE, !.retry = @ \/ ("api" \in r.callers /\ o = "authenticated")]
    IN  IF redirect
        THEN /\ Load(t, R)
             /\ events' = [ev EXCEPT ![t] = <<>>]
        ELSE /\ tab' = [tab EXCEPT ![t] = up]
             /\ refresh' = R
             /\ events' = ev
             /\ form' = IF form[t].ph # "recover" THEN form
                        ELSE IF o = "authenticated"
                        THEN [form EXCEPT ![t].ph = "sent", ![t].again = FALSE,
                                ![t].req = [token |-> jar', expect |-> w.sid, bearer |-> w.sid]]
                        ELSE [form EXCEPT ![t] = NoForm]
             /\ UNCHANGED orphans

(* runtime.request has answered: the rest of run *)
ReceiveRefresh(t) ==
    LET r == refresh[t]
        a == r.ans
        done == [refresh EXCEPT ![t] = Idle]
        clear == Reset(tab[t], "complete")
        rerun(x) == /\ refresh' = [refresh EXCEPT ![t] =
                          [x EXCEPT !.ph = "sent", !.ans = NoAnswer,
                                    !.req = [NoRequest EXCEPT !.token = jar', !.expect = tab'[t].sid]]]
                    /\ UNCHANGED <<events, form, orphans>>
    IN  /\ r.ph = "answered"
        /\ jar' = Cookie(a)
        /\ CASE ~r.current -> Settle(t, "superseded", tab[t], events, done)
             [] r.current /\ a.kind = "ok" ->
                  Settle(t, "authenticated", SetBundle(tab[t], a.token.sid), events, done)
             [] r.current /\ a.kind = "race" /\ r.attempt < 3 ->
                  UNCHANGED tab /\ rerun([r EXCEPT !.attempt = @ + 1])
             [] r.current /\ a.kind = "mismatch" /\ r.again ->
                  /\ tab' = [tab EXCEPT ![t] = Reset(@, "idle")]
                  /\ rerun([r EXCEPT !.again = FALSE, !.attempt = 0])
             [] r.current /\ a.kind = "unauthorized" ->
                  Settle(t, "anonymous", clear, Publish(t, "signed_out", tab[t].sid), done)
             [] r.current /\ a.kind = "failed" ->
                  Settle(t, "transient", [tab[t] EXCEPT !.boot = "idle"], events, done)
             [] OTHER -> Settle(t, "out_of_sync", clear, events, done)
        /\ UNCHANGED <<sess, lost, acts, told, refused>>

(* The epoch moved while the refresh waited for the lock *)
SkipRefresh(t) ==
    /\ refresh[t].ph = "queued"
    /\ HasLocks => LockFree
    /\ ~refresh[t].current
    /\ UNCHANGED jar
    /\ Settle(t, "superseded", tab[t], events, [refresh EXCEPT ![t] = Idle])
    /\ UNCHANGED <<sess, lost, acts, told, refused>>

(* The request or its answer is lost, or the server answers 5xx, before or after *)
(* it acted; a revocation in the midst of RefreshLoginSession does so as well.   *)
LoseRefresh(t) ==
    /\ refresh[t].ph \in {"sent", "answered"}
    /\ refresh[t].ans.kind # "failed"
    /\ lost < MaxLost /\ acts + lost < MaxActs
    /\ lost' = lost + 1
    /\ refresh' = [refresh EXCEPT ![t].ph = "answered", ![t].req = NoRequest,
                                  ![t].ans = Answer("failed", "keep", NoToken)]
    /\ UNCHANGED <<sess, jar, tab, form, orphans, events, acts, told, refused>>

-----------------------------------------------------------------------------
(* What begins a refresh *)

(* An API call answered 401: the token has expired or the session is revoked *)
ApiCall(t) ==
    /\ tab[t].up /\ tab[t].sid # NoSID /\ ~tab[t].retry
    /\ ~tab[t].fresh \/ ~Active(tab[t].sid)
    /\ "api" \notin refresh[t].callers
    /\ refresh' = [refresh EXCEPT ![t] = Joined(@, "api")]
    /\ UNCHANGED <<sess, jar, tab, form, orphans, events, lost, acts, told, refused>>

(* The second attempt of that call *)
RetryCall(t) ==
    /\ tab[t].retry
    /\ IF tab[t].fresh /\ Active(tab[t].sid)
       THEN /\ tab' = [tab EXCEPT ![t].retry = FALSE]
            /\ UNCHANGED <<refresh, form, orphans, events>>
       ELSE /\ Load(t, refresh)
            /\ events' = [events EXCEPT ![t] = <<>>]
    /\ UNCHANGED <<sess, jar, lost, acts, told, refused>>

(* bootstrapAuthentication on a navigation *)
Bootstrap(t) ==
    /\ tab[t].up /\ tab[t].boot # "checking"
    /\ tab[t].boot # "complete" \/ (tab[t].sid # NoSID /\ ~tab[t].fresh)
    /\ tab' = [tab EXCEPT ![t].boot = IF tab[t].fresh THEN "complete" ELSE "checking"]
    /\ refresh' = [refresh EXCEPT ![t] = IF tab[t].fresh THEN @ ELSE Joined(@, "boot")]
    /\ UNCHANGED <<sess, jar, form, orphans, events, lost, acts, told, refused>>

-----------------------------------------------------------------------------
(* The user *)

Login(t) ==
    /\ tab[t].up /\ tab[t].sid = NoSID /\ tab[t].boot # "checking"
    /\ form[t].ph = "off" /\ Unused # {}
    /\ acts + lost < MaxActs /\ acts' = acts + 1
    /\ form' = [form EXCEPT ![t] = [NoForm EXCEPT !.ph = "sent", !.kind = "login"]]
    /\ UNCHANGED <<sess, jar, tab, refresh, orphans, events, lost, told, refused>>

(* logout, first request *)
SignOut(t) ==
    /\ tab[t].up /\ tab[t].sid # NoSID /\ form[t].ph = "off"
    /\ acts + lost < MaxActs /\ acts' = acts + 1
    /\ form' = [form EXCEPT ![t] =
         [NoForm EXCEPT !.ph = "sent", !.kind = "logout", !.again = TRUE,
            !.req = [token |-> jar, expect |-> tab[t].sid,
                     bearer |-> IF tab[t].fresh THEN tab[t].sid ELSE NoSID]]]
    /\ UNCHANGED <<sess, jar, tab, refresh, orphans, events, lost, told, refused>>

(* setupLogin and AuthLogout *)
ServeForm(t) ==
    /\ form[t].ph = "sent"
    /\ IF form[t].kind = "login"
       THEN /\ Unused # {}
            /\ sess' = [sess EXCEPT ![NewSID].status = "active"]
            /\ form' = [form EXCEPT ![t].ph = "answered", ![t].req = NoRequest,
                                    ![t].ans = Answer("ok", "set", Current(NewSID))]
       ELSE /\ sess' = LogoutSessions(form[t].req)
            /\ form' = [form EXCEPT ![t].ph = "answered", ![t].req = NoRequest,
                                    ![t].ans = LogoutAnswer(form[t].req)]
    /\ UNCHANGED <<jar, tab, refresh, orphans, events, lost, acts, told, refused>>

LoseForm(t) ==
    /\ form[t].ph \in {"sent", "answered"}
    /\ form[t].ans.kind # "failed"
    /\ lost < MaxLost /\ acts + lost < MaxActs
    /\ lost' = lost + 1
    /\ form' = [form EXCEPT ![t].ph = "answered", ![t].req = NoRequest,
                            ![t].ans = Answer("failed", "keep", NoToken)]
    /\ UNCHANGED <<sess, jar, tab, refresh, orphans, events, acts, told, refused>>

(* handleLoginSuccess: applyAuthBundle.  handleSignOut: clearAuthentication. *)
(* executeLogout: a mismatch asks for a refresh, once.                       *)
ReceiveForm(t) ==
    LET a == form[t].ans
    IN  /\ form[t].ph = "answered"
        /\ jar' = Cookie(a)
        /\ CASE form[t].kind = "login" /\ a.kind = "ok" ->
                  /\ tab' = [tab EXCEPT ![t] = SetBundle(@, a.token.sid)]
                  /\ refresh' = Superseded(t)
                  /\ events' = IF tab[t].sid = a.token.sid THEN events
                               ELSE Publish(t, "authenticated", a.token.sid)
                  /\ form' = [form EXCEPT ![t] = NoForm]
                  /\ UNCHANGED told
             [] form[t].kind = "logout" /\ a.kind = "ok" ->
                  /\ tab' = [tab EXCEPT ![t] = Reset(@, "complete")]
                  /\ refresh' = Superseded(t)
                  /\ events' = Publish(t, "signed_out", tab[t].sid)
                  /\ form' = [form EXCEPT ![t] = NoForm]
                  /\ told' = Told(t)
             [] a.kind = "mismatch" /\ form[t].again ->
                  /\ refresh' = [refresh EXCEPT ![t] = Joined(@, "logout")]
                  /\ form' = [form EXCEPT ![t].ph = "recover", ![t].ans = NoAnswer]
                  /\ UNCHANGED <<tab, events, told>>
             [] OTHER ->
                  /\ form' = [form EXCEPT ![t] = NoForm]
                  /\ UNCHANGED <<tab, refresh, events, told>>
        /\ UNCHANGED <<sess, orphans, lost, acts, refused>>

(* The listener of the root route *)
HearEvent(t) ==
    LET e == Head(events[t])
        same == e.sid = tab[t].sid
    IN  /\ events[t] # <<>>
        /\ IF e.kind = "authenticated" /\ ~same
           THEN /\ Load(t, refresh)
                /\ events' = [events EXCEPT ![t] = <<>>]
                /\ UNCHANGED told
           ELSE /\ events' = [events EXCEPT ![t] = Tail(@)]
                /\ IF e.kind = "signed_out" /\ same
                   THEN /\ tab' = [tab EXCEPT ![t] = Reset(@, "complete")]
                        /\ refresh' = Superseded(t)
                        /\ told' = Told(t)
                   ELSE UNCHANGED <<tab, refresh, told>>
                /\ UNCHANGED <<form, orphans>>
        /\ UNCHANGED <<sess, jar, lost, acts, refused>>

-----------------------------------------------------------------------------
(* Time and the rest of the world *)

(* An access token, 15 minutes, outlives the requests under way when it was issued *)
TokenExpires(t) ==
    /\ tab[t].fresh
    /\ refresh[t].ph = "off" \/ refresh[t].current
    /\ tab' = [tab EXCEPT ![t].fresh = FALSE]
    /\ UNCHANGED <<sess, jar, refresh, form, orphans, events, lost, acts, told, refused>>

(* RefreshReplayWindow, 30 s, outlasts every request that is under way *)
GraceEnds(s) ==
    /\ sess[s].grace
    /\ \A t \in Tabs : refresh[t].ph = "off" /\ form[t].ph = "off"
    /\ orphans = {}
    /\ sess' = [sess EXCEPT ![s].grace = FALSE]
    /\ UNCHANGED <<jar, tab, refresh, form, orphans, events, lost, acts, told, refused>>

(* DeleteLoginSession from another browser, a password change, an expiry *)
RevokeElsewhere(s) ==
    /\ Active(s)
    /\ acts + lost < MaxActs /\ acts' = acts + 1
    /\ sess' = Revoked(s)
    /\ UNCHANGED <<jar, tab, refresh, form, orphans, events, lost, told, refused>>

(* Tabs just opened in a browser that may still hold a session's cookie *)
Init ==
    /\ \E returning \in BOOLEAN :
         /\ sess = [s \in SIDs |-> [status |-> IF returning /\ s = 1 THEN "active" ELSE "none",
                                    grace |-> FALSE]]
         /\ jar = IF returning THEN Current(1) ELSE NoToken
    /\ tab = [t \in Tabs |-> Loading]
    /\ refresh = [t \in Tabs |-> Queued("boot")]
    /\ form = [t \in Tabs |-> NoForm]
    /\ orphans = {}
    /\ events = [t \in Tabs |-> <<>>]
    /\ lost = 0
    /\ acts = 0
    /\ told = [t \in Tabs |-> {}]
    /\ refused = FALSE

Refreshing(t) == SendRefresh(t) \/ SkipRefresh(t) \/ ServeRefresh(t) \/ ReceiveRefresh(t)

Next ==
    \/ \E t \in Tabs :
         \/ Refreshing(t) \/ LoseRefresh(t)
         \/ ApiCall(t) \/ RetryCall(t) \/ Bootstrap(t)
         \/ Login(t) \/ SignOut(t) \/ ServeForm(t) \/ LoseForm(t) \/ ReceiveForm(t)
         \/ HearEvent(t) \/ TokenExpires(t)
    \/ \E o \in orphans : ServeOrphan(o)
    \/ \E s \in SIDs : GraceEnds(s) \/ RevokeElsewhere(s)

Spec == Init /\ [][Next]_vars

(* Answers come, the lock is handed on in turn, events are delivered, tokens *)
(* expire, and a tab in use keeps calling the API.                           *)
FairSpec ==
    /\ Spec
    /\ \A t \in Tabs :
         /\ SF_vars(SendRefresh(t) \/ SkipRefresh(t))
         /\ WF_vars(ServeRefresh(t) \/ ReceiveRefresh(t))
         /\ WF_vars(ServeForm(t) \/ ReceiveForm(t))
         /\ WF_vars(HearEvent(t))
         /\ WF_vars(TokenExpires(t) \/ ApiCall(t) \/ RetryCall(t))

-----------------------------------------------------------------------------
(* Type correctness of the sessions, the cookie and the tabs. *)
AuthTypeOK ==
    /\ \A s \in SIDs : sess[s].status \in {"none", "active", "revoked"} /\ sess[s].grace \in BOOLEAN
    /\ jar \in Tokens
    /\ \A t \in Tabs :
         /\ tab[t] \in [sid : SIDs \cup {NoSID}, fresh : BOOLEAN, boot : {"idle", "checking", "complete"},
                        up : BOOLEAN, retry : BOOLEAN]
         /\ tab[t].fresh => tab[t].sid # NoSID
         /\ refresh[t].ph \in {"off", "queued", "sent", "answered"}
         /\ refresh[t].req.token \in Tokens /\ refresh[t].ans.token \in Tokens
    /\ lost \in 0..MaxLost

(* However the tabs' refreshes, reloads, logins and sign-outs interleave, the  *)
(* server never takes the browser's own token of an active session for an      *)
(* unknown or a reused one, unless a message was lost: the browser lock and    *)
(* the replay window of RotateUserSessionRefresh see to it.                    *)
NoTokenRefused == refused => lost > 0

(* Once a tab has given up a session that was signed out, by its own sign-out  *)
(* or by a broadcast one, no late answer of a refresh (authEpoch), no cookie    *)
(* that comes back and no reload shows that session in the tab again.          *)
SignedOutStaysOut == \A t \in Tabs : tab[t].sid \notin told[t]

(* Whoever waits for a refresh has one that will answer: a page that checks     *)
(* its session at start-up (bootstrapState "checking") and a sign-out that      *)
(* recovers from a mismatch, also when the refresh they wait for is superseded. *)
WaitsForRefresh ==
    \A t \in Tabs :
      /\ (tab[t].boot = "checking" \/ ~tab[t].up) => "boot" \in refresh[t].callers
      /\ form[t].ph = "recover" => "logout" \in refresh[t].callers

(* Once the logins and sign-outs are over, every tab comes to show the active   *)
(* session the cookie belongs to, or none: events missed during start-up,       *)
(* cookies overwritten by late answers and revocations elsewhere are made good  *)
(* by the mismatch and 401 paths of createRefreshRunner.                        *)
TabsConverge ==
    <>[](\A t \in Tabs : tab[t].sid # NoSID => tab[t].sid = jar.sid /\ Active(tab[t].sid))
=============================================================================
