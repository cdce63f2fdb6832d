-------------------------- MODULE AuthSessionProofs --------------------------
(***************************************************************************)
(* What holds of the sign-in state of a browser with any number of tabs,   *)
(* login sessions and requests of closed pages.                            *)
(***************************************************************************)
EXTENDS AuthSession, WellFoundedInduction, TLAPS

-----------------------------------------------------------------------------
(* The rows. *)
SessRow == [status : {"none", "active", "revoked"}, grace : BOOLEAN]
TabRow == [sid : SIDs \cup {NoSID}, fresh : BOOLEAN, boot : {"idle", "checking", "complete"},
           up : BOOLEAN, retry : BOOLEAN]
RequestRow == [token : Tokens, expect : SIDs \cup {NoSID}, bearer : SIDs \cup {NoSID}]
AnswerRow == [kind : {"none", "ok", "mismatch", "unauthorized", "failed"},
              cookie : {"keep", "set", "clear"}, token : Tokens]
RefreshRow == [ph : {"off", "queued", "sent", "answered"}, current : BOOLEAN, again : BOOLEAN,
               attempt : Nat, callers : SUBSET {"boot", "api", "logout"}, req : RequestRow, ans : AnswerRow]
FormRow == [ph : {"off", "sent", "answered", "recover"}, kind : {"none", "login", "logout"},
            again : BOOLEAN, req : RequestRow, ans : AnswerRow]
OrphanRow == [kind : {"refresh", "logout"}, req : RequestRow]
Event == [kind : {"authenticated", "signed_out"}, sid : SIDs]

(* A refresh has a request while it is sent, and an answer while it is     *)
(* answered; a cookie is set by a good answer only.                        *)
RefreshOK(r) ==
    /\ r.ph = "off" => r.callers = {}
    /\ r.ph # "sent" => r.req = NoRequest
    /\ r.ph # "answered" => r.ans.token = NoToken
    /\ r.ans.kind = "ok" => r.ans.cookie = "set"
    /\ r.ans.kind = "mismatch" => r.ans.cookie = "keep"
    /\ r.ans.cookie = "set" <=> r.ans.token # NoToken

(* A form sets a cookie only when a login was answered. *)
FormOK(f) ==
    /\ f.ans.cookie = "set" <=> f.ans.token # NoToken
    /\ f.ans.token # NoToken => f.ph = "answered" /\ f.kind = "login" /\ f.ans.kind = "ok"
    /\ f.kind = "login" /\ f.ans.kind = "ok" => f.ans.token # NoToken

TypeInv ==
    /\ sess \in [SIDs -> SessRow]
    /\ jar \in Tokens
    /\ tab \in [Tabs -> TabRow]
    /\ refresh \in [Tabs -> RefreshRow]
    /\ form \in [Tabs -> FormRow]
    /\ orphans \subseteq OrphanRow
    /\ events \in [Tabs -> Seq(Event)]
    /\ lost \in 0..MaxLost
    /\ acts \in Nat
    /\ told \in [Tabs -> SUBSET SIDs]
    /\ refused \in BOOLEAN
    /\ \A t \in Tabs : RefreshOK(refresh[t]) /\ FormOK(form[t])

-----------------------------------------------------------------------------
(* Starting up, waiting and being superseded *)

(* A page that starts up shows nothing and does nothing but wait.          *)
StartUp(x, r, f, ev) ==
    ~x.up => /\ x.sid = NoSID /\ ~x.retry /\ "boot" \in r.callers
             /\ r.current /\ r.req.expect = NoSID /\ ev = <<>> /\ f.ph = "off"

(* Who superseded a refresh has settled the state of the tab.              *)
SupersededOK(x, r) ==
    r.ph # "off" /\ ~r.current => x.boot = "complete" /\ (x.sid = NoSID \/ x.fresh)

Waits(x, r, f) ==
    /\ x.fresh => x.sid # NoSID
    /\ x.boot = "checking" => "boot" \in r.callers
    /\ f.ph = "recover" => "logout" \in r.callers

WaitRow(x, r, f, ev) == StartUp(x, r, f, ev) /\ SupersededOK(x, r) /\ Waits(x, r, f)
WaitInv == \A t \in Tabs : WaitRow(tab[t], refresh[t], form[t], events[t])

-----------------------------------------------------------------------------
(* Which sessions are known to whom *)

OrphanTokens == {o.req.token : o \in {x \in orphans : x.kind = "refresh"}}

(* Somebody other than a login that waits for its answer has the session.  *)
Known(s) ==
    \/ jar.sid = s
    \/ \E k \in OrphanTokens : k.sid = s
    \/ \E u \in Tabs : \/ tab[u].sid = s \/ s \in told[u]
                       \/ refresh[u].req.token.sid = s \/ refresh[u].ans.token.sid = s

(* Sessions that are known exist, and that of a login's answer is new.     *)
KnownInv ==
    /\ \A s \in SIDs : Known(s) => sess[s].status # "none"
    /\ \A t \in Tabs : LET s == form[t].ans.token.sid
                       IN  s # NoSID => /\ sess[s].status # "none" /\ ~Known(s)
                                        /\ \A u \in Tabs : form[u].ans.token.sid = s => u = t

(* A session a tab has given up is revoked, and no answer brings it back.  *)
ToldInv ==
    \A t \in Tabs : /\ \A s \in told[t] : sess[s].status = "revoked"
                    /\ refresh[t].current => refresh[t].ans.token.sid \notin told[t]
                    /\ tab[t].sid \notin told[t]

-----------------------------------------------------------------------------
(* The ages of the tokens, as long as nothing was lost *)

Sent(t) == refresh[t].ph = "sent"
Answered(t) == refresh[t].ph = "answered"
HasLock(r) == r.ph \in {"sent", "answered"}
OneLock == \A t, u \in Tabs : HasLock(refresh[t]) /\ HasLock(refresh[u]) => t = u

Live(k, S) == k # NoToken /\ S[k.sid].status = "active"
Newest(k, O) == \A o \in O : o.sid = k.sid => o.age >= k.age

(* The request under way carries the cookie's secret, one that is accepted, *)
(* and no request of a page that is gone has a newer one.                   *)
RequestOK(k, j, S, O) ==
    k # NoToken => /\ k.sid = j.sid => k = j
                   /\ Live(k, S) => k.age = 0 \/ (k.age = 1 /\ S[k.sid].grace)
                   /\ Newest(k, O)

(* The answer under way carries the newest secret, that no page ever sent. *)
AnswerOK(k, O) == k # NoToken => k.age = 0 /\ \A o \in O : o.sid = k.sid => o.age >= 1

(* A cookie that was overtaken by a rotation is in its replay window.      *)
CookieOK(j, S, O) == j # NoToken => /\ Newest(j, O)
                                    /\ Live(j, S) /\ j.age # 0 => j.age = 1 /\ S[j.sid].grace

(* A page starts up and will present the cookie, or has sent it.           *)
Renews(x, r, j) == ~x.up /\ (r.ph = "queued" \/ (r.ph = "sent" /\ r.req.token = j))
(* An answer under way brings the current secret.                          *)
Brings(r, j) == r.ans.token.sid = j.sid

(* A cookie that a page which is gone may still rotate will be renewed by  *)
(* the page that took its place, and so will one that was overtaken.       *)
RenewalOK ==
    Live(jar, sess) =>
      /\ jar.age = 0 /\ jar \in OrphanTokens => \E t \in Tabs : Renews(tab[t], refresh[t], jar)
      /\ jar.age # 0 => \E t \in Tabs : Renews(tab[t], refresh[t], jar) \/ Brings(refresh[t], jar)

FormAge == \A t \in Tabs : form[t].ans.token.age = 0
RowAge(t) == /\ RequestOK(refresh[t].req.token, jar, sess, OrphanTokens)
             /\ AnswerOK(refresh[t].ans.token, OrphanTokens)

AgeInv == /\ OneLock /\ FormAge /\ CookieOK(jar, sess, OrphanTokens) /\ RenewalOK
          /\ \A t \in Tabs : RowAge(t)
          /\ ~refused

RefusedInv == lost > 0 \/ AgeInv
-----------------------------------------------------------------------------
(* A token belongs to a session, or is none. *)
LEMMA TokenFacts ==
  /\ NoToken \in Tokens /\ NoToken.sid = NoSID /\ NoToken.age = 0
  /\ NoSID \notin SIDs /\ SIDs \subseteq Nat
  /\ \A k \in Tokens : /\ k.sid \in SIDs \cup {NoSID} /\ k.age \in 0..2
                       /\ k # NoToken <=> k.sid \in SIDs
                       /\ k # NoToken <=> k.sid # NoSID
                       /\ k # NoToken => k = [sid |-> k.sid, age |-> k.age]
BY AuthAssumption DEF Tokens, NoToken, NoSID, SIDs

(* The secret a good answer brings is the current one. *)
LEMMA CurrentFacts ==
  ASSUME NEW s \in SIDs
  PROVE  Current(s) \in Tokens /\ Current(s).sid = s /\ Current(s).age = 0 /\ Current(s) # NoToken
BY TokenFacts DEF Current, Tokens

(* A rotation makes a token of its session older and touches no other. *)
LEMMA OlderFacts ==
  ASSUME NEW k \in Tokens, NEW s \in SIDs
  PROVE  /\ Older(k, s) \in Tokens /\ Older(k, s).sid = k.sid
         /\ k.sid = s => Older(k, s).age = IF k.age < 2 THEN k.age + 1 ELSE k.age
         /\ k.sid # s => Older(k, s) = k
         /\ Older(k, s) = NoToken <=> k = NoToken
<1>1. CASE k.sid = s /\ k.age < 2
  <2>1. k = [sid |-> s, age |-> k.age] /\ k.age \in Nat
    BY <1>1, TokenFacts
  <2>2. Older(k, s) = [sid |-> s, age |-> k.age + 1]
    BY <1>1, <2>1 DEF Older
  <2> QED BY <1>1, <2>1, <2>2, TokenFacts DEF Tokens
<1>2. CASE ~(k.sid = s /\ k.age < 2)
  BY <1>2, TokenFacts DEF Older
<1> QED BY <1>1, <1>2

(* The rows without anything under way. *)
LEMMA EmptyRows ==
  /\ NoRequest \in RequestRow /\ NoAnswer \in AnswerRow
  /\ NoRequest.token = NoToken /\ NoRequest.expect = NoSID /\ NoAnswer.token = NoToken
  /\ Idle \in RefreshRow /\ RefreshOK(Idle) /\ Idle.ph = "off" /\ Idle.callers = {} /\ Idle.req = NoRequest /\ Idle.ans = NoAnswer
  /\ NoForm \in FormRow /\ FormOK(NoForm) /\ NoForm.ph = "off" /\ NoForm.ans = NoAnswer
  /\ Loading \in TabRow /\ Loading.sid = NoSID /\ ~Loading.up /\ ~Loading.retry /\ ~Loading.fresh
<1>1. /\ NoRequest \in RequestRow /\ NoAnswer \in AnswerRow
      /\ NoRequest.token = NoToken /\ NoRequest.expect = NoSID /\ NoAnswer.token = NoToken
  BY TokenFacts DEF NoRequest, NoAnswer, RequestRow, AnswerRow
<1>2. Idle \in RefreshRow /\ RefreshOK(Idle) /\ Idle.ph = "off" /\ Idle.callers = {} /\ Idle.req = NoRequest /\ Idle.ans = NoAnswer
  BY <1>1 DEF Idle, RefreshRow, RefreshOK, NoAnswer
<1>3. NoForm \in FormRow /\ FormOK(NoForm) /\ NoForm.ph = "off" /\ NoForm.ans = NoAnswer
  BY <1>1 DEF NoForm, FormRow, FormOK, NoAnswer
<1>4. Loading \in TabRow /\ Loading.sid = NoSID /\ ~Loading.up /\ ~Loading.retry /\ ~Loading.fresh
  BY DEF Loading, Anonymous, TabRow
<1> QED BY <1>1, <1>2, <1>3, <1>4

(* A refresh that begins has its caller and no request yet. *)
LEMMA QueuedFacts ==
  ASSUME NEW who \in {"boot", "api", "logout"}
  PROVE  /\ Queued(who) \in RefreshRow /\ RefreshOK(Queued(who))
         /\ Queued(who).ph = "queued" /\ Queued(who).current /\ Queued(who).callers = {who}
         /\ Queued(who).req = NoRequest /\ Queued(who).ans = NoAnswer
BY EmptyRows DEF Queued, Idle, RefreshRow, RefreshOK, NoAnswer

(* Joining a refresh adds a caller; it begins one if there is none. *)
LEMMA JoinedFacts ==
  ASSUME NEW r \in RefreshRow, RefreshOK(r), NEW who \in {"boot", "api", "logout"}
  PROVE  /\ Joined(r, who) \in RefreshRow /\ RefreshOK(Joined(r, who))
         /\ Joined(r, who).callers = r.callers \cup {who}
         /\ Joined(r, who).req = r.req /\ Joined(r, who).ans.token = r.ans.token
         /\ r.ph # "off" => Joined(r, who).ph = r.ph /\ Joined(r, who).current = r.current
         /\ r.ph = "off" => Joined(r, who).ph = "queued" /\ Joined(r, who).current
<1>1. CASE r.ph = "off"
  BY <1>1, QueuedFacts, EmptyRows DEF Joined, RefreshOK
<1>2. CASE r.ph # "off"
  BY <1>2 DEF Joined, RefreshRow, RefreshOK
<1> QED BY <1>1, <1>2

(* A rotation touches the tokens of a refresh or a form and nothing else. *)
LEMMA OlderRefresh ==
  ASSUME NEW r \in RefreshRow, RefreshOK(r), NEW s \in SIDs
  PROVE  LET c == OlderCarrier(r, s)
         IN  /\ c \in RefreshRow /\ RefreshOK(c)
             /\ c.ph = r.ph /\ c.current = r.current /\ c.callers = r.callers
             /\ c.req.token = Older(r.req.token, s) /\ c.ans.token = Older(r.ans.token, s)
             /\ c.req.expect = r.req.expect
<1>1. r.req \in RequestRow /\ r.ans \in AnswerRow /\ r.req.token \in Tokens /\ r.ans.token \in Tokens
  BY DEF RefreshRow, RequestRow, AnswerRow
<1>2. PICK k, a : k = Older(r.req.token, s) /\ a = Older(r.ans.token, s)
  OBVIOUS
<1>3. /\ k \in Tokens /\ a \in Tokens /\ (a = NoToken <=> r.ans.token = NoToken)
      /\ r.req.token = NoToken => k = NoToken
  BY <1>1, <1>2, OlderFacts
<1>4. OlderCarrier(r, s) = [r EXCEPT !.req.token = k, !.ans.token = a]
  BY <1>2 DEF OlderCarrier
<1>5. [r EXCEPT !.req.token = k, !.ans.token = a] \in RefreshRow
  BY <1>1, <1>3 DEF RefreshRow, RequestRow, AnswerRow
<1>6. r.req = NoRequest => [r.req EXCEPT !.token = k] = NoRequest
  BY <1>1, <1>3, EmptyRows DEF RequestRow, NoRequest
<1> QED BY <1>1, <1>2, <1>3, <1>4, <1>5, <1>6 DEF RefreshOK, RefreshRow, RequestRow, AnswerRow

(* And likewise the tokens of a form. *)
LEMMA OlderForm ==
  ASSUME NEW f \in FormRow, FormOK(f), NEW s \in SIDs
  PROVE  LET c == OlderCarrier(f, s)
         IN  /\ c \in FormRow /\ FormOK(c) /\ c.ph = f.ph /\ c.kind = f.kind
             /\ c.ans.token = Older(f.ans.token, s)
<1>1. f.req \in RequestRow /\ f.ans \in AnswerRow /\ f.req.token \in Tokens /\ f.ans.token \in Tokens
  BY DEF FormRow, RequestRow, AnswerRow
<1>2. PICK k, a : k = Older(f.req.token, s) /\ a = Older(f.ans.token, s)
  OBVIOUS
<1>3. k \in Tokens /\ a \in Tokens /\ (a = NoToken <=> f.ans.token = NoToken)
  BY <1>1, <1>2, OlderFacts
<1>4. OlderCarrier(f, s) = [f EXCEPT !.req.token = k, !.ans.token = a]
  BY <1>2 DEF OlderCarrier
<1>5. [f EXCEPT !.req.token = k, !.ans.token = a] \in FormRow
  BY <1>1, <1>3 DEF FormRow, RequestRow, AnswerRow
<1> QED BY <1>1, <1>2, <1>3, <1>4, <1>5 DEF FormOK, FormRow, RequestRow, AnswerRow

-----------------------------------------------------------------------------
(* What the server does with a session *)

(* Sessions are left alone, or revoked while they are active. *)
Revokes(S) ==
    /\ S \in [SIDs -> SessRow]
    /\ \A s \in SIDs : S[s] = sess[s] \/ (sess[s].status = "active" /\ S[s].status = "revoked")

(* Revoking an active session touches that session only. *)
LEMMA RevokedFacts ==
  ASSUME TypeInv, NEW s \in SIDs, Active(s)
  PROVE  Revokes(Revoked(s)) /\ Revokes(sess)
<1>1. sess \in [SIDs -> SessRow]
  BY DEF TypeInv
<1>2. PICK x : x = [sess[s] EXCEPT !.status = "revoked", !.grace = FALSE]
  OBVIOUS
<1>3. x \in SessRow /\ x.status = "revoked"
  BY <1>1, <1>2 DEF SessRow
<1>4. Revoked(s) = [sess EXCEPT ![s] = x]
  BY <1>1, <1>2 DEF Revoked
<1>5. sess[s].status = "active"
  BY DEF Active
<1> QED BY <1>1, <1>3, <1>4, <1>5 DEF Revokes

(* RefreshAuth accepts a presentable token of an active session, with the  *)
(* current secret, and rotates it if it was the current one.               *)
LEMMA RefreshFacts ==
  ASSUME TypeInv, NEW k \in Tokens, NEW e \in SIDs \cup {NoSID}
  PROVE  /\ RefreshAnswer(k, e) \in AnswerRow
         /\ RefreshAnswer(k, e).kind \in {"ok", "mismatch", "unauthorized"}
         /\ RefreshAnswer(k, e).kind = "ok" =>
              /\ RefreshAnswer(k, e).cookie = "set" /\ RefreshAnswer(k, e).token = Current(k.sid)
              /\ k.sid \in SIDs /\ Active(k.sid) /\ Presentable(k)
         /\ RefreshAnswer(k, e).kind # "ok" =>
              RefreshAnswer(k, e).cookie # "set" /\ RefreshAnswer(k, e).token = NoToken
         /\ RefreshAnswer(k, e).kind = "mismatch" => RefreshAnswer(k, e).cookie = "keep" /\ e # NoSID
         /\ RefreshAnswer(k, e) = Refuse /\ Active(k.sid) => ~Presentable(k)
         /\ Active(k.sid) /\ Presentable(k) /\ e = NoSID /\ k # NoToken => RefreshAnswer(k, e).kind = "ok"
<1>1. /\ Refuse \in AnswerRow /\ Refuse.kind = "unauthorized" /\ Refuse.cookie = "clear" /\ Refuse.token = NoToken
      /\ Mismatch \in AnswerRow /\ Mismatch.kind = "mismatch" /\ Mismatch.cookie = "keep" /\ Mismatch.token = NoToken
  BY TokenFacts DEF Refuse, Mismatch, Answer, AnswerRow
<1>2. CASE k = NoToken
  BY <1>1, <1>2, TokenFacts DEF RefreshAnswer, Active
<1>3. CASE k # NoToken /\ e # NoSID /\ e # k.sid
  <2>1. RefreshAnswer(k, e) = Mismatch
    BY <1>3 DEF RefreshAnswer
  <2> QED BY <1>1, <1>3, <2>1
<1>4. CASE k # NoToken /\ ~(e # NoSID /\ e # k.sid) /\ Active(k.sid) /\ Presentable(k)
  <2>1. RefreshAnswer(k, e) = Answer("ok", "set", Current(k.sid)) /\ k.sid \in SIDs
    BY <1>4, TokenFacts DEF RefreshAnswer
  <2>2. Current(k.sid) \in Tokens
    BY <2>1, CurrentFacts
  <2>3. PICK c : c = Current(k.sid)
    OBVIOUS
  <2>4. Answer("ok", "set", c) \in AnswerRow /\ Answer("ok", "set", c).kind = "ok" /\ Answer("ok", "set", c).cookie = "set"
        /\ Answer("ok", "set", c).token = c
    BY <2>2, <2>3 DEF Answer, AnswerRow
  <2> QED BY <1>1, <1>4, <2>1, <2>3, <2>4
<1>5. CASE k # NoToken /\ ~(e # NoSID /\ e # k.sid) /\ ~(Active(k.sid) /\ Presentable(k))
  <2>1. RefreshAnswer(k, e) = Refuse
    BY <1>5 DEF RefreshAnswer
  <2> QED BY <1>1, <1>5, <2>1
<1> QED BY <1>2, <1>3, <1>4, <1>5

(* A refresh opens the replay window when it rotates, and revokes or does  *)
(* nothing otherwise.                                                      *)
LEMMA RotationFacts ==
  ASSUME TypeInv, NEW k \in Tokens, NEW e \in SIDs \cup {NoSID}
  PROVE  /\ Rotates(k, e) => /\ k.age = 0 /\ k.sid \in SIDs /\ Active(k.sid)
                             /\ RefreshedSessions(k, e) = [sess EXCEPT ![k.sid].grace = TRUE]
                             /\ RefreshedSessions(k, e) \in [SIDs -> SessRow]
                             /\ \A s \in SIDs : RefreshedSessions(k, e)[s].status = sess[s].status
         /\ ~Rotates(k, e) => Revokes(RefreshedSessions(k, e))
<1>0. sess \in [SIDs -> SessRow] /\ Revokes(sess)
  BY DEF TypeInv, Revokes
<1>1. CASE Rotates(k, e)
  <2>1. k.age = 0 /\ k.sid \in SIDs /\ Active(k.sid) /\ RefreshedSessions(k, e) = [sess EXCEPT ![k.sid].grace = TRUE]
    BY <1>1, RefreshFacts DEF Rotates, RefreshedSessions
  <2> QED BY <1>0, <1>1, <2>1, ZenonT(60) DEF SessRow
<1>2. CASE ~Rotates(k, e) /\ Reuses(k, e)
  <2>1. k.sid \in SIDs /\ Active(k.sid)
    BY <1>2, TokenFacts DEF Reuses, Active
  <2>2. RefreshedSessions(k, e) = Revoked(k.sid)
    BY <1>2 DEF RefreshedSessions
  <2> QED BY <1>2, <2>1, <2>2, RevokedFacts
<1>3. CASE ~Rotates(k, e) /\ ~Reuses(k, e)
  BY <1>0, <1>3 DEF RefreshedSessions
<1> QED BY <1>1, <1>2, <1>3

(* AuthLogout revokes or does nothing, and sets no cookie. *)
LEMMA LogoutFacts ==
  ASSUME TypeInv, NEW r \in RequestRow
  PROVE  /\ Revokes(LogoutSessions(r))
         /\ LogoutAnswer(r) \in AnswerRow /\ LogoutAnswer(r).token = NoToken /\ LogoutAnswer(r).cookie # "set"
<1>0. sess \in [SIDs -> SessRow] /\ Revokes(sess)
  BY DEF TypeInv, Revokes
<1>1. r.token \in Tokens /\ r.bearer \in SIDs \cup {NoSID} /\ r.token.sid \in SIDs \cup {NoSID}
  BY TokenFacts DEF RequestRow
<1>2. \A s \in SIDs \cup {NoSID} : Active(s) => Revokes(Revoked(s))
  BY RevokedFacts DEF Active
<1>3. LogoutSessions(r) = sess \/ (\E s \in SIDs \cup {NoSID} : Active(s) /\ LogoutSessions(r) = Revoked(s))
  BY <1>1 DEF LogoutSessions
<1>4. LogoutAnswer(r) \in AnswerRow /\ LogoutAnswer(r).token = NoToken /\ LogoutAnswer(r).cookie # "set"
  BY TokenFacts DEF LogoutAnswer, Mismatch, Answer, AnswerRow
<1> QED BY <1>0, <1>2, <1>3, <1>4

(* The cookie an answer leaves is a token. *)
LEMMA CookieFacts ==
  ASSUME TypeInv, NEW a \in AnswerRow
  PROVE  /\ Cookie(a) \in Tokens
         /\ a.cookie = "set" => Cookie(a) = a.token
         /\ a.cookie = "clear" => Cookie(a) = NoToken
         /\ a.cookie = "keep" => Cookie(a) = jar
BY TokenFacts DEF TypeInv, AnswerRow, Cookie

-----------------------------------------------------------------------------
(* What happens to a tab *)

(* Events are delivered to pages that have started up. *)
Broadcasts(ev) ==
    /\ ev \in [Tabs -> Seq(Event)]
    /\ \A u \in Tabs : ~tab[u].up /\ events[u] = <<>> => ev[u] = <<>>

(* BroadcastChannel messages reach the other pages that have started up. *)
LEMMA PublishFacts ==
  ASSUME TypeInv, NEW t \in Tabs, NEW kind \in {"authenticated", "signed_out"}, NEW s \in SIDs \cup {NoSID}
  PROVE  Broadcasts(Publish(t, kind, s)) /\ Broadcasts(events)
<1>1. events \in [Tabs -> Seq(Event)] /\ Broadcasts(events)
  BY DEF TypeInv, Broadcasts
<1>2. ASSUME NEW u \in Tabs
      PROVE  Publish(t, kind, s)[u] \in Seq(Event) /\ (~tab[u].up => Publish(t, kind, s)[u] = events[u])
  <2>1. CASE u # t /\ tab[u].up /\ s # NoSID
    <3>1. PICK e : e = [kind |-> kind, sid |-> s]
      OBVIOUS
    <3>2. e \in Event
      BY <2>1, <3>1 DEF Event
    <3>3. Publish(t, kind, s)[u] = Append(events[u], e)
      BY <1>2, <2>1, <3>1 DEF Publish
    <3>4. events[u] \in Seq(Event)
      BY <1>1
    <3> QED BY <2>1, <3>2, <3>3, <3>4
  <2>2. CASE ~(u # t /\ tab[u].up /\ s # NoSID)
    <3>1. Publish(t, kind, s)[u] = events[u]
      BY <2>2 DEF Publish
    <3> QED BY <1>1, <3>1
  <2> QED BY <2>1, <2>2
<1>3. Publish(t, kind, s) = [u \in Tabs |-> Publish(t, kind, s)[u]]
  BY DEF Publish
<1>4. Publish(t, kind, s) \in [Tabs -> Seq(Event)]
  BY <1>2, <1>3
<1> QED BY <1>1, <1>2, <1>4 DEF Broadcasts

(* The page of tab t starts anew; its request may be left to the server.   *)
Reload(t) ==
    /\ tab' = [tab EXCEPT ![t] = Loading]
    /\ refresh' = [refresh EXCEPT ![t] = Queued("boot")]
    /\ form' = [form EXCEPT ![t] = NoForm]
    /\ orphans \subseteq orphans' /\ orphans' \subseteq OrphanRow
    /\ events'[t] = <<>>
    /\ \A o \in orphans' : o \in orphans \/ o.kind # "refresh" \/ (Sent(t) /\ o.req = refresh[t].req)

(* A page that is replaced leaves at most its own requests behind. *)
LEMMA LoadFacts ==
  ASSUME TypeInv, NEW t \in Tabs, NEW R, R = refresh \/ R = [refresh EXCEPT ![t] = Idle], Load(t, R), events'[t] = <<>>
  PROVE  Reload(t)
<1>1. refresh \in [Tabs -> RefreshRow] /\ form \in [Tabs -> FormRow] /\ orphans \subseteq OrphanRow
  BY DEF TypeInv
<1>2. PICK r, f : r = R[t] /\ f = form[t]
  OBVIOUS
<1>3. r \in RefreshRow /\ f \in FormRow /\ (r.ph = "sent" => Sent(t) /\ r.req = refresh[t].req)
  BY <1>1, <1>2, EmptyRows DEF Sent
<1>4. PICK left \in Abandoned(f, r) : orphans' = orphans \cup left
  BY <1>2 DEF Load
<1>5. \A o \in left : \/ r.ph = "sent" /\ o = [kind |-> "refresh", req |-> r.req]
                      \/ o = [kind |-> "logout", req |-> f.req]
  BY <1>4 DEF Abandoned
<1>6. r.req \in RequestRow /\ f.req \in RequestRow
  BY <1>3 DEF RefreshRow, FormRow
<1>7. \A o \in left : o \in OrphanRow /\ (o.kind # "refresh" \/ (Sent(t) /\ o.req = refresh[t].req))
  BY <1>3, <1>5, <1>6 DEF OrphanRow
<1>8. /\ tab' = [tab EXCEPT ![t] = Loading] /\ form' = [form EXCEPT ![t] = NoForm]
      /\ refresh' = [refresh EXCEPT ![t] = Queued("boot")]
  BY <1>1 DEF Load
<1> QED BY <1>1, <1>4, <1>7, <1>8 DEF Reload

(* The refresh of tab t is over, and the tab is now like w.                *)
Ends(t, w) ==
    /\ \E x \in TabRow : /\ tab' = [tab EXCEPT ![t] = x]
                         /\ x.up /\ x.sid = w.sid /\ x.fresh = w.fresh /\ x.boot = w.boot
    /\ refresh' = [refresh EXCEPT ![t] = Idle]
    /\ \E f \in FormRow : /\ form' = [form EXCEPT ![t] = f] /\ FormOK(f)
                          /\ f.ph # "recover" /\ f.ans.token \in {form[t].ans.token, NoToken}
    /\ UNCHANGED orphans

(* A form that recovers sends its request again, with the new session. *)
LEMMA RecoverRows ==
  ASSUME NEW f \in FormRow, FormOK(f), f.ph = "recover", NEW q \in RequestRow,
         NEW g, g = [f EXCEPT !.ph = "sent", !.again = FALSE, !.req = q]
  PROVE  g \in FormRow /\ FormOK(g) /\ g.ph # "recover" /\ g.ans.token = f.ans.token
BY DEF FormRow, FormOK

(* The callers of a refresh see the page replaced, or the tab as it now is. *)
LEMMA SettleFacts ==
  ASSUME TypeInv, NEW t \in Tabs, NEW o, NEW w \in TabRow, NEW ev, Broadcasts(ev), jar' \in Tokens,
         Settle(t, o, w, ev, [refresh EXCEPT ![t] = Idle])
  PROVE  (Reload(t) \/ Ends(t, w)) /\ Broadcasts(events')
<1>0. /\ refresh \in [Tabs -> RefreshRow] /\ form \in [Tabs -> FormRow] /\ FormOK(form[t]) /\ form[t] \in FormRow
      /\ ev \in [Tabs -> Seq(Event)] /\ refresh[t].callers \in SUBSET {"boot", "api", "logout"}
  BY DEF TypeInv, Broadcasts, RefreshRow
<1>1. CASE "api" \in refresh[t].callers /\ o \in {"anonymous", "out_of_sync"}
  <2>1. Load(t, [refresh EXCEPT ![t] = Idle]) /\ events' = [ev EXCEPT ![t] = <<>>]
    BY <1>1 DEF Settle
  <2>2. Broadcasts(events')
    BY <1>0, <2>1 DEF Broadcasts
  <2>3. events'[t] = <<>>
    BY <1>0, <2>1
  <2> QED BY <2>1, <2>2, <2>3, LoadFacts
<1>2. CASE ~("api" \in refresh[t].callers /\ o \in {"anonymous", "out_of_sync"})
  <2>1. PICK b \in BOOLEAN : b = (w.retry \/ ("api" \in refresh[t].callers /\ o = "authenticated"))
    OBVIOUS
  <2>2. PICK x : x = [w EXCEPT !.up = TRUE, !.retry = b]
    OBVIOUS
  <2>3. x \in TabRow /\ x.up /\ x.sid = w.sid /\ x.fresh = w.fresh /\ x.boot = w.boot
    BY <2>1, <2>2 DEF TabRow
  <2>4. tab' = [tab EXCEPT ![t] = x] /\ refresh' = [refresh EXCEPT ![t] = Idle] /\ events' = ev /\ UNCHANGED orphans
    BY <1>2, <2>1, <2>2 DEF Settle
  <2>5. \E f \in FormRow : /\ form' = [form EXCEPT ![t] = f] /\ FormOK(f)
                           /\ f.ph # "recover" /\ f.ans.token \in {form[t].ans.token, NoToken}
    <3>1. CASE form[t].ph # "recover"
      <4>1. form' = form
        BY <1>2, <3>1 DEF Settle
      <4> QED BY <1>0, <3>1, <4>1
    <3>2. CASE form[t].ph = "recover" /\ o = "authenticated"
      <4>1. PICK q : q = [token |-> jar', expect |-> w.sid, bearer |-> w.sid]
        OBVIOUS
      <4>2. q \in RequestRow
        BY <4>1 DEF RequestRow, TabRow
      <4>3. form' = [form EXCEPT ![t].ph = "sent", ![t].again = FALSE, ![t].req = q]
        BY <1>2, <3>2, <4>1 DEF Settle
      <4>4. PICK g : g = [form[t] EXCEPT !.ph = "sent", !.again = FALSE, !.req = q]
        OBVIOUS
      <4>5. form' = [form EXCEPT ![t] = g]
        BY <1>0, <4>3, <4>4
      <4> QED BY <1>0, <3>2, <4>2, <4>4, <4>5, RecoverRows
    <3>3. CASE form[t].ph = "recover" /\ o # "authenticated"
      <4>1. form' = [form EXCEPT ![t] = NoForm]
        BY <1>2, <3>3 DEF Settle
      <4> QED BY <4>1, EmptyRows
    <3> QED BY <3>1, <3>2, <3>3
  <2> QED BY <2>3, <2>4, <2>5 DEF Ends
<1> QED BY <1>1, <1>2

(* What the tab may show once its refresh has answered.                    *)
Outcome(t, w) ==
    \/ ~refresh[t].current /\ w = tab[t]
    \/ /\ refresh[t].current /\ w.boot # "checking"
       /\ \/ w.sid = refresh[t].ans.token.sid /\ w.sid # NoSID /\ w.fresh
          \/ w.sid = NoSID /\ ~w.fresh
          \/ w.sid = tab[t].sid /\ w.fresh = tab[t].fresh

(* The refresh of tab t is sent a second time, without the session.        *)
Rerun(t) ==
    /\ refresh[t].current /\ refresh[t].ans.token = NoToken /\ jar' = jar
    /\ \E x \in TabRow : /\ tab' = [tab EXCEPT ![t] = x]
                         /\ x.sid = NoSID /\ ~x.fresh /\ x.boot = "idle" /\ x.up = tab[t].up /\ x.retry = tab[t].retry
    /\ \E r \in RefreshRow : /\ refresh' = [refresh EXCEPT ![t] = r] /\ RefreshOK(r)
                             /\ r.ph = "sent" /\ r.current /\ r.callers = refresh[t].callers
                             /\ r.req.token = jar /\ r.req.expect = NoSID /\ r.ans.token = NoToken
    /\ UNCHANGED <<events, form, orphans>>

(* What run does with an answer: reload, end, or send a second time. *)
LEMMA ReceiveCases ==
  ASSUME TypeInv, NEW t \in Tabs, ReceiveRefresh(t)
  PROVE  /\ Answered(t) /\ jar' = Cookie(refresh[t].ans) /\ jar' \in Tokens
         /\ UNCHANGED <<sess, lost, acts, told, refused>> /\ Broadcasts(events')
         /\ \/ Reload(t)
            \/ \E w \in TabRow : Ends(t, w) /\ Outcome(t, w)
            \/ Rerun(t)
<1>0. /\ refresh[t] \in RefreshRow /\ RefreshOK(refresh[t]) /\ tab[t] \in TabRow /\ refresh[t].ans \in AnswerRow
      /\ refresh \in [Tabs -> RefreshRow] /\ tab \in [Tabs -> TabRow] /\ refresh[t].ans.token \in Tokens
  BY DEF TypeInv, RefreshRow, AnswerRow
<1>1. /\ Answered(t) /\ jar' = Cookie(refresh[t].ans) /\ jar' \in Tokens
      /\ UNCHANGED <<sess, lost, acts, told, refused>>
  BY <1>0, CookieFacts DEF ReceiveRefresh, Answered
<1> DEFINE done == [refresh EXCEPT ![t] = Idle]
           a == refresh[t].ans
           Goal == /\ Broadcasts(events')
                   /\ \/ Reload(t) \/ Rerun(t)
                      \/ \E w \in TabRow : Ends(t, w) /\ Outcome(t, w)
<1>2. ASSUME NEW o, NEW w \in TabRow, NEW ev, Broadcasts(ev), Settle(t, o, w, ev, done), Outcome(t, w) PROVE Goal
  BY <1>1, <1>2, SettleFacts
<1>3. Broadcasts(events)
  BY DEF TypeInv, Broadcasts
<1>4. CASE ~refresh[t].current
  <2>1. Settle(t, "superseded", tab[t], events, done)
    BY <1>4 DEF ReceiveRefresh
  <2>2. Outcome(t, tab[t])
    BY <1>4 DEF Outcome
  <2> QED BY <1>0, <1>1, <1>2, <1>3, <2>1, <2>2
<1>5. CASE refresh[t].current /\ a.kind = "ok"
  <2>1. PICK w : w = SetBundle(tab[t], a.token.sid)
    OBVIOUS
  <2>2. Settle(t, "authenticated", w, events, done)
    BY <1>5, <2>1 DEF ReceiveRefresh
  <2>3. a.token.sid \in SIDs /\ a.token.sid # NoSID
    BY <1>0, <1>5, TokenFacts DEF RefreshOK
  <2>4. w \in TabRow /\ w.sid = a.token.sid /\ w.fresh /\ w.boot # "checking"
    BY <1>0, <2>1, <2>3 DEF SetBundle, TabRow
  <2>5. Outcome(t, w)
    BY <1>5, <2>3, <2>4 DEF Outcome
  <2> QED BY <1>1, <1>2, <1>3, <2>2, <2>4, <2>5
<1>6. CASE refresh[t].current /\ a.kind = "mismatch" /\ refresh[t].again
  <2>1. /\ tab' = [tab EXCEPT ![t] = Reset(@, "idle")]
        /\ refresh' = [refresh EXCEPT ![t] =
              [[refresh[t] EXCEPT !.again = FALSE, !.attempt = 0]
                 EXCEPT !.ph = "sent", !.ans = NoAnswer, !.req = [NoRequest EXCEPT !.token = jar', !.expect = tab'[t].sid]]]
        /\ UNCHANGED <<events, form, orphans>>
    BY <1>6 DEF ReceiveRefresh
  <2>2. PICK x : x = Reset(tab[t], "idle")
    OBVIOUS
  <2>3. x \in TabRow /\ x.sid = NoSID /\ ~x.fresh /\ x.boot = "idle" /\ x.up = tab[t].up /\ x.retry = tab[t].retry
    BY <1>0, <2>2 DEF Reset, TabRow
  <2>4. tab' = [tab EXCEPT ![t] = x]
    BY <1>0, <2>1, <2>2
  <2>5. jar' = jar /\ a.token = NoToken
    BY <1>0, <1>1, <1>6, CookieFacts DEF RefreshOK
  <2>6. PICK q : q = [NoRequest EXCEPT !.token = jar', !.expect = tab'[t].sid]
    OBVIOUS
  <2>7. tab'[t].sid = NoSID
    BY <1>0, <2>3, <2>4
  <2>8. q \in RequestRow /\ q.token = jar /\ q.expect = NoSID
    BY <1>1, <2>5, <2>6, <2>7, EmptyRows DEF RequestRow, NoRequest
  <2>9. PICK r : r = [refresh[t] EXCEPT !.again = FALSE, !.attempt = 0, !.ph = "sent", !.ans = NoAnswer, !.req = q]
    OBVIOUS
  <2>10. refresh' = [refresh EXCEPT ![t] = r]
    BY <1>0, <2>1, <2>6, <2>9
  <2>11. /\ r \in RefreshRow /\ RefreshOK(r) /\ r.ph = "sent" /\ r.current /\ r.callers = refresh[t].callers
         /\ r.req.token = jar /\ r.req.expect = NoSID /\ r.ans.token = NoToken
    <3>1. refresh[t].ph = "answered" /\ q \in RequestRow
      BY <1>1, <2>8 DEF Answered
    <3>2. /\ r \in RefreshRow /\ RefreshOK(r) /\ r.ph = "sent" /\ r.current = refresh[t].current /\ r.callers = refresh[t].callers
          /\ r.req = q /\ r.ans.token = NoToken
      <4>1. PICK y : y = refresh[t]
        OBVIOUS
      <4>2. y \in RefreshRow /\ RefreshOK(y) /\ y.ph = "answered" /\ q \in RequestRow
        BY <1>0, <3>1, <4>1
      <4>3. r = [y EXCEPT !.again = FALSE, !.attempt = 0, !.ph = "sent", !.ans = NoAnswer, !.req = q]
        BY <2>9, <4>1
      <4>4. /\ r \in RefreshRow /\ RefreshOK(r) /\ r.ph = "sent" /\ r.current = y.current /\ r.callers = y.callers
            /\ r.req = q /\ r.ans.token = NoToken
        BY <4>2, <4>3, EmptyRows DEF RefreshRow, RefreshOK, NoAnswer
      <4> QED BY <4>1, <4>4
    <3> QED BY <1>6, <2>8, <3>2
  <2>12. Rerun(t)
    BY <1>6, <2>1, <2>3, <2>4, <2>5, <2>10, <2>11 DEF Rerun
  <2> QED BY <1>1, <1>3, <2>1, <2>12
<1>7. CASE refresh[t].current /\ a.kind = "failed"
  <2>1. PICK w : w = [tab[t] EXCEPT !.boot = "idle"]
    OBVIOUS
  <2>2. Settle(t, "transient", w, events, done)
    BY <1>7, <2>1 DEF ReceiveRefresh
  <2>3. w \in TabRow /\ w.sid = tab[t].sid /\ w.fresh = tab[t].fresh /\ w.boot # "checking"
    BY <1>0, <2>1 DEF TabRow
  <2>4. Outcome(t, w)
    BY <1>7, <2>3 DEF Outcome
  <2> QED BY <1>1, <1>2, <1>3, <2>2, <2>3, <2>4
<1>8. ASSUME refresh[t].current, NEW o, NEW ev, Broadcasts(ev), Settle(t, o, Reset(tab[t], "complete"), ev, done) PROVE Goal
  <2>1. PICK w : w = Reset(tab[t], "complete")
    OBVIOUS
  <2>2. w \in TabRow /\ w.sid = NoSID /\ ~w.fresh /\ w.boot # "checking"
    BY <1>0, <2>1 DEF Reset, TabRow
  <2>3. Outcome(t, w)
    BY <1>8, <2>2 DEF Outcome
  <2> QED BY <1>2, <1>8, <2>1, <2>2, <2>3
<1>9. CASE refresh[t].current /\ a.kind = "unauthorized"
  <2>1. Settle(t, "anonymous", Reset(tab[t], "complete"), Publish(t, "signed_out", tab[t].sid), done)
    BY <1>9 DEF ReceiveRefresh
  <2>2. Broadcasts(Publish(t, "signed_out", tab[t].sid))
    BY <1>0, PublishFacts DEF TabRow
  <2> QED BY <1>1, <1>8, <1>9, <2>1, <2>2
<1>10. CASE refresh[t].current /\ (a.kind = "none" \/ (a.kind = "mismatch" /\ ~refresh[t].again))
  <2>1. Settle(t, "out_of_sync", Reset(tab[t], "complete"), events, done)
    BY <1>10 DEF ReceiveRefresh
  <2> QED BY <1>1, <1>3, <1>8, <1>10, <2>1
<1>11. a.kind \in {"none", "ok", "mismatch", "unauthorized", "failed"}
  BY <1>0 DEF AnswerRow
<1> QED BY <1>1, <1>4, <1>5, <1>6, <1>7, <1>9, <1>10, <1>11

(* A refresh superseded while it waited for the lock ends without a request. *)
LEMMA SkipCases ==
  ASSUME TypeInv, NEW t \in Tabs, SkipRefresh(t)
  PROVE  /\ refresh[t].ph = "queued" /\ ~refresh[t].current /\ jar' = jar
         /\ UNCHANGED <<sess, lost, acts, told, refused>> /\ Broadcasts(events')
         /\ \/ Reload(t)
            \/ \E w \in TabRow : Ends(t, w) /\ Outcome(t, w)
<1>1. tab[t] \in TabRow /\ Broadcasts(events) /\ jar \in Tokens
  BY DEF TypeInv, Broadcasts
<1>2. Settle(t, "superseded", tab[t], events, [refresh EXCEPT ![t] = Idle]) /\ jar' = jar
  BY DEF SkipRefresh
<1>3. Broadcasts(events') /\ (Reload(t) \/ Ends(t, tab[t]))
  BY <1>1, <1>2, SettleFacts
<1> QED BY <1>1, <1>2, <1>3 DEF SkipRefresh, Outcome

-----------------------------------------------------------------------------
(* Steps of a tab, by the rows they leave *)

Counts ==
    /\ lost' \in 0..MaxLost /\ lost' >= lost /\ acts' \in Nat /\ refused' \in BOOLEAN
    /\ told' \in [Tabs -> SUBSET SIDs] /\ jar' \in Tokens /\ sess' \in [SIDs -> SessRow]

Rows(t, x, r, f) ==
    /\ x \in TabRow /\ r \in RefreshRow /\ f \in FormRow /\ RefreshOK(r) /\ FormOK(f)
    /\ tab' = [tab EXCEPT ![t] = x]
    /\ refresh' = [refresh EXCEPT ![t] = r]
    /\ form' = [form EXCEPT ![t] = f]
    /\ orphans' \subseteq OrphanRow /\ Broadcasts(events') /\ Counts
    /\ WaitRow(tab[t], refresh[t], form[t], events[t]) => WaitRow(x, r, f, events'[t])

(* No secret moves: the tab may give up its session, drop an answer, join  *)
(* or begin a refresh, or supersede it; the server may revoke.             *)
Quiet(t, x, r, f) ==
    /\ r.req.token = refresh[t].req.token /\ r.ans.token = refresh[t].ans.token
    /\ r.ph = refresh[t].ph \/ (refresh[t].ph = "off" /\ r.ph = "queued")
    /\ r.current => refresh[t].current \/ refresh[t].ph = "off"
    /\ x.up = tab[t].up /\ x.sid \in {tab[t].sid, NoSID}
    /\ f.ans.token \in {form[t].ans.token, NoToken}
    /\ jar' \in {jar, NoToken} /\ Revokes(sess')
    /\ UNCHANGED <<orphans, refused>>
    /\ told' = told \/ (told' = Told(t) /\ x.sid = NoSID /\ ~r.current)

QuietStep(t) == \E x, r, f : Rows(t, x, r, f) /\ Quiet(t, x, r, f)

(* The rows and the parts of the rows of a tab have their types. *)
LEMMA TypeFacts ==
  ASSUME TypeInv, NEW t \in Tabs
  PROVE  /\ tab[t] \in TabRow /\ refresh[t] \in RefreshRow /\ form[t] \in FormRow
         /\ RefreshOK(refresh[t]) /\ FormOK(form[t]) /\ events[t] \in Seq(Event)
         /\ refresh[t].req \in RequestRow /\ refresh[t].ans \in AnswerRow
         /\ refresh[t].req.token \in Tokens /\ refresh[t].ans.token \in Tokens
         /\ form[t].req \in RequestRow /\ form[t].ans \in AnswerRow /\ form[t].ans.token \in Tokens
         /\ tab = [tab EXCEPT ![t] = tab[t]] /\ refresh = [refresh EXCEPT ![t] = refresh[t]]
         /\ form = [form EXCEPT ![t] = form[t]]
         /\ Revokes(sess) /\ Broadcasts(events) /\ orphans \subseteq OrphanRow
         /\ (UNCHANGED <<lost, acts, refused, told, jar, sess>> => Counts)
         /\ tab[t].sid \in SIDs \cup {NoSID} /\ Told(t) \in [Tabs -> SUBSET SIDs]
<1>1. /\ tab[t] \in TabRow /\ refresh[t] \in RefreshRow /\ form[t] \in FormRow
      /\ RefreshOK(refresh[t]) /\ FormOK(form[t]) /\ events[t] \in Seq(Event) /\ orphans \subseteq OrphanRow
      /\ Revokes(sess) /\ Broadcasts(events)
  BY DEF TypeInv, Revokes, Broadcasts
<1>2. /\ refresh[t].req \in RequestRow /\ refresh[t].ans \in AnswerRow
      /\ refresh[t].req.token \in Tokens /\ refresh[t].ans.token \in Tokens
      /\ form[t].req \in RequestRow /\ form[t].ans \in AnswerRow /\ form[t].ans.token \in Tokens
      /\ tab[t].sid \in SIDs \cup {NoSID}
  BY <1>1 DEF RefreshRow, FormRow, RequestRow, AnswerRow, TabRow
<1>3. /\ tab = [tab EXCEPT ![t] = tab[t]] /\ refresh = [refresh EXCEPT ![t] = refresh[t]]
      /\ form = [form EXCEPT ![t] = form[t]]
  BY DEF TypeInv
<1>4. UNCHANGED <<lost, acts, refused, told, jar, sess>> => Counts
  <2>1. lost \in Nat
    BY AuthAssumption DEF TypeInv
  <2> QED BY <2>1 DEF TypeInv, Counts
<1>5. Told(t) \in [Tabs -> SUBSET SIDs]
  BY <1>2 DEF TypeInv, Told
<1> QED BY <1>1, <1>2, <1>3, <1>4, <1>5

(* A refresh that is superseded loses nothing but its standing. *)
LEMMA SupersededFacts ==
  ASSUME TypeInv, NEW t \in Tabs
  PROVE  \E r \in RefreshRow : /\ Superseded(t) = [refresh EXCEPT ![t] = r] /\ RefreshOK(r) /\ ~r.current
                               /\ r.ph = refresh[t].ph /\ r.callers = refresh[t].callers
                               /\ r.req.token = refresh[t].req.token /\ r.ans.token = refresh[t].ans.token
<1>1. PICK r : r = [refresh[t] EXCEPT !.current = FALSE]
  OBVIOUS
<1>2. Superseded(t) = [refresh EXCEPT ![t] = r]
  BY <1>1 DEF Superseded, TypeInv
<1>3. /\ r \in RefreshRow /\ RefreshOK(r) /\ ~r.current /\ r.ph = refresh[t].ph /\ r.callers = refresh[t].callers
      /\ r.req.token = refresh[t].req.token /\ r.ans.token = refresh[t].ans.token
  BY <1>1, TypeFacts, ZenonT(60) DEF RefreshRow, RefreshOK
<1> QED BY <1>2, <1>3

(* A call that was answered 401 joins or begins a refresh. *)
LEMMA ApiQuiet ==
  ASSUME TypeInv, NEW t \in Tabs, ApiCall(t)
  PROVE  QuietStep(t)
<1>1. PICK r : r = Joined(refresh[t], "api")
  OBVIOUS
<1>2. /\ r \in RefreshRow /\ RefreshOK(r) /\ r.callers = refresh[t].callers \cup {"api"}
      /\ r.req = refresh[t].req /\ r.ans.token = refresh[t].ans.token
      /\ refresh[t].ph # "off" => r.ph = refresh[t].ph /\ r.current = refresh[t].current
      /\ refresh[t].ph = "off" => r.ph = "queued" /\ r.current
  BY <1>1, TypeFacts, JoinedFacts
<1>3. /\ refresh' = [refresh EXCEPT ![t] = r] /\ tab[t].up
      /\ UNCHANGED <<sess, jar, tab, form, orphans, events, lost, acts, told, refused>>
  BY <1>1 DEF ApiCall
<1>4. WaitRow(tab[t], refresh[t], form[t], events[t]) => WaitRow(tab[t], r, form[t], events[t])
  BY <1>2, <1>3 DEF WaitRow, StartUp, SupersededOK, Waits
<1>5. Rows(t, tab[t], r, form[t])
  BY <1>2, <1>3, <1>4, TypeFacts DEF Rows
<1>6. Quiet(t, tab[t], r, form[t])
  BY <1>2, <1>3, TypeFacts DEF Quiet
<1> QED BY <1>5, <1>6 DEF QuietStep

(* A navigation joins or begins a refresh, unless the tab has a token. *)
LEMMA BootstrapQuiet ==
  ASSUME TypeInv, NEW t \in Tabs, Bootstrap(t)
  PROVE  QuietStep(t)
<1>0. /\ tab[t].up /\ tab[t].boot # "checking" /\ (tab[t].boot # "complete" \/ (tab[t].sid # NoSID /\ ~tab[t].fresh))
      /\ UNCHANGED <<sess, jar, form, orphans, events, lost, acts, told, refused>>
  BY DEF Bootstrap
<1>1. CASE tab[t].fresh
  <2>1. PICK x : x = [tab[t] EXCEPT !.boot = "complete"]
    OBVIOUS
  <2>2. x \in TabRow /\ x.up = tab[t].up /\ x.sid = tab[t].sid /\ x.fresh = tab[t].fresh /\ x.boot = "complete" /\ x.retry = tab[t].retry
    BY <2>1, TypeFacts DEF TabRow
  <2>3. tab' = [tab EXCEPT ![t] = x] /\ refresh' = [refresh EXCEPT ![t] = refresh[t]]
    BY <1>1, <2>1, TypeFacts DEF Bootstrap, TypeInv
  <2>4. WaitRow(tab[t], refresh[t], form[t], events[t]) => WaitRow(x, refresh[t], form[t], events[t])
    BY <1>0, <1>1, <2>2 DEF WaitRow, StartUp, SupersededOK, Waits
  <2>5. Rows(t, x, refresh[t], form[t])
    BY <1>0, <2>2, <2>3, <2>4, TypeFacts DEF Rows
  <2>6. Quiet(t, x, refresh[t], form[t])
    BY <1>0, <2>2, <2>3, TypeFacts DEF Quiet
  <2> QED BY <2>5, <2>6 DEF QuietStep
<1>2. CASE ~tab[t].fresh
  <2>1. PICK x, r : x = [tab[t] EXCEPT !.boot = "checking"] /\ r = Joined(refresh[t], "boot")
    OBVIOUS
  <2>2. x \in TabRow /\ x.up = tab[t].up /\ x.sid = tab[t].sid /\ x.fresh = tab[t].fresh /\ x.boot = "checking" /\ x.retry = tab[t].retry
    BY <2>1, TypeFacts DEF TabRow
  <2>3. /\ r \in RefreshRow /\ RefreshOK(r) /\ r.callers = refresh[t].callers \cup {"boot"}
        /\ r.req = refresh[t].req /\ r.ans.token = refresh[t].ans.token
        /\ refresh[t].ph # "off" => r.ph = refresh[t].ph /\ r.current = refresh[t].current
        /\ refresh[t].ph = "off" => r.ph = "queued" /\ r.current
    BY <2>1, TypeFacts, JoinedFacts
  <2>4. tab' = [tab EXCEPT ![t] = x] /\ refresh' = [refresh EXCEPT ![t] = r]
    BY <1>2, <2>1, TypeFacts DEF Bootstrap, TypeInv
  <2>5. WaitRow(tab[t], refresh[t], form[t], events[t]) => WaitRow(x, r, form[t], events[t])
    BY <1>0, <1>2, <2>2, <2>3 DEF WaitRow, StartUp, SupersededOK, Waits
  <2>6. Rows(t, x, r, form[t])
    BY <1>0, <2>2, <2>3, <2>4, <2>5, TypeFacts DEF Rows
  <2>7. Quiet(t, x, r, form[t])
    BY <1>0, <2>2, <2>3, TypeFacts DEF Quiet
  <2> QED BY <2>6, <2>7 DEF QuietStep
<1> QED BY <1>1, <1>2

(* A page that starts anew has nothing to wait for but its refresh. *)
LEMMA ReloadRows ==
  ASSUME TypeInv, NEW t \in Tabs, Reload(t), Broadcasts(events'), Counts
  PROVE  Rows(t, Loading, Queued("boot"), NoForm)
<1>1. WaitRow(Loading, Queued("boot"), NoForm, events'[t])
  BY QueuedFacts, EmptyRows DEF Reload, WaitRow, StartUp, SupersededOK, Waits
<1> QED BY <1>1, QueuedFacts, EmptyRows DEF Reload, Rows

ReloadStep(t) == Reload(t) /\ Broadcasts(events') /\ UNCHANGED <<sess, jar, lost, acts, told, refused>>

(* The second attempt of a call succeeds or loads the page anew. *)
LEMMA RetryQuiet ==
  ASSUME TypeInv, NEW t \in Tabs, RetryCall(t)
  PROVE  QuietStep(t) \/ ReloadStep(t)
<1>0. UNCHANGED <<sess, jar, lost, acts, told, refused>>
  BY DEF RetryCall
<1>1. CASE tab[t].fresh /\ Active(tab[t].sid)
  <2>1. PICK x : x = [tab[t] EXCEPT !.retry = FALSE]
    OBVIOUS
  <2>2. x \in TabRow /\ x.up = tab[t].up /\ x.sid = tab[t].sid /\ x.fresh = tab[t].fresh /\ x.boot = tab[t].boot /\ ~x.retry
    BY <2>1, TypeFacts DEF TabRow
  <2>3. tab' = [tab EXCEPT ![t] = x] /\ UNCHANGED <<refresh, form, orphans, events>>
    BY <1>1, <2>1 DEF RetryCall, TypeInv
  <2>4. WaitRow(tab[t], refresh[t], form[t], events[t]) => WaitRow(x, refresh[t], form[t], events[t])
    BY <2>2 DEF WaitRow, StartUp, SupersededOK, Waits
  <2>5. Rows(t, x, refresh[t], form[t])
    BY <1>0, <2>2, <2>3, <2>4, TypeFacts DEF Rows
  <2>6. Quiet(t, x, refresh[t], form[t])
    BY <1>0, <2>2, <2>3, TypeFacts DEF Quiet
  <2> QED BY <2>5, <2>6 DEF QuietStep
<1>2. CASE ~(tab[t].fresh /\ Active(tab[t].sid))
  <2>1. Load(t, refresh) /\ events' = [events EXCEPT ![t] = <<>>]
    BY <1>2 DEF RetryCall
  <2>2. Broadcasts(events') /\ events'[t] = <<>>
    BY <2>1 DEF Broadcasts, TypeInv
  <2> QED BY <1>0, <2>1, <2>2, LoadFacts DEF ReloadStep
<1> QED BY <1>1, <1>2

(* An access token expires. *)
LEMMA ExpiryQuiet ==
  ASSUME TypeInv, NEW t \in Tabs, TokenExpires(t)
  PROVE  QuietStep(t)
<1>1. PICK x : x = [tab[t] EXCEPT !.fresh = FALSE]
  OBVIOUS
<1>2. x \in TabRow /\ x.up = tab[t].up /\ x.sid = tab[t].sid /\ ~x.fresh /\ x.boot = tab[t].boot /\ x.retry = tab[t].retry
  BY <1>1, TypeFacts DEF TabRow
<1>3. /\ tab' = [tab EXCEPT ![t] = x] /\ (refresh[t].ph = "off" \/ refresh[t].current)
      /\ UNCHANGED <<sess, jar, refresh, form, orphans, events, lost, acts, told, refused>>
  BY <1>1 DEF TokenExpires, TypeInv
<1>4. WaitRow(tab[t], refresh[t], form[t], events[t]) => WaitRow(x, refresh[t], form[t], events[t])
  BY <1>2, <1>3 DEF WaitRow, StartUp, SupersededOK, Waits
<1>5. Rows(t, x, refresh[t], form[t])
  BY <1>2, <1>3, <1>4, TypeFacts DEF Rows
<1>6. Quiet(t, x, refresh[t], form[t])
  BY <1>2, <1>3, TypeFacts DEF Quiet
<1> QED BY <1>5, <1>6 DEF QuietStep

(* A step that concerns the form of a tab, which has started up. *)
LEMMA FormRows ==
  ASSUME TypeInv, NEW t \in Tabs, NEW f \in FormRow, FormOK(f), f.ph # "recover", f.ans.token = NoToken,
         WaitRow(tab[t], refresh[t], form[t], events[t]) => tab[t].up,
         form' = [form EXCEPT ![t] = f], UNCHANGED <<tab, refresh, orphans, events, told, refused, jar>>,
         Counts, Revokes(sess')
  PROVE  QuietStep(t)
<1>1. WaitRow(tab[t], refresh[t], form[t], events[t]) => WaitRow(tab[t], refresh[t], f, events[t])
  BY DEF WaitRow, StartUp, Waits
<1>2. Rows(t, tab[t], refresh[t], f)
  BY <1>1, TypeFacts DEF Rows
<1>3. Quiet(t, tab[t], refresh[t], f)
  BY TypeFacts DEF Quiet
<1> QED BY <1>2, <1>3 DEF QuietStep

(* A login or a sign-out begins. *)
LEMMA BeginFormQuiet ==
  ASSUME TypeInv, NEW t \in Tabs, Login(t) \/ SignOut(t)
  PROVE  QuietStep(t)
<1>0. /\ UNCHANGED <<sess, jar, tab, refresh, orphans, events, lost, told, refused>> /\ acts' = acts + 1 /\ tab[t].up
  BY DEF Login, SignOut
<1>1. Counts /\ Revokes(sess')
  <2>1. acts' \in Nat /\ lost \in Nat /\ lost \in 0..MaxLost
    BY <1>0, AuthAssumption DEF TypeInv
  <2> QED BY <1>0, <2>1, TypeFacts DEF Counts, TypeInv
<1>2. ASSUME NEW f \in FormRow, FormOK(f), f.ph = "sent", f.ans.token = NoToken, form' = [form EXCEPT ![t] = f] PROVE QuietStep(t)
  BY <1>0, <1>1, <1>2, FormRows
<1>3. CASE Login(t)
  <2>1. PICK f : f = [NoForm EXCEPT !.ph = "sent", !.kind = "login"]
    OBVIOUS
  <2>2. f \in FormRow /\ FormOK(f) /\ f.ph = "sent" /\ f.ans.token = NoToken
    BY <2>1, EmptyRows DEF NoForm, FormRow, FormOK, NoAnswer
  <2>3. form' = [form EXCEPT ![t] = f]
    BY <1>3, <2>1 DEF Login
  <2> QED BY <1>2, <2>2, <2>3
<1>4. CASE SignOut(t)
  <2>1. PICK q : q = [token |-> jar, expect |-> tab[t].sid, bearer |-> IF tab[t].fresh THEN tab[t].sid ELSE NoSID]
    OBVIOUS
  <2>2. q \in RequestRow
    BY <2>1, TypeFacts DEF RequestRow, TypeInv
  <2>3. PICK f : f = [NoForm EXCEPT !.ph = "sent", !.kind = "logout", !.again = TRUE, !.req = q]
    OBVIOUS
  <2>4. f \in FormRow /\ FormOK(f) /\ f.ph = "sent" /\ f.ans.token = NoToken
    BY <2>2, <2>3, EmptyRows DEF NoForm, FormRow, FormOK, NoAnswer
  <2>5. form' = [form EXCEPT ![t] = f]
    BY <1>4, <2>1, <2>3 DEF SignOut
  <2> QED BY <1>2, <2>4, <2>5
<1> QED BY <1>3, <1>4

(* The request or the answer of a login or a sign-out is lost. *)
LEMMA LoseFormQuiet ==
  ASSUME TypeInv, NEW t \in Tabs, LoseForm(t)
  PROVE  QuietStep(t)
<1>0. /\ UNCHANGED <<sess, jar, tab, refresh, orphans, events, acts, told, refused>>
      /\ lost < MaxLost /\ lost' = lost + 1 /\ form[t].ph \in {"sent", "answered"}
  BY DEF LoseForm
<1>1. PICK a : a = Answer("failed", "keep", NoToken)
  OBVIOUS
<1>2. a \in AnswerRow /\ a.kind = "failed" /\ a.cookie = "keep" /\ a.token = NoToken
  BY <1>1, TokenFacts DEF Answer, AnswerRow
<1>3. PICK g : g = [form[t] EXCEPT !.ph = "answered", !.req = NoRequest, !.ans = a]
  OBVIOUS
<1>4. g \in FormRow /\ FormOK(g) /\ g.ph = "answered" /\ g.ans = a
  BY <1>2, <1>3, TypeFacts, EmptyRows DEF FormRow, FormOK
<1>5. form' = [form EXCEPT ![t] = g]
  BY <1>1, <1>3, TypeFacts DEF LoseForm, TypeInv
<1>6. Counts /\ Revokes(sess')
  <2>1. lost' \in 0..MaxLost /\ lost' >= lost
    BY <1>0, AuthAssumption DEF TypeInv
  <2> QED BY <1>0, <2>1, TypeFacts DEF Counts, TypeInv
<1>7. WaitRow(tab[t], refresh[t], form[t], events[t]) => tab[t].up
  BY <1>0 DEF WaitRow, StartUp
<1> QED BY <1>0, <1>2, <1>4, <1>5, <1>6, <1>7, FormRows

(* A new session is one that no row was created for yet. *)
LEMMA NewSessionFacts ==
  ASSUME Unused # {}
  PROVE  NewSID \in SIDs /\ sess[NewSID].status = "none"
<1> DEFINE Less == {p \in Nat \X Nat : p[1] < p[2]}
<1>1. IsWellFoundedOn(Less, Nat)
  BY NatLessThanWellFounded DEF OpToRel
<1>2. PICK U : U = Unused
  OBVIOUS
<1>3. U \in SUBSET Nat /\ U # {}
  BY <1>2, TokenFacts DEF Unused
<1>4. \E x \in U : \A y \in U : ~(<<y, x>> \in Less)
  <2> HIDE DEF Less
  <2> QED BY <1>1, <1>3, WFMin
<1>5. \E x \in U : \A y \in U : x <= y
  <2>1. \A x, y \in Nat : ~(<<y, x>> \in Less) => x <= y
    OBVIOUS
  <2> HIDE DEF Less
  <2> QED BY <1>3, <1>4, <2>1
<1>6. NewSID \in Unused
  BY <1>2, <1>5 DEF NewSID
<1> QED BY <1>6 DEF Unused

(* A login is answered with a session nobody knew.                         *)
NewLogin(t) ==
    \E f, s : /\ Rows(t, tab[t], refresh[t], f)
              /\ s \in SIDs /\ sess[s].status = "none" /\ sess'[s].status # "none"
              /\ \A u \in SIDs : u # s => sess'[u] = sess[u]
              /\ f.ans.token = Current(s)
              /\ UNCHANGED <<jar, orphans, told, refused>>

(* The server creates the session of a login, or revokes that of a sign-out. *)
LEMMA ServeFormCases ==
  ASSUME TypeInv, NEW t \in Tabs, ServeForm(t)
  PROVE  QuietStep(t) \/ NewLogin(t)
<1>0. /\ UNCHANGED <<jar, tab, refresh, orphans, events, lost, acts, told, refused>> /\ form[t].ph = "sent"
      /\ form[t] \in FormRow /\ FormOK(form[t]) /\ sess \in [SIDs -> SessRow]
  BY TypeFacts DEF ServeForm, TypeInv
<1>1. WaitRow(tab[t], refresh[t], form[t], events[t]) => tab[t].up
  BY <1>0 DEF WaitRow, StartUp
<1>2. CASE form[t].kind = "login"
  <2>1. PICK s : s = NewSID
    OBVIOUS
  <2>2. s \in SIDs /\ sess[s].status = "none"
    BY <1>2, <2>1, NewSessionFacts DEF ServeForm
  <2>3. sess' = [sess EXCEPT ![s].status = "active"]
    BY <1>2, <2>1 DEF ServeForm
  <2>4. sess' \in [SIDs -> SessRow] /\ sess'[s].status # "none" /\ \A u \in SIDs : u # s => sess'[u] = sess[u]
    BY <1>0, <2>2, <2>3 DEF SessRow
  <2>5. PICK k, a : k = Current(s) /\ a = Answer("ok", "set", k)
    OBVIOUS
  <2>6. k \in Tokens /\ k # NoToken /\ a \in AnswerRow /\ a.kind = "ok" /\ a.cookie = "set" /\ a.token = k
    BY <2>2, <2>5, CurrentFacts DEF Answer, AnswerRow
  <2>7. PICK g : g = [form[t] EXCEPT !.ph = "answered", !.req = NoRequest, !.ans = a]
    OBVIOUS
  <2>8. g \in FormRow /\ FormOK(g) /\ g.ph = "answered" /\ g.ans = a
    BY <1>0, <1>2, <2>6, <2>7, EmptyRows DEF FormRow, FormOK
  <2>9. form' = [form EXCEPT ![t] = g]
    BY <1>2, <2>1, <2>5, <2>7 DEF ServeForm, TypeInv
  <2>10. WaitRow(tab[t], refresh[t], form[t], events[t]) => WaitRow(tab[t], refresh[t], g, events[t])
    BY <1>1, <2>8 DEF WaitRow, StartUp, Waits
  <2>11. Counts
    <3>1. lost \in Nat
      BY AuthAssumption DEF TypeInv
    <3> QED BY <1>0, <2>4, <3>1 DEF Counts, TypeInv
  <2>12. Rows(t, tab[t], refresh[t], g)
    BY <1>0, <2>8, <2>9, <2>10, <2>11, TypeFacts DEF Rows
  <2> QED BY <1>0, <2>2, <2>4, <2>5, <2>6, <2>8, <2>12 DEF NewLogin
<1>3. CASE form[t].kind # "login"
  <2>1. PICK a : a = LogoutAnswer(form[t].req)
    OBVIOUS
  <2>2. a \in AnswerRow /\ a.token = NoToken /\ a.cookie # "set"
    BY <2>1, TypeFacts, LogoutFacts
  <2>3. PICK g : g = [form[t] EXCEPT !.ph = "answered", !.req = NoRequest, !.ans = a]
    OBVIOUS
  <2>4. g \in FormRow /\ FormOK(g) /\ g.ph = "answered" /\ g.ans = a
    BY <1>0, <1>3, <2>2, <2>3, EmptyRows DEF FormRow, FormOK
  <2>5. form' = [form EXCEPT ![t] = g] /\ sess' = LogoutSessions(form[t].req)
    BY <1>3, <2>1, <2>3 DEF ServeForm, TypeInv
  <2>6. Revokes(sess')
    BY <2>5, TypeFacts, LogoutFacts
  <2>7. Counts
    <3>1. lost \in Nat
      BY AuthAssumption DEF TypeInv
    <3> QED BY <1>0, <2>6, <3>1 DEF Counts, TypeInv, Revokes
  <2> QED BY <1>0, <1>1, <2>2, <2>4, <2>5, <2>6, <2>7, FormRows
<1> QED BY <1>2, <1>3

(* The answer of a login reaches its tab.                                  *)
LoginDone(t) ==
    \E x, r : /\ Rows(t, x, r, NoForm)
              /\ x.sid = form[t].ans.token.sid /\ form[t].ans.token # NoToken /\ x.up = tab[t].up
              /\ jar' = form[t].ans.token /\ ~r.current /\ r.ph = refresh[t].ph
              /\ r.req.token = refresh[t].req.token /\ r.ans.token = refresh[t].ans.token
              /\ UNCHANGED <<sess, orphans, told, refused>>

(* The answer of a login or a sign-out reaches its tab. *)
LEMMA ReceiveFormCases ==
  ASSUME TypeInv, NEW t \in Tabs, ReceiveForm(t)
  PROVE  QuietStep(t) \/ LoginDone(t)
<1>0. /\ UNCHANGED <<sess, orphans, lost, acts, refused>> /\ form[t].ph = "answered" /\ jar' = Cookie(form[t].ans)
      /\ form[t] \in FormRow /\ FormOK(form[t]) /\ form[t].ans \in AnswerRow /\ form[t].ans.token \in Tokens
      /\ tab[t] \in TabRow /\ tab \in [Tabs -> TabRow] /\ refresh \in [Tabs -> RefreshRow] /\ form \in [Tabs -> FormRow]
  BY TypeFacts DEF ReceiveForm, TypeInv
<1>1. /\ jar' \in Tokens
      /\ form[t].ans.token = NoToken => jar' \in {jar, NoToken}
      /\ form[t].ans.token # NoToken => jar' = form[t].ans.token
  BY <1>0, CookieFacts DEF FormOK, AnswerRow
<1>2. told' \in [Tabs -> SUBSET SIDs] => Counts
  <2>1. lost \in Nat
    BY AuthAssumption DEF TypeInv
  <2> QED BY <1>0, <1>1, <2>1 DEF Counts, TypeInv
<1>3. WaitRow(tab[t], refresh[t], form[t], events[t]) => tab[t].up
  BY <1>0 DEF WaitRow, StartUp
<1>4. CASE form[t].kind = "login" /\ form[t].ans.kind = "ok"
  <2>1. form[t].ans.token # NoToken /\ form[t].ans.token.sid \in SIDs
    BY <1>0, <1>4, TokenFacts DEF FormOK
  <2>2. PICK x : x = SetBundle(tab[t], form[t].ans.token.sid)
    OBVIOUS
  <2>3. x \in TabRow /\ x.sid = form[t].ans.token.sid /\ x.fresh /\ x.boot = "complete" /\ x.up = tab[t].up
    BY <1>0, <2>1, <2>2 DEF SetBundle, TabRow
  <2>4. /\ tab' = [tab EXCEPT ![t] = x] /\ refresh' = Superseded(t) /\ form' = [form EXCEPT ![t] = NoForm] /\ told' = told
        /\ events' = events \/ events' = Publish(t, "authenticated", form[t].ans.token.sid)
    BY <1>0, <1>4, <2>2 DEF ReceiveForm
  <2>5. PICK r \in RefreshRow : /\ refresh' = [refresh EXCEPT ![t] = r] /\ RefreshOK(r) /\ ~r.current
                                /\ r.ph = refresh[t].ph /\ r.callers = refresh[t].callers
                                /\ r.req.token = refresh[t].req.token /\ r.ans.token = refresh[t].ans.token
    BY <2>4, SupersededFacts
  <2>6. Broadcasts(events')
    BY <2>1, <2>4, PublishFacts
  <2>7. WaitRow(tab[t], refresh[t], form[t], events[t]) => WaitRow(x, r, NoForm, events'[t])
    BY <1>3, <2>1, <2>3, <2>5, EmptyRows, TokenFacts DEF WaitRow, StartUp, SupersededOK, Waits
  <2>8. Rows(t, x, r, NoForm)
    BY <1>0, <1>2, <2>3, <2>4, <2>5, <2>6, <2>7, EmptyRows, TypeFacts DEF Rows, TypeInv
  <2> QED BY <1>0, <1>1, <2>1, <2>3, <2>4, <2>5, <2>8 DEF LoginDone
<1>5. CASE form[t].kind = "logout" /\ form[t].ans.kind = "ok"
  <2>1. PICK x : x = Reset(tab[t], "complete")
    OBVIOUS
  <2>2. x \in TabRow /\ x.sid = NoSID /\ ~x.fresh /\ x.boot = "complete" /\ x.up = tab[t].up
    BY <1>0, <2>1 DEF Reset, TabRow
  <2>3. /\ tab' = [tab EXCEPT ![t] = x] /\ refresh' = Superseded(t) /\ form' = [form EXCEPT ![t] = NoForm]
        /\ told' = Told(t) /\ events' = Publish(t, "signed_out", tab[t].sid)
    BY <1>0, <1>5, <2>1 DEF ReceiveForm
  <2>4. PICK r \in RefreshRow : /\ refresh' = [refresh EXCEPT ![t] = r] /\ RefreshOK(r) /\ ~r.current
                                /\ r.ph = refresh[t].ph /\ r.callers = refresh[t].callers
                                /\ r.req.token = refresh[t].req.token /\ r.ans.token = refresh[t].ans.token
    BY <2>3, SupersededFacts
  <2>5. Broadcasts(events') /\ form[t].ans.token = NoToken
    BY <1>0, <1>5, <2>3, PublishFacts, TypeFacts DEF FormOK
  <2>6. WaitRow(tab[t], refresh[t], form[t], events[t]) => WaitRow(x, r, NoForm, events'[t])
    BY <1>3, <2>2, <2>4, EmptyRows DEF WaitRow, StartUp, SupersededOK, Waits
  <2>7. Rows(t, x, r, NoForm)
    BY <1>0, <1>2, <2>2, <2>3, <2>4, <2>5, <2>6, EmptyRows, TypeFacts DEF Rows
  <2>8. Quiet(t, x, r, NoForm)
    BY <1>0, <1>1, <2>2, <2>3, <2>4, <2>5, EmptyRows, TypeFacts DEF Quiet
  <2> QED BY <2>7, <2>8 DEF QuietStep
<1>6. CASE form[t].ans.kind = "mismatch" /\ form[t].again
  <2>1. PICK r, f : r = Joined(refresh[t], "logout") /\ f = [form[t] EXCEPT !.ph = "recover", !.ans = NoAnswer]
    OBVIOUS
  <2>2. /\ r \in RefreshRow /\ RefreshOK(r) /\ r.callers = refresh[t].callers \cup {"logout"}
        /\ r.req = refresh[t].req /\ r.ans.token = refresh[t].ans.token
        /\ refresh[t].ph # "off" => r.ph = refresh[t].ph /\ r.current = refresh[t].current
        /\ refresh[t].ph = "off" => r.ph = "queued" /\ r.current
    BY <2>1, TypeFacts, JoinedFacts
  <2>3. f \in FormRow /\ FormOK(f) /\ f.ans.token = NoToken
    BY <1>0, <2>1, EmptyRows DEF FormRow, FormOK, NoAnswer
  <2>4. refresh' = [refresh EXCEPT ![t] = r] /\ form' = [form EXCEPT ![t] = f] /\ UNCHANGED <<tab, events, told>>
    BY <1>0, <1>6, <2>1 DEF ReceiveForm
  <2>5. WaitRow(tab[t], refresh[t], form[t], events[t]) => WaitRow(tab[t], r, f, events[t])
    BY <1>3, <2>2 DEF WaitRow, StartUp, SupersededOK, Waits
  <2>6. form[t].ans.token = NoToken
    BY <1>0, <1>6 DEF FormOK
  <2>7. Rows(t, tab[t], r, f)
    BY <1>0, <1>2, <2>2, <2>3, <2>4, <2>5, TypeFacts DEF Rows, TypeInv
  <2>8. Quiet(t, tab[t], r, f)
    BY <1>0, <1>1, <2>2, <2>3, <2>4, <2>6, TypeFacts DEF Quiet
  <2> QED BY <2>7, <2>8 DEF QuietStep
<1>7. CASE ~(form[t].kind = "login" /\ form[t].ans.kind = "ok") /\ ~(form[t].kind = "logout" /\ form[t].ans.kind = "ok")
           /\ ~(form[t].ans.kind = "mismatch" /\ form[t].again)
  <2>1. form' = [form EXCEPT ![t] = NoForm] /\ UNCHANGED <<tab, refresh, events, told>>
    BY <1>7 DEF ReceiveForm
  <2>2. form[t].ans.token = NoToken
    BY <1>0, <1>7 DEF FormOK
  <2>3. WaitRow(tab[t], refresh[t], form[t], events[t]) => WaitRow(tab[t], refresh[t], NoForm, events[t])
    BY <1>3, EmptyRows DEF WaitRow, StartUp, SupersededOK, Waits
  <2>4. Rows(t, tab[t], refresh[t], NoForm)
    BY <1>0, <1>2, <2>1, <2>3, EmptyRows, TypeFacts DEF Rows, TypeInv
  <2>5. Quiet(t, tab[t], refresh[t], NoForm)
    BY <1>0, <1>1, <2>1, <2>2, EmptyRows, TypeFacts DEF Quiet
  <2> QED BY <2>4, <2>5 DEF QuietStep
<1> QED BY <1>4, <1>5, <1>6, <1>7

(* A tab hears of another tab's login or sign-out. *)
LEMMA HearCases ==
  ASSUME TypeInv, NEW t \in Tabs, HearEvent(t)
  PROVE  QuietStep(t) \/ ReloadStep(t)
<1>0. /\ UNCHANGED <<sess, jar, lost, acts, refused>> /\ events[t] # <<>>
      /\ tab[t] \in TabRow /\ tab \in [Tabs -> TabRow] /\ events \in [Tabs -> Seq(Event)]
  BY TypeFacts DEF HearEvent, TypeInv
<1>1. WaitRow(tab[t], refresh[t], form[t], events[t]) => tab[t].up
  BY <1>0 DEF WaitRow, StartUp
<1>2. CASE Head(events[t]).kind = "authenticated" /\ Head(events[t]).sid # tab[t].sid
  <2>1. Load(t, refresh) /\ events' = [events EXCEPT ![t] = <<>>] /\ UNCHANGED told
    BY <1>2 DEF HearEvent
  <2>2. Broadcasts(events') /\ events'[t] = <<>>
    BY <1>0, <2>1 DEF Broadcasts
  <2> QED BY <1>0, <2>1, <2>2, LoadFacts DEF ReloadStep
<1>3. CASE ~(Head(events[t]).kind = "authenticated" /\ Head(events[t]).sid # tab[t].sid)
  <2>1. events' = [events EXCEPT ![t] = Tail(@)] /\ UNCHANGED <<form, orphans>>
    BY <1>3 DEF HearEvent
  <2>2. Broadcasts(events')
    <3>1. Tail(events[t]) \in Seq(Event)
      BY <1>0
    <3> QED BY <1>0, <2>1, <3>1 DEF Broadcasts
  <2>3. told' \in [Tabs -> SUBSET SIDs] => Counts
    <3>1. lost \in Nat
      BY AuthAssumption DEF TypeInv
    <3> QED BY <1>0, <3>1 DEF Counts, TypeInv
  <2>4. CASE Head(events[t]).kind = "signed_out" /\ Head(events[t]).sid = tab[t].sid
    <3>1. PICK x : x = Reset(tab[t], "complete")
      OBVIOUS
    <3>2. x \in TabRow /\ x.sid = NoSID /\ ~x.fresh /\ x.boot = "complete" /\ x.up = tab[t].up
      BY <1>0, <3>1 DEF Reset, TabRow
    <3>3. tab' = [tab EXCEPT ![t] = x] /\ refresh' = Superseded(t) /\ told' = Told(t)
      BY <1>0, <1>3, <2>4, <3>1 DEF HearEvent
    <3>4. PICK r \in RefreshRow : /\ refresh' = [refresh EXCEPT ![t] = r] /\ RefreshOK(r) /\ ~r.current
                                  /\ r.ph = refresh[t].ph /\ r.callers = refresh[t].callers
                                  /\ r.req.token = refresh[t].req.token /\ r.ans.token = refresh[t].ans.token
      BY <3>3, SupersededFacts
    <3>5. WaitRow(tab[t], refresh[t], form[t], events[t]) => WaitRow(x, r, form[t], events'[t])
      BY <1>1, <3>2, <3>4 DEF WaitRow, StartUp, SupersededOK, Waits
    <3>6. Rows(t, x, r, form[t])
      BY <1>0, <2>1, <2>2, <2>3, <3>2, <3>3, <3>4, <3>5, TypeFacts DEF Rows
    <3>7. Quiet(t, x, r, form[t])
      BY <1>0, <2>1, <3>2, <3>3, <3>4, TypeFacts DEF Quiet
    <3> QED BY <3>6, <3>7 DEF QuietStep
  <2>5. CASE ~(Head(events[t]).kind = "signed_out" /\ Head(events[t]).sid = tab[t].sid)
    <3>1. UNCHANGED <<tab, refresh, told>>
      BY <1>3, <2>5 DEF HearEvent
    <3>2. WaitRow(tab[t], refresh[t], form[t], events[t]) => WaitRow(tab[t], refresh[t], form[t], events'[t])
      BY <1>1 DEF WaitRow, StartUp
    <3>3. Rows(t, tab[t], refresh[t], form[t])
      BY <1>0, <2>1, <2>2, <2>3, <3>1, <3>2, TypeFacts DEF Rows, TypeInv
    <3>4. Quiet(t, tab[t], refresh[t], form[t])
      BY <1>0, <2>1, <3>1, TypeFacts DEF Quiet
    <3> QED BY <3>3, <3>4 DEF QuietStep
  <2> QED BY <2>4, <2>5
<1> QED BY <1>2, <1>3

(* Tab t presents the cookie: it has taken the lock, or kept it.           *)
PresentStep(t) ==
    \E x, r : /\ Rows(t, x, r, form[t])
              /\ x.sid \in {tab[t].sid, NoSID} /\ x.up = tab[t].up
              /\ refresh[t].current /\ refresh[t].ans.token = NoToken
              /\ (refresh[t].ph = "queued" /\ (HasLocks => LockFree)) \/ Answered(t)
              /\ r.ph = "sent" /\ r.req.token = jar /\ r.ans.token = NoToken
              /\ UNCHANGED <<sess, jar, orphans, lost, told, refused>>

(* A refresh presents the cookie once it has the lock. *)
LEMMA SendFacts ==
  ASSUME TypeInv, NEW t \in Tabs, SendRefresh(t)
  PROVE  PresentStep(t)
<1>0. /\ UNCHANGED <<sess, jar, tab, form, orphans, events, lost, acts, told, refused>>
      /\ refresh[t].ph = "queued" /\ (HasLocks => LockFree) /\ refresh[t].current
      /\ jar \in Tokens /\ refresh \in [Tabs -> RefreshRow] /\ refresh[t] \in RefreshRow /\ RefreshOK(refresh[t])
  BY TypeFacts DEF SendRefresh, TypeInv
<1>1. PICK q : q = [NoRequest EXCEPT !.token = jar, !.expect = tab[t].sid]
  OBVIOUS
<1>2. q \in RequestRow /\ q.token = jar /\ q.expect = tab[t].sid
  BY <1>0, <1>1, EmptyRows, TypeFacts, ZenonT(60) DEF RequestRow, NoRequest
<1>3. PICK r : r = [refresh[t] EXCEPT !.ph = "sent", !.req = q]
  OBVIOUS
<1>4. /\ r \in RefreshRow /\ RefreshOK(r) /\ r.ph = "sent" /\ r.current = refresh[t].current /\ r.callers = refresh[t].callers
      /\ r.req = q /\ r.ans.token = NoToken /\ refresh[t].ans.token = NoToken
  BY <1>0, <1>2, <1>3 DEF RefreshRow, RefreshOK
<1>5. refresh' = [refresh EXCEPT ![t] = r]
  BY <1>0, <1>1, <1>3 DEF SendRefresh
<1>6. WaitRow(tab[t], refresh[t], form[t], events[t]) => WaitRow(tab[t], r, form[t], events[t])
  BY <1>0, <1>2, <1>4 DEF WaitRow, StartUp, SupersededOK, Waits
<1>7. Rows(t, tab[t], r, form[t])
  BY <1>0, <1>4, <1>5, <1>6, TypeFacts DEF Rows
<1> QED BY <1>0, <1>2, <1>4, <1>7 DEF PresentStep

(* The request or the answer of tab t is lost.                             *)
LostStep(t) ==
    \E r : /\ Rows(t, tab[t], r, form[t]) /\ lost' > 0
           /\ refresh[t].ph \in {"sent", "answered"} /\ r.ph = "answered" /\ r.current = refresh[t].current
           /\ r.req.token = NoToken /\ r.ans.token = NoToken
           /\ UNCHANGED <<sess, jar, orphans, told, refused>>

(* A refresh that failed has neither a request nor a token. *)
LEMMA LoseRows ==
  ASSUME NEW r \in RefreshRow, RefreshOK(r), r.ph \in {"sent", "answered"},
         NEW y, y = [r EXCEPT !.ph = "answered", !.req = NoRequest, !.ans = Answer("failed", "keep", NoToken)]
  PROVE  /\ y \in RefreshRow /\ RefreshOK(y) /\ y.ph = "answered" /\ y.current = r.current /\ y.callers = r.callers
         /\ y.req = NoRequest /\ y.ans.token = NoToken
<1>1. PICK a : a = Answer("failed", "keep", NoToken)
  OBVIOUS
<1>2. a \in AnswerRow /\ a.kind = "failed" /\ a.cookie = "keep" /\ a.token = NoToken
  BY <1>1, TokenFacts DEF Answer, AnswerRow
<1>3. y = [r EXCEPT !.ph = "answered", !.req = NoRequest, !.ans = a]
  BY <1>1
<1> QED BY <1>2, <1>3, EmptyRows DEF RefreshRow, RefreshOK

(* Losing a refresh leaves everything else alone. *)
LEMMA LoseFacts ==
  ASSUME TypeInv, NEW t \in Tabs, LoseRefresh(t)
  PROVE  LostStep(t)
<1>0. /\ UNCHANGED <<sess, jar, tab, form, orphans, events, acts, told, refused>>
      /\ refresh[t].ph \in {"sent", "answered"} /\ lost < MaxLost /\ lost' = lost + 1
      /\ refresh \in [Tabs -> RefreshRow] /\ refresh[t] \in RefreshRow /\ RefreshOK(refresh[t])
  BY TypeFacts DEF LoseRefresh, TypeInv
<1>1. PICK y : y = [refresh[t] EXCEPT !.ph = "answered", !.req = NoRequest, !.ans = Answer("failed", "keep", NoToken)]
  OBVIOUS
<1>2. /\ y \in RefreshRow /\ RefreshOK(y) /\ y.ph = "answered" /\ y.current = refresh[t].current
      /\ y.callers = refresh[t].callers /\ y.req = NoRequest /\ y.ans.token = NoToken
  BY <1>0, <1>1, LoseRows
<1>3. refresh' = [refresh EXCEPT ![t] = y]
  BY <1>0, <1>1 DEF LoseRefresh
<1>4. lost' \in 0..MaxLost /\ lost' > 0 /\ lost' >= lost
  BY <1>0, AuthAssumption DEF TypeInv
<1>5. Counts
  BY <1>0, <1>4 DEF Counts, TypeInv
<1>6. WaitRow(tab[t], refresh[t], form[t], events[t]) => WaitRow(tab[t], y, form[t], events[t])
  BY <1>0, <1>2, EmptyRows DEF WaitRow, StartUp, SupersededOK, Waits
<1>7. Rows(t, tab[t], y, form[t])
  BY <1>0, <1>2, <1>3, <1>5, <1>6, TypeFacts DEF Rows
<1> QED BY <1>0, <1>2, <1>4, <1>7, EmptyRows DEF LostStep

(* A refresh has ended, and its answer has set the cookie.                 *)
EndStep(t) ==
    /\ \E x, f : /\ Rows(t, x, Idle, f) /\ f.ans.token \in {form[t].ans.token, NoToken}
                 /\ \/ x.sid \in {tab[t].sid, NoSID}
                    \/ x.sid = refresh[t].ans.token.sid /\ refresh[t].current
                 /\ tab[t].up \/ refresh[t].current
                 /\ x.up
    /\ UNCHANGED <<sess, orphans, lost, told, refused>>

(* The cookie after the answer of tab t.                                   *)
Arrives(t) ==
    \/ refresh[t].ph = "queued" /\ ~refresh[t].current /\ jar' = jar
    \/ /\ Answered(t)
       /\ IF refresh[t].ans.token # NoToken THEN jar' = refresh[t].ans.token ELSE jar' \in {jar, NoToken}

(* A refresh that ends leaves nobody waiting. *)
LEMMA EndFacts ==
  ASSUME TypeInv, WaitInv, NEW t \in Tabs, NEW w \in TabRow, Ends(t, w), Outcome(t, w), Broadcasts(events'), Counts,
         UNCHANGED <<sess, lost, told, refused>>
  PROVE  EndStep(t)
<1>1. PICK x \in TabRow : /\ tab' = [tab EXCEPT ![t] = x]
                          /\ x.up /\ x.sid = w.sid /\ x.fresh = w.fresh /\ x.boot = w.boot
  BY DEF Ends
<1>2. PICK f \in FormRow : /\ form' = [form EXCEPT ![t] = f] /\ FormOK(f)
                           /\ f.ph # "recover" /\ f.ans.token \in {form[t].ans.token, NoToken}
  BY DEF Ends
<1>3. refresh' = [refresh EXCEPT ![t] = Idle] /\ UNCHANGED orphans /\ WaitRow(tab[t], refresh[t], form[t], events[t])
  BY DEF Ends, WaitInv
<1>4. WaitRow(x, Idle, f, events'[t])
  <2>1. StartUp(x, Idle, f, events'[t]) /\ SupersededOK(x, Idle)
    BY <1>1, EmptyRows DEF StartUp, SupersededOK
  <2>2. x.fresh => x.sid # NoSID
    BY <1>1, <1>3 DEF Outcome, WaitRow, Waits
  <2>3. x.boot # "checking"
    <3>1. CASE refresh[t].current
      BY <1>1, <3>1 DEF Outcome
    <3>2. CASE ~refresh[t].current
      <4>1. refresh[t].ph # "off" \/ "boot" \notin refresh[t].callers
        BY TypeFacts DEF RefreshOK
      <4> QED BY <1>1, <1>3, <3>2, <4>1 DEF Outcome, WaitRow, SupersededOK, Waits
    <3> QED BY <3>1, <3>2
  <2> QED BY <1>2, <2>1, <2>2, <2>3 DEF WaitRow, Waits
<1>5. Rows(t, x, Idle, f)
  BY <1>1, <1>2, <1>3, <1>4, EmptyRows, TypeFacts DEF Rows
<1>6. tab[t].up \/ refresh[t].current
  BY <1>3 DEF WaitRow, StartUp
<1>7. x.sid \in {tab[t].sid, NoSID} \/ (x.sid = refresh[t].ans.token.sid /\ refresh[t].current)
  BY <1>1 DEF Outcome
<1> QED BY <1>1, <1>2, <1>3, <1>5, <1>6, <1>7 DEF EndStep

(* A refresh that was answered or skipped ends, restarts the page or runs again. *)
LEMMA ReceiveFacts ==
  ASSUME TypeInv, WaitInv, NEW t \in Tabs, ReceiveRefresh(t) \/ SkipRefresh(t)
  PROVE  \/ PresentStep(t)
         \/ Arrives(t) /\ EndStep(t)
         \/ /\ Arrives(t) /\ Reload(t) /\ Broadcasts(events') /\ Counts
            /\ UNCHANGED <<sess, lost, told, refused>>
<1>1. CASE ReceiveRefresh(t)
  <2>1. /\ Answered(t) /\ jar' = Cookie(refresh[t].ans) /\ jar' \in Tokens
        /\ UNCHANGED <<sess, lost, acts, told, refused>> /\ Broadcasts(events')
    BY <1>1, ReceiveCases
  <2>2. Counts
    <3>1. lost \in Nat
      BY AuthAssumption DEF TypeInv
    <3> QED BY <2>1, <3>1 DEF Counts, TypeInv
  <2>3. Arrives(t)
    BY <2>1, CookieFacts, TypeFacts DEF Arrives, RefreshOK, AnswerRow
  <2>4. CASE Rerun(t)
    <3>1. PICK x \in TabRow : /\ tab' = [tab EXCEPT ![t] = x]
                              /\ x.sid = NoSID /\ ~x.fresh /\ x.boot = "idle" /\ x.up = tab[t].up /\ x.retry = tab[t].retry
      BY <2>4 DEF Rerun
    <3>2. PICK r \in RefreshRow : /\ refresh' = [refresh EXCEPT ![t] = r] /\ RefreshOK(r)
                                  /\ r.ph = "sent" /\ r.current /\ r.callers = refresh[t].callers
                                  /\ r.req.token = jar /\ r.req.expect = NoSID /\ r.ans.token = NoToken
      BY <2>4 DEF Rerun
    <3>3. jar' = jar /\ refresh[t].current /\ UNCHANGED <<events, form, orphans>>
      BY <2>4 DEF Rerun
    <3>4. WaitRow(tab[t], refresh[t], form[t], events[t]) => WaitRow(x, r, form[t], events[t])
      BY <3>1, <3>2 DEF WaitRow, StartUp, SupersededOK, Waits
    <3>5. Rows(t, x, r, form[t])
      BY <2>1, <2>2, <3>1, <3>2, <3>3, <3>4, TypeFacts DEF Rows
    <3>6. refresh[t].ans.token = NoToken
      BY <2>4 DEF Rerun
    <3> QED BY <2>1, <3>1, <3>2, <3>3, <3>5, <3>6 DEF PresentStep
  <2> QED BY <1>1, <2>1, <2>2, <2>3, <2>4, ReceiveCases, EndFacts
<1>2. CASE SkipRefresh(t)
  <2>1. /\ refresh[t].ph = "queued" /\ ~refresh[t].current /\ jar' = jar
        /\ UNCHANGED <<sess, lost, acts, told, refused>> /\ Broadcasts(events')
    BY <1>2, SkipCases
  <2>2. Counts
    BY <2>1, TypeFacts
  <2>3. Arrives(t)
    BY <2>1 DEF Arrives
  <2> QED BY <1>2, <2>1, <2>2, <2>3, SkipCases, EndFacts
<1> QED BY <1>1, <1>2

-----------------------------------------------------------------------------
(* Steps of the server *)

(* The refresh of tab t is answered without a rotation.                    *)
AnswerStep(t) ==
    LET k == refresh[t].req.token
    IN  \E r : /\ Rows(t, tab[t], r, form[t])
               /\ Sent(t) /\ r.ph = "answered" /\ r.current = refresh[t].current
               /\ r.req.token = NoToken
               /\ \/ r.ans.token = NoToken
                  \/ k \in Tokens /\ k # NoToken /\ k.age # 0 /\ Active(k.sid) /\ r.ans.token = Current(k.sid)
               /\ ~tab[t].up /\ WaitRow(tab[t], refresh[t], form[t], events[t]) /\ k # NoToken /\ Active(k.sid) /\ Presentable(k)
                     => r.ans.token # NoToken
               /\ Revokes(sess')
               /\ refused' => refused \/ (k # NoToken /\ Active(k.sid) /\ ~Presentable(k))
               /\ UNCHANGED <<jar, orphans, lost, told>>

(* A tab whose tokens are one step older.                                  *)
Aged(u, s) ==
    /\ refresh'[u].ph = refresh[u].ph
    /\ refresh'[u].req.token = Older(refresh[u].req.token, s)
    /\ refresh'[u].ans.token = Older(refresh[u].ans.token, s)

(* The tab whose request rotated the secret.                               *)
Rotated(u, s) ==
    /\ Sent(u) /\ refresh[u].req.token = Current(s)
    /\ refresh'[u].ph = "answered" /\ refresh'[u].req.token = NoToken /\ refresh'[u].ans.token = Current(s)

(* The secret of session s is rotated, for a tab or a page that is gone.   *)
Rotation(s) ==
    /\ s \in SIDs /\ Active(s) /\ Counts
    /\ \A u \in SIDs : sess'[u].status = sess[u].status /\ (u # s => sess'[u] = sess[u])
    /\ sess'[s].grace
    /\ jar' = Older(jar, s)
    /\ form' \in [Tabs -> FormRow] /\ refresh' \in [Tabs -> RefreshRow] /\ orphans' \subseteq OrphanRow
    /\ \A u \in Tabs :
         /\ FormOK(form'[u]) /\ form'[u].ph = form[u].ph /\ form'[u].ans.token = Older(form[u].ans.token, s)
         /\ RefreshOK(refresh'[u]) /\ refresh'[u].current = refresh[u].current
         /\ refresh'[u].callers = refresh[u].callers
         /\ refresh[u].req.expect = NoSID => refresh'[u].req.expect = NoSID
         /\ Aged(u, s) \/ Rotated(u, s)
         /\ (refresh[u].ph = "off") = (refresh'[u].ph = "off")
    /\ \A k \in OrphanTokens' : \E o \in OrphanTokens : k = Older(o, s)
    /\ (\E u \in Tabs : Rotated(u, s)) \/ Current(s) \in OrphanTokens
    /\ UNCHANGED <<tab, events, lost, told, refused>>

(* A session is revoked, or a request of a page that is gone has no effect. *)
RevokeStep ==
    /\ Revokes(sess') /\ Counts /\ orphans' \subseteq orphans
    /\ UNCHANGED <<jar, tab, refresh, form, events, lost, told, refused>>

(* The replay window of a session closes while nothing is under way.       *)
GraceStep(s) ==
    /\ Counts /\ \A u \in SIDs : sess'[u].status = sess[u].status /\ (u # s => sess'[u] = sess[u])
    /\ \A t \in Tabs : refresh[t].ph = "off"
    /\ UNCHANGED <<jar, tab, refresh, form, orphans, events, lost, told, refused>>

(* The requests of pages that are gone grow older with the others. *)
LEMMA OrphansAged ==
  ASSUME TypeInv, NEW s \in SIDs, orphans' \subseteq OlderOrphans(s)
  PROVE  orphans' \subseteq OrphanRow /\ \A z \in OrphanTokens' : \E o \in OrphanTokens : z = Older(o, s)
<1>1. ASSUME NEW o \in orphans PROVE [o EXCEPT !.req.token = Older(@, s)] \in OrphanRow
                                     /\ [o EXCEPT !.req.token = Older(@, s)].kind = o.kind
                                     /\ [o EXCEPT !.req.token = Older(@, s)].req.token = Older(o.req.token, s)
  <2>1. o \in OrphanRow /\ o.req \in RequestRow /\ o.req.token \in Tokens
    BY <1>1 DEF OrphanRow, RequestRow, TypeInv
  <2>2. PICK z : z = Older(o.req.token, s)
    OBVIOUS
  <2>3. z \in Tokens
    BY <2>1, <2>2, OlderFacts
  <2> QED BY <2>1, <2>2, <2>3 DEF OrphanRow, RequestRow
<1>2. orphans' \subseteq OrphanRow
  BY <1>1 DEF OlderOrphans
<1>3. ASSUME NEW z \in OrphanTokens' PROVE \E o \in OrphanTokens : z = Older(o, s)
  <2>1. PICK x \in orphans' : x.kind = "refresh" /\ z = x.req.token
    BY <1>3 DEF OrphanTokens
  <2>2. PICK o \in orphans : x = [o EXCEPT !.req.token = Older(@, s)]
    BY <2>1 DEF OlderOrphans
  <2>3. o.kind = "refresh" /\ z = Older(o.req.token, s)
    BY <1>1, <2>1, <2>2
  <2> QED BY <2>3 DEF OrphanTokens
<1> QED BY <1>2, <1>3

(* The server answers the refresh of a tab, with or without a rotation. *)
LEMMA ServeCases ==
  ASSUME TypeInv, NEW t \in Tabs, ServeRefresh(t)
  PROVE  AnswerStep(t) \/ \E s \in SIDs : Rotation(s)
<1>0. /\ UNCHANGED <<tab, events, lost, acts, told>> /\ refresh[t].ph = "sent"
      /\ refresh \in [Tabs -> RefreshRow] /\ form \in [Tabs -> FormRow] /\ refresh[t] \in RefreshRow /\ RefreshOK(refresh[t])
      /\ jar \in Tokens /\ orphans \subseteq OrphanRow /\ sess \in [SIDs -> SessRow]
  BY TypeFacts DEF ServeRefresh, TypeInv
<1>1. PICK k, e : k = refresh[t].req.token /\ e = refresh[t].req.expect
  OBVIOUS
<1>2. k \in Tokens /\ e \in SIDs \cup {NoSID}
  BY <1>1, TypeFacts DEF RequestRow
<1>3. PICK a : a = RefreshAnswer(k, e)
  OBVIOUS
<1>4. PICK y : y = [refresh[t] EXCEPT !.ph = "answered", !.ans = a, !.req = NoRequest]
  OBVIOUS
<1>5. /\ a \in AnswerRow /\ a.kind \in {"ok", "mismatch", "unauthorized"}
      /\ a.kind = "ok" => a.cookie = "set" /\ a.token = Current(k.sid) /\ k.sid \in SIDs /\ Active(k.sid) /\ Presentable(k)
      /\ a.kind # "ok" => a.cookie # "set" /\ a.token = NoToken
      /\ a.kind = "mismatch" => a.cookie = "keep"
      /\ a = Refuse /\ Active(k.sid) => ~Presentable(k)
      /\ Active(k.sid) /\ Presentable(k) /\ e = NoSID /\ k # NoToken => a.kind = "ok"
  BY <1>2, <1>3, RefreshFacts
<1>6. (a.kind = "ok" <=> a.cookie = "set") /\ (a.kind = "ok" <=> a.token # NoToken)
  BY <1>5, CurrentFacts
<1>7. /\ y \in RefreshRow /\ RefreshOK(y) /\ y.ph = "answered" /\ y.current = refresh[t].current
      /\ y.callers = refresh[t].callers /\ y.req = NoRequest /\ y.ans = a
  <2>1. a \in AnswerRow /\ (a.kind = "mismatch" => a.cookie = "keep")
    BY <1>5
  <2> QED BY <1>0, <1>4, <1>6, <2>1, EmptyRows DEF RefreshRow, RefreshOK
<1>8. refused' = (refused \/ (a = Refuse /\ Active(k.sid))) /\ sess' = RefreshedSessions(k, e)
  BY <1>1, <1>3 DEF ServeRefresh
<1>9. refused' \in BOOLEAN /\ (refused' => refused \/ (k # NoToken /\ Active(k.sid) /\ ~Presentable(k)))
  <2>1. k # NoToken \/ ~Active(k.sid)
    BY TokenFacts DEF Active
  <2> QED BY <1>5, <1>8, <2>1
<1>10. sess' \in [SIDs -> SessRow] /\ jar' \in Tokens => Counts
  <2>1. lost \in Nat
    BY AuthAssumption DEF TypeInv
  <2> QED BY <1>0, <1>9, <2>1 DEF Counts, TypeInv
<1>11. CASE ~Rotates(k, e)
  <2>1. /\ refresh' = [u \in Tabs |-> IF u = t THEN y ELSE refresh[u]]
        /\ UNCHANGED <<form, jar, orphans>>
    BY <1>1, <1>3, <1>4, <1>11 DEF ServeRefresh
  <2>2. refresh' = [refresh EXCEPT ![t] = y]
    BY <1>0, <2>1
  <2>3. Revokes(sess')
    BY <1>2, <1>8, <1>11, RotationFacts
  <2>4. Counts
    BY <1>0, <1>10, <2>1, <2>3 DEF Revokes
  <2>5. WaitRow(tab[t], refresh[t], form[t], events[t]) => WaitRow(tab[t], y, form[t], events[t])
    BY <1>0, <1>7, EmptyRows DEF WaitRow, StartUp, SupersededOK, Waits
  <2>6. Rows(t, tab[t], y, form[t])
    BY <1>0, <1>7, <2>1, <2>2, <2>4, <2>5, TypeFacts DEF Rows
  <2>7. y.req.token = NoToken /\ y.ans.token = a.token
    BY <1>7, EmptyRows
  <2>8. a.token # NoToken => k # NoToken /\ k.age # 0 /\ Active(k.sid) /\ a.token = Current(k.sid)
    BY <1>2, <1>3, <1>5, <1>11, TokenFacts DEF Rotates
  <2>9. ~tab[t].up /\ WaitRow(tab[t], refresh[t], form[t], events[t]) /\ k # NoToken /\ Active(k.sid) /\ Presentable(k)
           => a.token # NoToken
    BY <1>1, <1>5, <1>6 DEF WaitRow, StartUp
  <2>10. AnswerStep(t)
    <3>1. /\ Sent(t) /\ y.ph = "answered" /\ y.current = refresh[t].current /\ y.req.token = NoToken
          /\ UNCHANGED <<jar, orphans, lost, told>> /\ Revokes(sess')
      BY <1>0, <1>7, <2>1, <2>3, <2>7 DEF Sent
    <3>2. y.ans.token = NoToken \/ (k \in Tokens /\ k # NoToken /\ k.age # 0 /\ Active(k.sid) /\ y.ans.token = Current(k.sid))
      BY <1>2, <2>7, <2>8
    <3> QED BY <1>1, <1>9, <2>6, <2>7, <2>9, <3>1, <3>2 DEF AnswerStep
  <2> QED BY <2>10
<1>12. CASE Rotates(k, e)
  <2>1. PICK s : s = k.sid
    OBVIOUS
  <2>2. /\ k.age = 0 /\ s \in SIDs /\ Active(s) /\ sess' = [sess EXCEPT ![s].grace = TRUE]
        /\ sess' \in [SIDs -> SessRow] /\ \A u \in SIDs : sess'[u].status = sess[u].status
    BY <1>2, <1>8, <1>12, <2>1, RotationFacts
  <2>3. sess'[s].grace /\ \A u \in SIDs : u # s => sess'[u] = sess[u]
    BY <1>0, <2>2 DEF SessRow
  <2>4. /\ refresh' = [u \in Tabs |-> IF u = t THEN y ELSE OlderCarrier(refresh[u], s)]
        /\ form' = [u \in Tabs |-> OlderCarrier(form[u], s)]
        /\ jar' = Older(jar, s) /\ orphans' = OlderOrphans(s)
    BY <1>1, <1>3, <1>4, <1>12, <2>1 DEF ServeRefresh
  <2>5. jar' \in Tokens /\ Counts
    BY <1>0, <1>10, <2>2, <2>4, OlderFacts
  <2>6. a.kind = "ok" /\ a.token = Current(s) /\ k = Current(s) /\ a # Refuse
    <3>1. a.kind = "ok"
      BY <1>3, <1>12 DEF Rotates
    <3>2. k = Current(s)
      BY <1>2, <2>1, <2>2, TokenFacts DEF Current
    <3>3. Refuse.kind = "unauthorized"
      BY DEF Refuse, Answer
    <3> QED BY <1>5, <2>1, <3>1, <3>2, <3>3
  <2>7. ASSUME NEW u \in Tabs
        PROVE  /\ form'[u] \in FormRow /\ FormOK(form'[u]) /\ form'[u].ph = form[u].ph
               /\ form'[u].ans.token = Older(form[u].ans.token, s)
    BY <2>2, <2>4, OlderForm, TypeFacts
  <2>8. ASSUME NEW u \in Tabs, u # t
        PROVE  /\ refresh'[u] \in RefreshRow /\ RefreshOK(refresh'[u]) /\ refresh'[u].current = refresh[u].current
               /\ refresh'[u].callers = refresh[u].callers /\ refresh'[u].req.expect = refresh[u].req.expect /\ Aged(u, s)
    <3>1. refresh'[u] = OlderCarrier(refresh[u], s)
      BY <2>4, <2>8
    <3> QED BY <2>2, <3>1, OlderRefresh, TypeFacts DEF Aged
  <2>9. /\ refresh'[t] \in RefreshRow /\ RefreshOK(refresh'[t]) /\ refresh'[t].current = refresh[t].current
        /\ refresh'[t].callers = refresh[t].callers /\ refresh'[t].req.expect = NoSID /\ Rotated(t, s)
    <3>1. refresh'[t] = y
      BY <2>4
    <3> QED BY <1>0, <1>1, <1>7, <2>6, <3>1, EmptyRows DEF Rotated, Sent
  <2>10. form' \in [Tabs -> FormRow] /\ refresh' \in [Tabs -> RefreshRow]
    BY <2>4, <2>7, <2>8, <2>9
  <2>13. orphans' \subseteq OrphanRow /\ \A z \in OrphanTokens' : \E o \in OrphanTokens : z = Older(o, s)
    BY <2>2, <2>4, OrphansAged
  <2>14. ASSUME NEW u \in Tabs PROVE (refresh[u].ph = "off") = (refresh'[u].ph = "off")
    BY <2>8, <2>9, <2>14 DEF Aged, Rotated, Sent
  <2>15. UNCHANGED refused
    BY <1>8, <2>6 DEF TypeInv
  <2> QED BY <1>0, <2>2, <2>3, <2>4, <2>5, <2>7, <2>8, <2>9, <2>10, <2>13, <2>14, <2>15 DEF Rotation
<1> QED BY <1>11, <1>12

(* The server acts on a request of a page that is gone. *)
LEMMA OrphanCases ==
  ASSUME TypeInv, NEW o \in orphans, ServeOrphan(o)
  PROVE  RevokeStep \/ \E s \in SIDs : Rotation(s)
<1>0. /\ UNCHANGED <<tab, events, lost, acts, told, refused>> /\ o \in OrphanRow /\ o.req \in RequestRow
      /\ jar \in Tokens /\ sess \in [SIDs -> SessRow] /\ orphans \subseteq OrphanRow
  BY DEF ServeOrphan, TypeInv, OrphanRow
<1>1. PICK k, e : k = o.req.token /\ e = o.req.expect
  OBVIOUS
<1>2. k \in Tokens /\ e \in SIDs \cup {NoSID}
  BY <1>0, <1>1 DEF RequestRow
<1>3. sess' \in [SIDs -> SessRow] /\ jar' \in Tokens => Counts
  <2>1. lost \in Nat
    BY AuthAssumption DEF TypeInv
  <2> QED BY <1>0, <2>1 DEF Counts, TypeInv
<1>4. CASE ~(o.kind = "refresh" /\ Rotates(k, e))
  <2>1. /\ sess' = IF o.kind = "refresh" THEN RefreshedSessions(k, e) ELSE LogoutSessions(o.req)
        /\ UNCHANGED <<refresh, form, jar>> /\ orphans' = orphans \ {o}
    BY <1>1, <1>4 DEF ServeOrphan
  <2>2. Revokes(sess')
    BY <1>0, <1>2, <1>4, <2>1, RotationFacts, LogoutFacts
  <2> QED BY <1>0, <1>3, <2>1, <2>2 DEF RevokeStep, Revokes
<1>5. CASE o.kind = "refresh" /\ Rotates(k, e)
  <2>1. PICK s : s = k.sid
    OBVIOUS
  <2>2. sess' = RefreshedSessions(k, e)
    BY <1>1, <1>5 DEF ServeOrphan
  <2>3. /\ k.age = 0 /\ s \in SIDs /\ Active(s) /\ sess' = [sess EXCEPT ![s].grace = TRUE]
        /\ sess' \in [SIDs -> SessRow] /\ \A u \in SIDs : sess'[u].status = sess[u].status
    BY <1>2, <1>5, <2>1, <2>2, RotationFacts
  <2>4. sess'[s].grace /\ \A u \in SIDs : u # s => sess'[u] = sess[u]
    BY <1>0, <2>3 DEF SessRow
  <2>5. /\ refresh' = [u \in Tabs |-> OlderCarrier(refresh[u], s)]
        /\ form' = [u \in Tabs |-> OlderCarrier(form[u], s)]
        /\ jar' = Older(jar, s) /\ orphans' \subseteq OlderOrphans(s)
    BY <1>1, <1>5, <2>1 DEF ServeOrphan
  <2>6. jar' \in Tokens /\ Counts
    BY <1>0, <1>3, <2>3, <2>5, OlderFacts
  <2>7. ASSUME NEW u \in Tabs
        PROVE  /\ form'[u] \in FormRow /\ FormOK(form'[u]) /\ form'[u].ph = form[u].ph
               /\ form'[u].ans.token = Older(form[u].ans.token, s)
    BY <2>3, <2>5, OlderForm, TypeFacts
  <2>8. ASSUME NEW u \in Tabs
        PROVE  /\ refresh'[u] \in RefreshRow /\ RefreshOK(refresh'[u]) /\ refresh'[u].current = refresh[u].current
               /\ refresh'[u].callers = refresh[u].callers /\ refresh'[u].req.expect = refresh[u].req.expect /\ Aged(u, s)
               /\ (refresh[u].ph = "off") = (refresh'[u].ph = "off")
    <3>1. refresh'[u] = OlderCarrier(refresh[u], s)
      BY <2>5, <2>8
    <3> QED BY <2>3, <3>1, OlderRefresh, TypeFacts DEF Aged
  <2>9. form' \in [Tabs -> FormRow] /\ refresh' \in [Tabs -> RefreshRow]
    BY <2>5, <2>7, <2>8
  <2>10. orphans' \subseteq OrphanRow /\ \A z \in OrphanTokens' : \E x \in OrphanTokens : z = Older(x, s)
    BY <2>3, <2>5, OrphansAged
  <2>11. Current(s) \in OrphanTokens
    <3>1. k = Current(s)
      BY <1>2, <2>1, <2>3, TokenFacts DEF Current
    <3> QED BY <1>1, <1>5, <3>1 DEF OrphanTokens
  <2> QED BY <1>0, <2>3, <2>4, <2>5, <2>6, <2>7, <2>8, <2>9, <2>10, <2>11 DEF Rotation
<1> QED BY <1>4, <1>5

(* A session is revoked elsewhere, or a replay window closes. *)
LEMMA WorldCases ==
  ASSUME TypeInv, NEW s \in SIDs, GraceEnds(s) \/ RevokeElsewhere(s)
  PROVE  RevokeStep \/ GraceStep(s)
<1>0. /\ UNCHANGED <<jar, tab, refresh, form, orphans, events, lost, told, refused>> /\ sess \in [SIDs -> SessRow]
  BY DEF GraceEnds, RevokeElsewhere, TypeInv
<1>1. acts' \in Nat /\ sess' \in [SIDs -> SessRow] => Counts
  <2>1. lost \in Nat
    BY AuthAssumption DEF TypeInv
  <2> QED BY <1>0, <2>1 DEF Counts, TypeInv
<1>2. CASE GraceEnds(s)
  <2>1. sess' = [sess EXCEPT ![s].grace = FALSE] /\ acts' = acts /\ \A t \in Tabs : refresh[t].ph = "off"
    BY <1>2 DEF GraceEnds
  <2>2. sess' \in [SIDs -> SessRow] /\ \A u \in SIDs : sess'[u].status = sess[u].status /\ (u # s => sess'[u] = sess[u])
    BY <1>0, <2>1 DEF SessRow
  <2> QED BY <1>0, <1>1, <2>1, <2>2 DEF GraceStep, TypeInv
<1>3. CASE RevokeElsewhere(s)
  <2>1. Revokes(sess') /\ acts' \in Nat
    BY <1>3, RevokedFacts DEF RevokeElsewhere, TypeInv
  <2> QED BY <1>0, <1>1, <2>1 DEF RevokeStep, Revokes
<1> QED BY <1>2, <1>3

-----------------------------------------------------------------------------
(* Tab t starts anew, perhaps after its refresh was answered. *)
RestartStep(t) ==
    /\ Reload(t) /\ Rows(t, Loading, Queued("boot"), NoForm)
    /\ jar' = jar \/ Arrives(t)
    /\ UNCHANGED <<sess, lost, told, refused>>

TabStep(t) ==
    \/ QuietStep(t) \/ NewLogin(t) \/ LoginDone(t) \/ PresentStep(t) \/ LostStep(t) \/ AnswerStep(t)
    \/ (Arrives(t) /\ EndStep(t)) \/ RestartStep(t)

(* Every step is one of these. *)
LEMMA StepKinds ==
  ASSUME TypeInv, WaitInv, [Next]_vars
  PROVE  \/ UNCHANGED vars
         \/ \E t \in Tabs : TabStep(t)
         \/ RevokeStep \/ \E s \in SIDs : Rotation(s) \/ GraceStep(s)
<1>1. CASE UNCHANGED vars
  BY <1>1
<1>2. ASSUME NEW t \in Tabs, Refreshing(t) \/ LoseRefresh(t)
      PROVE  TabStep(t) \/ \E s \in SIDs : Rotation(s)
  <2>1. CASE SendRefresh(t)
    BY <2>1, SendFacts DEF TabStep
  <2>2. CASE ServeRefresh(t)
    BY <2>2, ServeCases DEF TabStep
  <2>3. CASE ReceiveRefresh(t) \/ SkipRefresh(t)
    BY <2>3, ReceiveFacts, ReloadRows DEF TabStep, RestartStep
  <2>4. CASE LoseRefresh(t)
    BY <2>4, LoseFacts DEF TabStep
  <2> QED BY <1>2, <2>1, <2>2, <2>3, <2>4 DEF Refreshing
<1>3. ASSUME NEW t \in Tabs, ReloadStep(t) PROVE TabStep(t)
  <2>1. Counts
    BY <1>3, TypeFacts DEF ReloadStep
  <2> QED BY <1>3, <2>1, ReloadRows DEF ReloadStep, TabStep, RestartStep
<1>4. ASSUME NEW t \in Tabs,
             \/ ApiCall(t) \/ RetryCall(t) \/ Bootstrap(t)
             \/ Login(t) \/ SignOut(t) \/ ServeForm(t) \/ LoseForm(t) \/ ReceiveForm(t)
             \/ HearEvent(t) \/ TokenExpires(t)
      PROVE  TabStep(t)
  BY <1>3, <1>4, ApiQuiet, RetryQuiet, BootstrapQuiet, BeginFormQuiet, ServeFormCases, LoseFormQuiet, ReceiveFormCases,
     HearCases, ExpiryQuiet DEF TabStep
<1>5. CASE Next
  <2>1. CASE \E o \in orphans : ServeOrphan(o)
    BY <2>1, OrphanCases
  <2>2. CASE \E s \in SIDs : GraceEnds(s) \/ RevokeElsewhere(s)
    BY <2>2, WorldCases
  <2>3. CASE \E t \in Tabs : Refreshing(t) \/ LoseRefresh(t)
    BY <1>2, <2>3
  <2> QED BY <1>4, <1>5, <2>1, <2>2, <2>3 DEF Next
<1> QED BY <1>1, <1>5

-----------------------------------------------------------------------------
(* Types and waiting *)

(* A step of one tab keeps the types and the waiting of all tabs. *)
LEMMA RowsKeep ==
  ASSUME TypeInv, WaitInv, NEW t \in Tabs, NEW x, NEW r, NEW f, Rows(t, x, r, f)
  PROVE  TypeInv' /\ WaitInv'
<1>0. /\ x \in TabRow /\ r \in RefreshRow /\ f \in FormRow /\ RefreshOK(r) /\ FormOK(f)
      /\ tab' = [tab EXCEPT ![t] = x] /\ refresh' = [refresh EXCEPT ![t] = r] /\ form' = [form EXCEPT ![t] = f]
      /\ orphans' \subseteq OrphanRow /\ Broadcasts(events') /\ Counts /\ WaitRow(x, r, f, events'[t])
  BY DEF Rows, WaitInv
<1>1. tab \in [Tabs -> TabRow] /\ refresh \in [Tabs -> RefreshRow] /\ form \in [Tabs -> FormRow]
  BY DEF TypeInv
<1>2. tab' \in [Tabs -> TabRow] /\ refresh' \in [Tabs -> RefreshRow] /\ form' \in [Tabs -> FormRow]
  BY <1>0, <1>1
<1>3. ASSUME NEW u \in Tabs PROVE RefreshOK(refresh'[u]) /\ FormOK(form'[u])
  BY <1>0, <1>1, <1>3 DEF TypeInv
<1>4. TypeInv'
  BY <1>0, <1>2, <1>3 DEF TypeInv, Counts, Broadcasts
<1>5. ASSUME NEW u \in Tabs PROVE WaitRow(tab'[u], refresh'[u], form'[u], events'[u])
  <2>1. CASE u = t
    BY <1>0, <1>1, <2>1
  <2>2. CASE u # t
    <3>1. tab'[u] = tab[u] /\ refresh'[u] = refresh[u] /\ form'[u] = form[u]
      BY <1>0, <1>1, <2>2
    <3>2. WaitRow(tab[u], refresh[u], form[u], events[u]) /\ (~tab[u].up /\ events[u] = <<>> => events'[u] = <<>>)
      BY <1>0 DEF WaitInv, Broadcasts
    <3>3. StartUp(tab[u], refresh[u], form[u], events'[u])
      BY <3>2 DEF WaitRow, StartUp
    <3> QED BY <3>1, <3>2, <3>3 DEF WaitRow
  <2> QED BY <2>1, <2>2
<1> QED BY <1>4, <1>5 DEF WaitInv

(* So does every step. *)
LEMMA TypeStep ==
  ASSUME TypeInv, WaitInv, [Next]_vars
  PROVE  TypeInv' /\ WaitInv'
<1>1. CASE UNCHANGED vars
  BY <1>1 DEF vars, TypeInv, WaitInv
<1>2. ASSUME NEW t \in Tabs, TabStep(t) PROVE TypeInv' /\ WaitInv'
  <2>1. \E x, r, f : Rows(t, x, r, f)
    BY <1>2 DEF TabStep, QuietStep, NewLogin, LoginDone, PresentStep, LostStep, AnswerStep, EndStep, RestartStep
  <2> QED BY <2>1, RowsKeep
<1>3. CASE RevokeStep
  BY <1>3 DEF RevokeStep, Counts, TypeInv, WaitInv
<1>4. ASSUME NEW s \in SIDs, GraceStep(s) PROVE TypeInv' /\ WaitInv'
  BY <1>4 DEF GraceStep, Counts, TypeInv, WaitInv
<1>5. ASSUME NEW s \in SIDs, Rotation(s) PROVE TypeInv' /\ WaitInv'
  <2>1. TypeInv'
    BY <1>5 DEF Rotation, Counts, TypeInv
  <2>2. ASSUME NEW u \in Tabs PROVE WaitRow(tab'[u], refresh'[u], form'[u], events'[u])
    <3>1. /\ tab'[u] = tab[u] /\ events'[u] = events[u] /\ form'[u].ph = form[u].ph
          /\ refresh'[u].current = refresh[u].current /\ refresh'[u].callers = refresh[u].callers
          /\ (refresh[u].req.expect = NoSID => refresh'[u].req.expect = NoSID)
          /\ (refresh[u].ph = "off") = (refresh'[u].ph = "off")
      BY <1>5 DEF Rotation
    <3>2. WaitRow(tab[u], refresh[u], form[u], events[u])
      BY DEF WaitInv
    <3> QED BY <3>1, <3>2 DEF WaitRow, StartUp, SupersededOK, Waits
  <2> QED BY <2>1, <2>2 DEF WaitInv
<1> QED BY StepKinds, <1>1, <1>2, <1>3, <1>4, <1>5

(* Tabs that were just opened wait for their first refresh. *)
LEMMA TypeFirst == Init => TypeInv /\ WaitInv
<1> SUFFICES ASSUME Init PROVE TypeInv /\ WaitInv
  OBVIOUS
<1>1. /\ tab = [t \in Tabs |-> Loading] /\ refresh = [t \in Tabs |-> Queued("boot")] /\ form = [t \in Tabs |-> NoForm]
      /\ orphans = {} /\ events = [t \in Tabs |-> <<>>] /\ lost = 0 /\ acts = 0 /\ told = [t \in Tabs |-> {}] /\ refused = FALSE
  BY DEF Init
<1>2. sess \in [SIDs -> SessRow] /\ jar \in Tokens
  <2>1. PICK returning \in BOOLEAN :
          /\ sess = [s \in SIDs |-> [status |-> IF returning /\ s = 1 THEN "active" ELSE "none", grace |-> FALSE]]
          /\ jar = IF returning THEN Current(1) ELSE NoToken
    BY DEF Init
  <2>2. 1 \in SIDs
    BY AuthAssumption DEF SIDs
  <2>3. jar \in Tokens
    BY <2>1, <2>2, CurrentFacts, TokenFacts
  <2>4. sess \in [SIDs -> SessRow]
    BY <2>1 DEF SessRow
  <2> QED BY <2>3, <2>4
<1>3. TypeInv
  <2>1. <<>> \in Seq(Event)
    OBVIOUS
  <2>2. 0 \in 0..MaxLost
    BY AuthAssumption
  <2> QED BY <1>1, <1>2, <2>1, <2>2, EmptyRows, QueuedFacts DEF TypeInv
<1>4. WaitRow(Loading, Queued("boot"), NoForm, <<>>)
  BY QueuedFacts, EmptyRows DEF WaitRow, StartUp, SupersededOK, Waits
<1> QED BY <1>1, <1>3, <1>4 DEF WaitInv

(* Types and waiting hold throughout. *)
LEMMA TypeInvariant == Spec => [](TypeInv /\ WaitInv)
<1>1. TypeInv /\ WaitInv /\ [Next]_vars => (TypeInv /\ WaitInv)'
  BY TypeStep
<1> QED BY TypeFirst, <1>1, PTL DEF Spec

(* Sessions, cookie and tabs keep their types through every interleaving   *)
(* of refreshes, reloads, logins, sign-outs and losses, and a tab holds an *)
(* access token only together with a session (setAuthBundle, reset).       *)
THEOREM AuthTyping == Spec => []AuthTypeOK
<1>1. TypeInv /\ WaitInv => AuthTypeOK
  <2> SUFFICES ASSUME TypeInv, WaitInv PROVE AuthTypeOK
    OBVIOUS
  <2>1. \A s \in SIDs : sess[s].status \in {"none", "active", "revoked"} /\ sess[s].grace \in BOOLEAN
    BY DEF TypeInv, SessRow
  <2>2. ASSUME NEW t \in Tabs
        PROVE  /\ tab[t] \in TabRow /\ (tab[t].fresh => tab[t].sid # NoSID)
               /\ refresh[t].ph \in {"off", "queued", "sent", "answered"}
               /\ refresh[t].req.token \in Tokens /\ refresh[t].ans.token \in Tokens
    BY TypeFacts DEF WaitInv, WaitRow, Waits, RefreshRow
  <2> QED BY <2>1, <2>2 DEF AuthTypeOK, TypeInv, TabRow
<1> QED BY <1>1, TypeInvariant, PTL

(* In any number of tabs, whoever waits for a refresh has one under way:   *)
(* a page that starts up and a sign-out that recovers (Settle answers all  *)
(* callers of refreshPromise, also when the refresh was superseded).       *)
THEOREM NobodyWaitsInVain == Spec => []WaitsForRefresh
<1>1. WaitInv => WaitsForRefresh
  BY DEF WaitInv, WaitRow, StartUp, Waits, WaitsForRefresh
<1> QED BY <1>1, TypeInvariant, PTL

-----------------------------------------------------------------------------
(* Sessions that were given up *)

(* A session that exists keeps existing, and a revoked one stays revoked.  *)
StatusKeeps ==
    \A s \in SIDs : /\ sess[s].status # "none" => sess'[s].status # "none"
                    /\ sess[s].status = "revoked" => sess'[s].status = "revoked"

(* Every step keeps the sessions that exist: revocation is final. *)
LEMMA StatusStep ==
  ASSUME TypeInv, WaitInv, [Next]_vars
  PROVE  StatusKeeps
<1>1. CASE UNCHANGED vars
  BY <1>1 DEF vars, StatusKeeps
<1>2. ASSUME Revokes(sess') \/ sess' = sess PROVE StatusKeeps
  BY <1>2 DEF Revokes, StatusKeeps
<1>3. ASSUME NEW t \in Tabs, TabStep(t) PROVE StatusKeeps
  <2>1. CASE NewLogin(t)
    BY <2>1 DEF NewLogin, StatusKeeps
  <2>2. CASE QuietStep(t) \/ AnswerStep(t)
    <3>1. Revokes(sess')
      BY <2>2 DEF QuietStep, Quiet, AnswerStep
    <3> QED BY <1>2, <3>1
  <2>3. CASE LoginDone(t) \/ PresentStep(t) \/ LostStep(t) \/ EndStep(t) \/ RestartStep(t)
    <3>1. sess' = sess
      BY <2>3 DEF LoginDone, PresentStep, LostStep, EndStep, RestartStep
    <3> QED BY <1>2, <3>1
  <2> QED BY <1>3, <2>1, <2>2, <2>3 DEF TabStep
<1>4. CASE RevokeStep
  BY <1>2, <1>4 DEF RevokeStep
<1>5. ASSUME NEW s \in SIDs, Rotation(s) \/ GraceStep(s) PROVE StatusKeeps
  BY <1>5 DEF Rotation, GraceStep, StatusKeeps
<1> QED BY StepKinds, <1>1, <1>3, <1>4, <1>5

(* Who may have a session after a step of tab t. *)
LEMMA RowsKnown ==
  ASSUME TypeInv, NEW t \in Tabs, NEW x, NEW r, NEW f, Rows(t, x, r, f), NEW s \in SIDs, Known(s)'
  PROVE  \/ Known(s) \/ jar'.sid = s \/ x.sid = s \/ r.req.token.sid = s \/ r.ans.token.sid = s
         \/ (\E k \in OrphanTokens' : k.sid = s) \/ (\E u \in Tabs : s \in told'[u])
<1>1. /\ tab \in [Tabs -> TabRow] /\ refresh \in [Tabs -> RefreshRow]
      /\ tab' = [tab EXCEPT ![t] = x] /\ refresh' = [refresh EXCEPT ![t] = r]
  BY DEF TypeInv, Rows
<1>2. ASSUME NEW u \in Tabs, tab'[u].sid = s \/ refresh'[u].req.token.sid = s \/ refresh'[u].ans.token.sid = s
      PROVE  Known(s) \/ x.sid = s \/ r.req.token.sid = s \/ r.ans.token.sid = s
  <2>1. CASE u = t
    BY <1>1, <1>2, <2>1
  <2>2. CASE u # t
    BY <1>1, <1>2, <2>2 DEF Known
  <2> QED BY <2>1, <2>2
<1> QED BY <1>2 DEF Known

(* A page that is gone leaves a token its own request carried. *)
LEMMA ReloadTokens ==
  ASSUME TypeInv, NEW t \in Tabs, Reload(t), NEW k \in OrphanTokens'
  PROVE  k \in OrphanTokens \/ (Sent(t) /\ k = refresh[t].req.token)
<1>1. PICK o \in orphans' : o.kind = "refresh" /\ k = o.req.token
  BY DEF OrphanTokens
<1>2. o \in orphans \/ (Sent(t) /\ o.req = refresh[t].req)
  BY <1>1 DEF Reload
<1> QED BY <1>1, <1>2 DEF OrphanTokens

(* Apart from the end of a login, nobody comes to know a session. *)
LEMMA KnownStep ==
  ASSUME TypeInv, WaitInv, [Next]_vars, NEW s \in SIDs, Known(s)'
  PROVE  Known(s) \/ \E t \in Tabs : LoginDone(t) /\ s = form[t].ans.token.sid
<1>0. /\ NoToken.sid # s /\ Idle.req.token.sid # s /\ Idle.ans.token.sid # s /\ Loading.sid # s
      /\ Queued("boot").req.token.sid # s /\ Queued("boot").ans.token.sid # s /\ NoSID # s
  BY TokenFacts, EmptyRows, QueuedFacts
<1>1. CASE UNCHANGED vars
  BY <1>1 DEF vars, Known, OrphanTokens
<1>2. ASSUME orphans' \subseteq orphans, NEW k \in OrphanTokens', k.sid = s PROVE Known(s)
  BY <1>2 DEF OrphanTokens, Known
<1>3. ASSUME told' = told, NEW u \in Tabs, s \in told'[u] PROVE Known(s)
  BY <1>3 DEF Known
<1>4. ASSUME NEW t \in Tabs, \/ tab[t].sid = s \/ jar.sid = s \/ refresh[t].req.token.sid = s
                             \/ refresh[t].ans.token.sid = s
      PROVE  Known(s)
  BY <1>4 DEF Known
<1>5. ASSUME NEW t \in Tabs, TabStep(t)
      PROVE  Known(s) \/ (LoginDone(t) /\ s = form[t].ans.token.sid)
  <2>1. CASE QuietStep(t)
    <3>1. PICK x, r, f : Rows(t, x, r, f) /\ Quiet(t, x, r, f)
      BY <2>1 DEF QuietStep
    <3>2. /\ jar' \in {jar, NoToken} /\ x.sid \in {tab[t].sid, NoSID} /\ orphans' = orphans
          /\ r.req.token = refresh[t].req.token /\ r.ans.token = refresh[t].ans.token
          /\ told' = told \/ told' = Told(t)
      BY <3>1 DEF Quiet
    <3>3. \A u \in Tabs : s \in told'[u] => s \in told[u] \/ s = tab[t].sid
      BY <3>2 DEF Told, TypeInv
    <3>4. \A u \in Tabs : s \in told[u] => Known(s)
      BY DEF Known
    <3> QED BY <1>0, <1>2, <1>4, <3>1, <3>2, <3>3, <3>4, RowsKnown
  <2>2. CASE NewLogin(t)
    <3>1. PICK f : Rows(t, tab[t], refresh[t], f)
      BY <2>2 DEF NewLogin
    <3>2. jar' = jar /\ told' = told /\ orphans' = orphans
      BY <2>2 DEF NewLogin
    <3> QED BY <1>2, <1>3, <1>4, <3>1, <3>2, RowsKnown
  <2>3. CASE LoginDone(t)
    <3>1. PICK x, r : /\ Rows(t, x, r, NoForm) /\ x.sid = form[t].ans.token.sid /\ jar' = form[t].ans.token
                      /\ r.req.token = refresh[t].req.token /\ r.ans.token = refresh[t].ans.token
                      /\ told' = told /\ orphans' = orphans
      BY <2>3 DEF LoginDone
    <3> QED BY <1>2, <1>3, <1>4, <2>3, <3>1, RowsKnown
  <2>4. CASE PresentStep(t)
    <3>1. PICK x, r : /\ Rows(t, x, r, form[t]) /\ x.sid \in {tab[t].sid, NoSID} /\ r.req.token = jar
                      /\ r.ans.token = NoToken /\ jar' = jar /\ orphans' = orphans /\ told' = told
      BY <2>4 DEF PresentStep
    <3> QED BY <1>0, <1>2, <1>3, <1>4, <3>1, RowsKnown
  <2>5. CASE LostStep(t)
    <3>1. PICK r : /\ Rows(t, tab[t], r, form[t]) /\ r.req.token = NoToken
                   /\ r.ans.token = NoToken /\ jar' = jar /\ orphans' = orphans /\ told' = told
      BY <2>5 DEF LostStep
    <3> QED BY <1>0, <1>2, <1>3, <1>4, <3>1, RowsKnown
  <2>6. CASE AnswerStep(t)
    <3>1. PICK r : /\ Rows(t, tab[t], r, form[t]) /\ r.req.token = NoToken
                   /\ \/ r.ans.token = NoToken
                      \/ refresh[t].req.token # NoToken /\ r.ans.token = Current(refresh[t].req.token.sid)
      BY <2>6 DEF AnswerStep
    <3>2. jar' = jar /\ orphans' = orphans /\ told' = told
      BY <2>6 DEF AnswerStep
    <3>3. r.ans.token.sid \in {NoToken.sid, refresh[t].req.token.sid}
      BY <3>1, CurrentFacts, TokenFacts, TypeFacts
    <3> QED BY <1>0, <1>2, <1>3, <1>4, <3>1, <3>2, <3>3, RowsKnown
  <2>7. ASSUME Arrives(t) PROVE jar'.sid = s => Known(s)
    BY <1>0, <1>4, <2>7 DEF Arrives
  <2>8. CASE Arrives(t) /\ EndStep(t)
    <3>1. PICK x, f : /\ Rows(t, x, Idle, f)
                      /\ x.sid \in {tab[t].sid, NoSID} \/ x.sid = refresh[t].ans.token.sid
      BY <2>8 DEF EndStep
    <3>2. orphans' = orphans /\ told' = told
      BY <2>8 DEF EndStep
    <3> QED BY <1>0, <1>2, <1>3, <1>4, <2>7, <2>8, <3>1, <3>2, RowsKnown
  <2>9. CASE RestartStep(t)
    <3>1. /\ Rows(t, Loading, Queued("boot"), NoForm) /\ told' = told /\ Reload(t)
          /\ jar' = jar \/ Arrives(t)
      BY <2>9 DEF RestartStep
    <3>2. ASSUME NEW k \in OrphanTokens', k.sid = s PROVE Known(s)
      <4>1. k \in OrphanTokens \/ k = refresh[t].req.token
        BY <3>1, <3>2, ReloadTokens
      <4> QED BY <1>4, <3>2, <4>1 DEF Known
    <3> QED BY <1>0, <1>3, <1>4, <2>7, <3>1, <3>2, RowsKnown
  <2> QED BY <1>5, <2>1, <2>2, <2>3, <2>4, <2>5, <2>6, <2>8, <2>9 DEF TabStep
<1>6. CASE RevokeStep
  <2>1. UNCHANGED <<jar, tab, refresh, told>> /\ orphans' \subseteq orphans
    BY <1>6 DEF RevokeStep
  <2> QED BY <1>2, <2>1 DEF Known
<1>7. ASSUME NEW z \in SIDs, GraceStep(z) PROVE Known(s)
  <2>1. UNCHANGED <<jar, tab, refresh, told, orphans>>
    BY <1>7 DEF GraceStep
  <2> QED BY <2>1 DEF Known, OrphanTokens
<1>8. ASSUME NEW z \in SIDs, Rotation(z) PROVE Known(s)
  <2>1. ASSUME NEW u \in Tabs PROVE /\ refresh'[u].req.token.sid \in {refresh[u].req.token.sid, NoSID}
                                    /\ refresh'[u].ans.token.sid \in {refresh[u].ans.token.sid, refresh[u].req.token.sid}
    <3>1. Aged(u, z) \/ Rotated(u, z)
      BY <1>8 DEF Rotation
    <3>2. CASE Aged(u, z)
      BY <3>2, OlderFacts, TypeFacts DEF Aged
    <3>3. CASE Rotated(u, z)
      BY <3>3, CurrentFacts, TokenFacts DEF Rotated
    <3> QED BY <3>1, <3>2, <3>3
  <2>2. jar'.sid = jar.sid
    BY <1>8, OlderFacts DEF Rotation, TypeInv
  <2>3. ASSUME NEW k \in OrphanTokens' PROVE \E o \in OrphanTokens : o.sid = k.sid
    <3>1. PICK o \in OrphanTokens : k = Older(o, z)
      BY <1>8 DEF Rotation
    <3>2. o \in Tokens
      BY DEF OrphanTokens, TypeInv, OrphanRow, RequestRow
    <3> QED BY <3>1, <3>2, OlderFacts
  <2>4. tab' = tab /\ told' = told
    BY <1>8 DEF Rotation
  <2> QED BY <1>0, <2>1, <2>2, <2>3, <2>4 DEF Known
<1> QED BY StepKinds, <1>1, <1>5, <1>6, <1>7, <1>8

(* A step leaves the answers of the logins alone, delivers one or drops it, *)
(* or answers one login with a session nobody has.                          *)
LEMMA AnswerStays ==
  ASSUME TypeInv, WaitInv, [Next]_vars, NEW u \in Tabs
  PROVE  \/ form'[u].ans.token.sid \in {form[u].ans.token.sid, NoSID}
         \/ \E s \in SIDs : /\ sess[s].status = "none" /\ sess'[s].status # "none"
                            /\ form'[u].ans.token.sid = s
                            /\ \A z \in Tabs \ {u} : form'[z] = form[z]
<1>0. NoToken.sid = NoSID /\ NoForm.ans.token.sid = NoSID /\ form \in [Tabs -> FormRow]
  BY TokenFacts, EmptyRows DEF TypeInv
<1>1. ASSUME NEW t \in Tabs, NEW x, NEW r, NEW f, Rows(t, x, r, f), f.ans.token.sid \in {form[t].ans.token.sid, NoSID}
      PROVE  form'[u].ans.token.sid \in {form[u].ans.token.sid, NoSID}
  <2>1. form' = [form EXCEPT ![t] = f]
    BY <1>1 DEF Rows
  <2> QED BY <1>0, <1>1, <2>1
<1>2. ASSUME NEW t \in Tabs, TabStep(t)
      PROVE  \/ form'[u].ans.token.sid \in {form[u].ans.token.sid, NoSID}
             \/ \E s \in SIDs : /\ sess[s].status = "none" /\ sess'[s].status # "none"
                                /\ form'[u].ans.token.sid = s
                                /\ \A z \in Tabs \ {u} : form'[z] = form[z]
  <2>1. CASE NewLogin(t)
    <3>1. PICK f, s : /\ Rows(t, tab[t], refresh[t], f) /\ s \in SIDs /\ sess[s].status = "none"
                      /\ sess'[s].status # "none" /\ f.ans.token = Current(s)
      BY <2>1 DEF NewLogin
    <3>2. form' = [form EXCEPT ![t] = f] /\ f.ans.token.sid = s
      BY <3>1, CurrentFacts DEF Rows
    <3> QED BY <1>0, <3>1, <3>2
  <2>2. CASE QuietStep(t)
    <3>1. PICK x, r, f : Rows(t, x, r, f) /\ f.ans.token \in {form[t].ans.token, NoToken}
      BY <2>2 DEF QuietStep, Quiet
    <3> QED BY <1>0, <1>1, <3>1
  <2>3. CASE LoginDone(t) \/ RestartStep(t)
    <3>1. PICK x, r : Rows(t, x, r, NoForm)
      BY <2>3 DEF LoginDone, RestartStep
    <3> QED BY <1>0, <1>1, <3>1
  <2>4. CASE PresentStep(t) \/ LostStep(t) \/ AnswerStep(t)
    <3>1. PICK x, r : Rows(t, x, r, form[t])
      BY <2>4 DEF PresentStep, LostStep, AnswerStep
    <3> QED BY <1>1, <3>1
  <2>5. CASE EndStep(t)
    <3>1. PICK x, f : Rows(t, x, Idle, f) /\ f.ans.token \in {form[t].ans.token, NoToken}
      BY <2>5 DEF EndStep
    <3> QED BY <1>0, <1>1, <3>1
  <2> QED BY <1>2, <2>1, <2>2, <2>3, <2>4, <2>5 DEF TabStep
<1>3. CASE UNCHANGED vars \/ RevokeStep \/ \E s \in SIDs : GraceStep(s)
  BY <1>3 DEF vars, RevokeStep, GraceStep
<1>4. ASSUME NEW s \in SIDs, Rotation(s) PROVE form'[u].ans.token.sid \in {form[u].ans.token.sid, NoSID}
  BY <1>4, OlderFacts, TypeFacts DEF Rotation
<1> QED BY StepKinds, <1>2, <1>3, <1>4

(* The session of a login's answer stays unknown until the answer arrives, *)
(* and known sessions stay in existence.                                   *)
LEMMA KnownKept ==
  ASSUME TypeInv, WaitInv, KnownInv, [Next]_vars
  PROVE  KnownInv'
<1>0. StatusKeeps
  BY StatusStep
<1>1. \A t \in Tabs : form[t].ans.token.sid \in SIDs \cup {NoSID}
  BY TypeFacts, TokenFacts
<1>2. /\ \A s \in SIDs : Known(s) => sess[s].status # "none"
      /\ \A t \in Tabs : form[t].ans.token.sid # NoSID =>
           /\ sess[form[t].ans.token.sid].status # "none" /\ ~Known(form[t].ans.token.sid)
           /\ \A u \in Tabs : form[u].ans.token.sid = form[t].ans.token.sid => u = t
  BY DEF KnownInv
<1>3. ASSUME NEW s \in SIDs, Known(s)' PROVE sess'[s].status # "none"
  BY <1>0, <1>1, <1>2, <1>3, KnownStep, TokenFacts DEF StatusKeeps
<1>4. ASSUME NEW t \in Tabs, LoginDone(t) PROVE form'[t].ans.token.sid = NoSID
  <2>1. form' = [form EXCEPT ![t] = NoForm]
    BY <1>4 DEF LoginDone, Rows
  <2> QED BY <2>1, EmptyRows, TokenFacts DEF TypeInv
<1>5. ASSUME NEW t \in Tabs, form'[t].ans.token.sid # NoSID
      PROVE  /\ sess'[form'[t].ans.token.sid].status # "none" /\ ~Known(form[t].ans.token.sid)'
             /\ \A u \in Tabs : form'[u].ans.token.sid = form'[t].ans.token.sid => u = t
  <2>1. PICK s : s = form'[t].ans.token.sid
    OBVIOUS
  <2>2. CASE s = form[t].ans.token.sid
    <3>1. s \in SIDs /\ sess'[s].status # "none" /\ sess[s].status # "none"
      BY <1>0, <1>1, <1>2, <1>5, <2>1, <2>2 DEF StatusKeeps
    <3>2. ~Known(s)'
      <4>1. SUFFICES ASSUME Known(s)' PROVE FALSE
        OBVIOUS
      <4>2. PICK u \in Tabs : LoginDone(u) /\ s = form[u].ans.token.sid
        BY <1>2, <1>5, <2>1, <2>2, <3>1, <4>1, KnownStep
      <4>3. u = t
        BY <1>2, <1>5, <2>1, <2>2, <4>2
      <4> QED BY <1>4, <1>5, <4>2, <4>3
    <3>3. ASSUME NEW u \in Tabs, form'[u].ans.token.sid = s PROVE u = t
      <4>1. form[u].ans.token.sid = s
        <5>1. s # NoSID /\ form'[t].ans.token.sid = s /\ sess[s].status # "none"
          BY <1>5, <2>1, <3>1
        <5>2. \/ form'[u].ans.token.sid \in {form[u].ans.token.sid, NoSID}
              \/ \E z \in SIDs : sess[z].status = "none" /\ form'[u].ans.token.sid = z
          BY AnswerStays, ZenonT(60)
        <5> QED BY <3>3, <5>1, <5>2, ZenonT(60)
      <4> QED BY <1>2, <1>5, <2>1, <2>2, <4>1
    <3>4. ~Known(form[t].ans.token.sid)'
      BY <2>1, <3>2 DEF Known
    <3> QED BY <2>1, <3>1, <3>2, <3>3, <3>4
  <2>3. CASE s # form[t].ans.token.sid
    <3>1. /\ s \in SIDs /\ sess[s].status = "none" /\ sess'[s].status # "none"
          /\ \A z \in Tabs \ {t} : form'[z] = form[z]
      BY <1>5, <2>1, <2>3, AnswerStays
    <3>2. ~Known(s) /\ \A u \in Tabs : form[u].ans.token.sid # s
      BY <1>2, <3>1, TokenFacts
    <3>3. ~Known(s)'
      BY <3>1, <3>2, KnownStep
    <3>4. ~Known(form[t].ans.token.sid)'
      BY <2>1, <3>3 DEF Known
    <3> QED BY <2>1, <3>1, <3>2, <3>3, <3>4
  <2> QED BY <2>2, <2>3
<1> QED BY <1>3, <1>5 DEF KnownInv

(* A session a tab has given up stays away from the tab. *)
LEMMA ToldKept ==
  ASSUME TypeInv, WaitInv, KnownInv, ToldInv, [Next]_vars
  PROVE  ToldInv'
<1>0. /\ tab \in [Tabs -> TabRow] /\ refresh \in [Tabs -> RefreshRow] /\ told \in [Tabs -> SUBSET SIDs]
      /\ \A t \in Tabs : NoSID \notin told[t]
  BY TokenFacts DEF TypeInv
<1>1. StatusKeeps
  BY StatusStep
<1>2. ASSUME NEW u \in Tabs, NEW s \in told[u]
      PROVE  s \in SIDs /\ sess[s].status = "revoked" /\ sess'[s].status = "revoked" /\ ~Active(s) /\ Known(s)
  BY <1>0, <1>1, <1>2 DEF StatusKeeps, ToldInv, Active, Known
<1>3. ASSUME told' = told, NEW u \in Tabs, tab'[u].sid \notin told[u],
             refresh'[u].current => refresh'[u].ans.token.sid \notin told[u]
      PROVE  /\ \A s \in told'[u] : sess'[s].status = "revoked"
             /\ refresh'[u].current => refresh'[u].ans.token.sid \notin told'[u]
             /\ tab'[u].sid \notin told'[u]
  BY <1>2, <1>3
<1>4. CASE tab' = tab /\ refresh' = refresh /\ told' = told
  BY <1>3, <1>4 DEF ToldInv
<1>5. ASSUME NEW t \in Tabs, NEW x, NEW r, NEW f, Rows(t, x, r, f), told' = told,
             x.sid \notin told[t], r.current => r.ans.token.sid \notin told[t]
      PROVE  ToldInv'
  <2>1. tab' = [tab EXCEPT ![t] = x] /\ refresh' = [refresh EXCEPT ![t] = r]
    BY <1>5 DEF Rows
  <2>2. ASSUME NEW u \in Tabs PROVE /\ tab'[u].sid \notin told[u]
                                    /\ refresh'[u].current => refresh'[u].ans.token.sid \notin told[u]
    BY <1>0, <1>5, <2>1, <2>2 DEF ToldInv
  <2> QED BY <1>3, <1>5, <2>2 DEF ToldInv
<1>6. NoToken.sid = NoSID /\ Idle.ans.token.sid = NoSID /\ Loading.sid = NoSID /\ Queued("boot").ans.token.sid = NoSID
  BY TokenFacts, EmptyRows, QueuedFacts
<1>7. ASSUME NEW t \in Tabs, TabStep(t) PROVE ToldInv'
  <2>0. tab[t].sid \notin told[t] /\ NoSID \notin told[t]
        /\ (refresh[t].current => refresh[t].ans.token.sid \notin told[t])
    BY <1>0 DEF ToldInv
  <2>1. CASE QuietStep(t)
    <3>1. PICK x, r, f : Rows(t, x, r, f) /\ Quiet(t, x, r, f)
      BY <2>1 DEF QuietStep
    <3>2. r.current => r.ans.token.sid \notin told[t]
      <4>1. refresh[t].ph = "off" => refresh[t].ans.token = NoToken
        BY TypeFacts DEF RefreshOK
      <4> QED BY <1>6, <2>0, <3>1, <4>1 DEF Quiet
    <3>3. CASE told' = told
      <4>1. x.sid \notin told[t]
        BY <2>0, <3>1 DEF Quiet
      <4> QED BY <1>5, <3>1, <3>2, <3>3, <4>1
    <3>4. CASE told' = Told(t) /\ x.sid = NoSID /\ ~r.current
      <4>1. /\ tab' = [tab EXCEPT ![t] = x] /\ refresh' = [refresh EXCEPT ![t] = r]
        BY <3>1 DEF Rows
      <4>2. PICK lostNow : lostNow = {s \in {tab[t].sid} \ {NoSID} : ~Active(s)}
        OBVIOUS
      <4>3. told' = [told EXCEPT ![t] = @ \cup lostNow]
        BY <3>4, <4>2 DEF Told
      <4>4. \A s \in lostNow : s \in SIDs /\ sess'[s].status = "revoked"
        <5>1. SUFFICES ASSUME NEW s \in lostNow PROVE s \in SIDs /\ sess'[s].status = "revoked"
          OBVIOUS
        <5>2. s = tab[t].sid /\ s \in SIDs /\ ~Active(s) /\ Known(s) /\ s # NoSID
          BY <4>2, TypeFacts DEF Known
        <5>3. sess[s].status \in {"none", "active", "revoked"} /\ sess[s].status # "none"
          BY <5>2 DEF TypeInv, SessRow, KnownInv
        <5>4. sess[s].status = "revoked"
          BY <5>2, <5>3 DEF Active
        <5> QED BY <1>1, <5>2, <5>4 DEF StatusKeeps
      <4>5. NoSID \notin lostNow
        BY <4>2
      <4>6. ASSUME NEW u \in Tabs
            PROVE  /\ \A s \in told'[u] : sess'[s].status = "revoked"
                   /\ refresh'[u].current => refresh'[u].ans.token.sid \notin told'[u]
                   /\ tab'[u].sid \notin told'[u]
        <5>1. CASE u = t
          <6>1. told'[u] = told[t] \cup lostNow /\ tab'[u] = x /\ refresh'[u] = r
            BY <1>0, <4>1, <4>3, <5>1
          <6> QED BY <1>2, <2>0, <3>4, <4>4, <4>5, <6>1
        <5>2. CASE u # t
          <6>1. told'[u] = told[u] /\ tab'[u] = tab[u] /\ refresh'[u] = refresh[u]
            BY <1>0, <4>1, <4>3, <5>2
          <6> QED BY <1>2, <6>1 DEF ToldInv
        <5> QED BY <5>1, <5>2
      <4> QED BY <4>6 DEF ToldInv
    <3> QED BY <3>1, <3>3, <3>4 DEF Quiet
  <2>2. CASE NewLogin(t)
    <3>1. PICK f : Rows(t, tab[t], refresh[t], f) /\ told' = told
      BY <2>2 DEF NewLogin
    <3> QED BY <1>5, <2>0, <3>1
  <2>3. CASE LoginDone(t)
    <3>1. PICK x, r : /\ Rows(t, x, r, NoForm) /\ x.sid = form[t].ans.token.sid /\ ~r.current /\ told' = told
                      /\ form[t].ans.token # NoToken
      BY <2>3 DEF LoginDone
    <3>2. x.sid \notin told[t]
      <4>1. form[t].ans.token.sid # NoSID
        BY <3>1, TypeFacts, TokenFacts
      <4> QED BY <1>2, <3>1, <4>1 DEF KnownInv
    <3> QED BY <1>5, <3>1, <3>2
  <2>4. CASE PresentStep(t) \/ LostStep(t)
    <3>1. PICK x, r : /\ Rows(t, x, r, form[t]) /\ x.sid \in {tab[t].sid, NoSID}
                      /\ r.ans.token = NoToken /\ told' = told
      BY <2>4 DEF PresentStep, LostStep
    <3> QED BY <1>5, <1>6, <2>0, <3>1
  <2>5. CASE AnswerStep(t)
    <3>1. PICK r : /\ Rows(t, tab[t], r, form[t])
                   /\ \/ r.ans.token = NoToken
                      \/ /\ refresh[t].req.token # NoToken /\ Active(refresh[t].req.token.sid)
                         /\ r.ans.token = Current(refresh[t].req.token.sid)
      BY <2>5 DEF AnswerStep
    <3>2. told' = told
      BY <2>5 DEF AnswerStep
    <3>3. r.ans.token.sid = NoSID \/ Active(r.ans.token.sid)
      BY <1>6, <3>1, CurrentFacts, TokenFacts, TypeFacts
    <3> QED BY <1>2, <1>5, <2>0, <3>1, <3>2, <3>3
  <2>6. CASE EndStep(t)
    <3>1. PICK x, f : /\ Rows(t, x, Idle, f)
                      /\ x.sid \in {tab[t].sid, NoSID} \/ (x.sid = refresh[t].ans.token.sid /\ refresh[t].current)
      BY <2>6 DEF EndStep
    <3>2. told' = told
      BY <2>6 DEF EndStep
    <3> QED BY <1>5, <1>6, <2>0, <3>1, <3>2
  <2>7. CASE RestartStep(t)
    <3>1. Rows(t, Loading, Queued("boot"), NoForm) /\ told' = told
      BY <2>7 DEF RestartStep
    <3> QED BY <1>5, <1>6, <2>0, <3>1
  <2> QED BY <1>7, <2>1, <2>2, <2>3, <2>4, <2>5, <2>6, <2>7 DEF TabStep
<1>8. CASE UNCHANGED vars \/ RevokeStep \/ \E s \in SIDs : GraceStep(s)
  <2>1. tab' = tab /\ refresh' = refresh /\ told' = told
    BY <1>8 DEF vars, RevokeStep, GraceStep
  <2> QED BY <1>4, <2>1
<1>9. ASSUME NEW s \in SIDs, Rotation(s) PROVE ToldInv'
  <2>1. tab' = tab /\ told' = told /\ Active(s)
    BY <1>9 DEF Rotation
  <2>2. ASSUME NEW u \in Tabs, refresh'[u].current PROVE refresh'[u].ans.token.sid \notin told[u]
    <3>1. refresh[u].current /\ (Aged(u, s) \/ Rotated(u, s))
      BY <1>9, <2>2 DEF Rotation
    <3>2. CASE Aged(u, s)
      <4>1. refresh'[u].ans.token.sid = refresh[u].ans.token.sid
        BY <3>2, OlderFacts, TypeFacts DEF Aged
      <4> QED BY <3>1, <4>1 DEF ToldInv
    <3>3. CASE Rotated(u, s)
      BY <1>2, <2>1, <3>3, CurrentFacts DEF Rotated
    <3> QED BY <3>1, <3>2, <3>3
  <2> QED BY <1>3, <2>1, <2>2 DEF ToldInv
<1> QED BY StepKinds, <1>7, <1>8, <1>9

(* At first the only session there may be is that of the cookie. *)
LEMMA KnownFirst == Init => KnownInv /\ ToldInv
<1> SUFFICES ASSUME Init PROVE KnownInv /\ ToldInv
  OBVIOUS
<1>1. /\ tab = [t \in Tabs |-> Loading] /\ refresh = [t \in Tabs |-> Queued("boot")] /\ form = [t \in Tabs |-> NoForm]
      /\ orphans = {} /\ told = [t \in Tabs |-> {}]
  BY DEF Init
<1>2. PICK returning \in BOOLEAN :
        /\ sess = [s \in SIDs |-> [status |-> IF returning /\ s = 1 THEN "active" ELSE "none", grace |-> FALSE]]
        /\ jar = IF returning THEN Current(1) ELSE NoToken
  BY DEF Init
<1>3. 1 \in SIDs /\ NoToken.sid = NoSID /\ NoSID \notin SIDs
  BY AuthAssumption, TokenFacts DEF SIDs
<1>4. ASSUME NEW s \in SIDs, Known(s) PROVE sess[s].status # "none"
  <2>1. jar.sid = s
    BY <1>1, <1>3, <1>4, EmptyRows, QueuedFacts DEF Known, OrphanTokens
  <2>2. returning /\ s = 1
    BY <1>2, <1>3, <2>1, CurrentFacts
  <2> QED BY <1>2, <1>3, <2>2
<1>5. ASSUME NEW t \in Tabs PROVE form[t].ans.token.sid = NoSID
  BY <1>1, <1>3, EmptyRows
<1>6. KnownInv
  BY <1>4, <1>5 DEF KnownInv
<1> QED BY <1>1, <1>6 DEF ToldInv

(* In any number of tabs, once a tab has given up a session that was       *)
(* signed out, neither a late answer of a refresh (authEpoch), nor the     *)
(* cookie, a reload or a new login shows that session in the tab again.    *)
THEOREM SignedOutForGood == Spec => []SignedOutStaysOut
<1>1. TypeInv /\ WaitInv /\ KnownInv /\ ToldInv /\ [Next]_vars => (KnownInv /\ ToldInv)'
  BY KnownKept, ToldKept
<1>2. ToldInv => SignedOutStaysOut
  BY DEF ToldInv, SignedOutStaysOut
<1> QED BY KnownFirst, <1>1, <1>2, TypeInvariant, PTL DEF Spec

-----------------------------------------------------------------------------
(* The ages of the tokens *)

(* The tokens of pages that are gone are tokens. *)
LEMMA OrphanTokenFacts ==
  ASSUME TypeInv
  PROVE  /\ OrphanTokens \subseteq Tokens
         /\ orphans' \subseteq orphans => OrphanTokens' \subseteq OrphanTokens
BY DEF OrphanTokens, TypeInv, OrphanRow, RequestRow

(* A step of tab t leaves the rows of the others alone. *)
LEMMA RowsAt ==
  ASSUME TypeInv, NEW t \in Tabs, NEW x, NEW r, NEW f, Rows(t, x, r, f)
  PROVE  /\ tab'[t] = x /\ refresh'[t] = r /\ form'[t] = f
         /\ \A u \in Tabs : u # t => tab'[u] = tab[u] /\ refresh'[u] = refresh[u] /\ form'[u] = form[u]
BY DEF Rows, TypeInv

(* A refresh without a request has no token in it, and likewise an answer. *)
LEMMA TokenPhase ==
  ASSUME TypeInv, NEW t \in Tabs
  PROVE  /\ refresh[t].req.token # NoToken => Sent(t) /\ HasLock(refresh[t])
         /\ refresh[t].ans.token # NoToken => Answered(t) /\ HasLock(refresh[t])
BY TypeFacts, EmptyRows DEF RefreshOK, Sent, Answered, HasLock

(* Where no secret moves, the ages stay in order. *)
LEMMA AgeSame ==
  ASSUME TypeInv, AgeInv, jar' \in {jar, NoToken}, orphans' \subseteq orphans, refused' = refused, FormAge',
         \A s \in SIDs : Known(s) /\ sess'[s].status = "active" => sess'[s] = sess[s],
         \A u \in Tabs : /\ refresh'[u].req.token = refresh[u].req.token
                         /\ refresh'[u].ans.token = refresh[u].ans.token
                         /\ refresh'[u].ph = refresh[u].ph \/ (refresh[u].ph = "off" /\ refresh'[u].ph = "queued")
                         /\ tab'[u].up = tab[u].up
  PROVE  AgeInv'
<1>1. PICK O, P : O = OrphanTokens /\ P = OrphanTokens'
  OBVIOUS
<1>2. P \subseteq O
  BY <1>1, OrphanTokenFacts
<1>3. OneLock'
  BY DEF AgeInv, OneLock, HasLock
<1>4. ASSUME NEW k \in Tokens, k # NoToken => Known(k.sid), Live(k, sess')
      PROVE  Live(k, sess) /\ sess'[k.sid] = sess[k.sid]
  BY <1>4, TokenFacts DEF Live
<1>5. jar \in Tokens /\ (jar # NoToken => Known(jar.sid)) /\ NoToken \in Tokens
  BY TokenFacts DEF TypeInv, Known
<1>6. ASSUME NEW u \in Tabs PROVE RowAge(u)'
  <2>1. PICK k, a : k = refresh[u].req.token /\ a = refresh[u].ans.token
    OBVIOUS
  <2>2. k \in Tokens /\ Known(k.sid) /\ RequestOK(k, jar, sess, O) /\ AnswerOK(a, O)
    BY <1>1, <2>1, TypeFacts DEF AgeInv, RowAge, Known
  <2>3. RequestOK(k, jar', sess', P)
    <3>1. ASSUME k # NoToken, k.sid = jar'.sid PROVE k = jar'
      BY <2>2, <3>1, TokenFacts DEF RequestOK
    <3>2. Live(k, sess') => Live(k, sess) /\ sess'[k.sid] = sess[k.sid]
      BY <1>4, <2>2
    <3> QED BY <1>2, <2>2, <3>1, <3>2 DEF RequestOK, Newest
  <2>4. AnswerOK(a, P)
    BY <1>2, <2>2 DEF AnswerOK
  <2> QED BY <1>1, <2>1, <2>3, <2>4 DEF RowAge
<1>7. CookieOK(jar', sess', P)
  <2>1. CASE jar' = NoToken
    BY <2>1 DEF CookieOK
  <2>2. CASE jar' = jar
    <3>1. CookieOK(jar, sess, O)
      BY <1>1 DEF AgeInv
    <3> QED BY <1>2, <1>4, <1>5, <2>2, <3>1 DEF CookieOK, Newest
  <2> QED BY <2>1, <2>2
<1>8. RenewalOK'
  <2>1. CASE jar' = NoToken
    BY <2>1 DEF RenewalOK, Live
  <2>2. CASE jar' = jar
    <3>1. SUFFICES ASSUME Live(jar, sess') PROVE RenewalOK'
      BY <2>2 DEF RenewalOK
    <3>2. Live(jar, sess)
      BY <1>4, <1>5, <3>1
    <3>3. ASSUME NEW u \in Tabs
          PROVE  /\ Renews(tab[u], refresh[u], jar) => Renews(tab'[u], refresh'[u], jar)
                 /\ Brings(refresh[u], jar) => Brings(refresh'[u], jar)
      BY <3>3 DEF Renews, Brings
    <3>4. /\ jar.age = 0 /\ jar \in O => \E t \in Tabs : Renews(tab[t], refresh[t], jar)
          /\ jar.age # 0 => \E t \in Tabs : Renews(tab[t], refresh[t], jar) \/ Brings(refresh[t], jar)
      BY <1>1, <3>2 DEF AgeInv, RenewalOK
    <3> QED BY <1>1, <1>2, <2>2, <3>3, <3>4 DEF RenewalOK
  <2> QED BY <2>1, <2>2
<1>9. ~refused'
  BY DEF AgeInv
<1> QED BY <1>1, <1>3, <1>6, <1>7, <1>8, <1>9 DEF AgeInv

(* The replay window closes only when no overtaken cookie is left. *)
LEMMA AgeGrace ==
  ASSUME TypeInv, AgeInv, NEW s \in SIDs, GraceStep(s)
  PROVE  AgeInv'
<1>0. /\ UNCHANGED <<jar, tab, refresh, form, orphans, refused>> /\ OrphanTokens' = OrphanTokens
      /\ \A t \in Tabs : refresh[t].ph = "off"
      /\ \A u \in SIDs : sess'[u].status = sess[u].status
  BY DEF GraceStep, OrphanTokens
<1>1. ASSUME NEW u \in Tabs PROVE refresh[u].req.token = NoToken /\ refresh[u].ans.token = NoToken
  BY <1>0, TokenPhase DEF Sent, Answered
<1>2. Live(jar, sess') <=> Live(jar, sess)
  BY <1>0, TokenFacts DEF Live, TypeInv
<1>3. \A u \in Tabs : ~Renews(tab[u], refresh[u], jar)
  BY <1>0 DEF Renews
<1>4. jar # NoToken => \A u \in Tabs : ~Brings(refresh[u], jar)
  BY <1>1, TokenFacts DEF Brings, TypeInv
<1>5. Live(jar, sess) => jar.age = 0 /\ jar \notin OrphanTokens
  BY <1>3, <1>4 DEF AgeInv, RenewalOK, Live
<1>6. CookieOK(jar', sess', OrphanTokens') /\ RenewalOK'
  BY <1>0, <1>2, <1>5 DEF AgeInv, CookieOK, RenewalOK
<1>7. ASSUME NEW u \in Tabs PROVE RowAge(u)'
  BY <1>0, <1>1 DEF RowAge, RequestOK, AnswerOK
<1>8. OneLock' /\ FormAge' /\ ~refused'
  BY <1>0 DEF AgeInv, OneLock, FormAge
<1> QED BY <1>6, <1>7, <1>8 DEF AgeInv

(* A login brings the cookie of a session nobody else has. *)
LEMMA AgeLogin ==
  ASSUME TypeInv, KnownInv, AgeInv, NEW t \in Tabs, LoginDone(t)
  PROVE  AgeInv'
<1>1. PICK x, r : /\ Rows(t, x, r, NoForm) /\ jar' = form[t].ans.token /\ form[t].ans.token # NoToken
                  /\ r.ph = refresh[t].ph
                  /\ r.req.token = refresh[t].req.token /\ r.ans.token = refresh[t].ans.token
                  /\ UNCHANGED <<sess, orphans, refused>>
  BY DEF LoginDone
<1>2. PICK j : j = form[t].ans.token
  OBVIOUS
<1>3. j \in Tokens /\ j.age = 0 /\ j.sid # NoSID /\ ~Known(j.sid)
  BY <1>1, <1>2, TypeFacts, TokenFacts DEF AgeInv, FormAge, KnownInv
<1>4. /\ \A o \in OrphanTokens : o.sid # j.sid
      /\ \A u \in Tabs : refresh[u].req.token.sid # j.sid
  BY <1>3 DEF Known
<1>5. OrphanTokens' = OrphanTokens /\ sess' = sess /\ jar' = j
  BY <1>1, <1>2 DEF OrphanTokens
<1>6. ASSUME NEW u \in Tabs
      PROVE  /\ refresh'[u].ph = refresh[u].ph /\ refresh'[u].req.token = refresh[u].req.token
             /\ refresh'[u].ans.token = refresh[u].ans.token /\ form'[u].ans.token.age = 0
  <2>1. NoForm.ans.token.age = 0
    BY EmptyRows, TokenFacts
  <2> QED BY <1>1, <1>6, <2>1, RowsAt DEF AgeInv, FormAge
<1>7. ASSUME NEW u \in Tabs PROVE RowAge(u)'
  <2>1. RowAge(u)
    BY DEF AgeInv
  <2> QED BY <1>4, <1>5, <1>6, <2>1 DEF RowAge, RequestOK
<1>8. CookieOK(jar', sess', OrphanTokens') /\ RenewalOK'
  BY <1>3, <1>4, <1>5 DEF CookieOK, RenewalOK, Newest
<1>9. OneLock' /\ FormAge' /\ ~refused'
  BY <1>1, <1>6 DEF AgeInv, OneLock, FormAge, HasLock
<1> QED BY <1>7, <1>8, <1>9 DEF AgeInv

(* The browser's lock lets one tab at a time present the cookie. *)
LEMMA AgePresent ==
  ASSUME HasLocks, TypeInv, AgeInv, NEW t \in Tabs, PresentStep(t)
  PROVE  AgeInv'
<1>1. PICK x, r : /\ Rows(t, x, r, form[t]) /\ x.up = tab[t].up
                  /\ refresh[t].ans.token = NoToken
                  /\ (refresh[t].ph = "queued" /\ LockFree) \/ Answered(t)
                  /\ r.ph = "sent" /\ r.req.token = jar /\ r.ans.token = NoToken
                  /\ UNCHANGED <<sess, jar, orphans, refused>>
  BY DEF PresentStep
<1>2. ASSUME NEW u \in Tabs, u # t PROVE ~HasLock(refresh[u])
  BY <1>1, <1>2 DEF LockFree, Answered, AgeInv, OneLock, HasLock
<1>3. /\ refresh'[t] = r /\ tab'[t] = x /\ form'[t] = form[t]
      /\ \A u \in Tabs : u # t => refresh'[u] = refresh[u] /\ tab'[u] = tab[u] /\ form'[u] = form[u]
  BY <1>1, RowsAt
<1>4. OrphanTokens' = OrphanTokens /\ sess' = sess /\ jar' = jar
  BY <1>1 DEF OrphanTokens
<1>5. OneLock' /\ FormAge' /\ ~refused'
  BY <1>1, <1>2, <1>3 DEF AgeInv, OneLock, FormAge
<1>6. RequestOK(jar, jar, sess, OrphanTokens)
  BY DEF AgeInv, CookieOK, RequestOK
<1>7. ASSUME NEW u \in Tabs PROVE RowAge(u)'
  <2>1. CASE u = t
    BY <1>1, <1>3, <1>4, <1>6, <2>1 DEF RowAge, AnswerOK
  <2>2. CASE u # t
    <3>1. RowAge(u)
      BY DEF AgeInv
    <3> QED BY <1>3, <1>4, <2>2, <3>1 DEF RowAge
  <2> QED BY <2>1, <2>2
<1>8. RenewalOK'
  <2>1. SUFFICES ASSUME Live(jar, sess) PROVE RenewalOK'
    BY <1>4 DEF RenewalOK
  <2>2. ASSUME NEW u \in Tabs
        PROVE  /\ Renews(tab[u], refresh[u], jar) => Renews(tab'[u], refresh'[u], jar)
               /\ Brings(refresh[u], jar) => Brings(refresh'[u], jar)
    <3>1. CASE u = t
      <4>1. ~Brings(refresh[t], jar)
        BY <1>1, <2>1, TokenFacts DEF Brings, Live, TypeInv
      <4> QED BY <1>1, <1>3, <3>1, <4>1 DEF Renews
    <3>2. CASE u # t
      BY <1>3, <3>2
    <3> QED BY <3>1, <3>2
  <2> QED BY <1>4, <2>1, <2>2 DEF AgeInv, RenewalOK
<1> QED BY <1>4, <1>5, <1>7, <1>8 DEF AgeInv

(* A request that is answered without a rotation carried an overtaken      *)
(* secret, still accepted, and its answer brings the current one.          *)
LEMMA AgeAnswer ==
  ASSUME TypeInv, WaitInv, AgeInv, NEW t \in Tabs, AnswerStep(t)
  PROVE  AgeInv'
<1>1. PICK k : k = refresh[t].req.token
  OBVIOUS
<1>2. PICK r : /\ Rows(t, tab[t], r, form[t])
               /\ Sent(t) /\ r.ph = "answered" /\ r.req.token = NoToken
               /\ \/ r.ans.token = NoToken
                  \/ k \in Tokens /\ k # NoToken /\ k.age # 0 /\ Active(k.sid) /\ r.ans.token = Current(k.sid)
               /\ ~tab[t].up /\ WaitRow(tab[t], refresh[t], form[t], events[t]) /\ k # NoToken /\ Active(k.sid) /\ Presentable(k)
                     => r.ans.token # NoToken
               /\ Revokes(sess')
               /\ refused' => refused \/ (k # NoToken /\ Active(k.sid) /\ ~Presentable(k))
               /\ UNCHANGED <<jar, orphans>>
  BY <1>1 DEF AnswerStep
<1>3. /\ refresh'[t] = r /\ tab'[t] = tab[t] /\ form'[t] = form[t]
      /\ \A u \in Tabs : u # t => refresh'[u] = refresh[u] /\ tab'[u] = tab[u] /\ form'[u] = form[u]
  BY <1>2, RowsAt
<1>4. OrphanTokens' = OrphanTokens /\ jar' = jar /\ jar \in Tokens /\ k \in Tokens
  BY <1>1, <1>2, TypeFacts DEF OrphanTokens, TypeInv
<1>5. ASSUME NEW z \in Tokens, Live(z, sess') PROVE Live(z, sess) /\ sess'[z.sid] = sess[z.sid]
  BY <1>2, <1>5, TokenFacts DEF Live, Revokes
<1>6. \A z \in Tokens : (z # NoToken /\ Active(z.sid)) <=> Live(z, sess)
  BY TokenFacts DEF Live, Active
<1>7. RequestOK(k, jar, sess, OrphanTokens)
  BY <1>1 DEF AgeInv, RowAge
<1>8. ~refused'
  BY <1>2, <1>4, <1>6, <1>7 DEF AgeInv, RequestOK, Presentable
<1>9. OneLock' /\ FormAge'
  BY <1>2, <1>3 DEF AgeInv, OneLock, FormAge, HasLock, Sent
<1>10. AnswerOK(r.ans.token, OrphanTokens)
  <2>1. SUFFICES ASSUME r.ans.token # NoToken PROVE AnswerOK(r.ans.token, OrphanTokens)
    BY DEF AnswerOK
  <2>2. k # NoToken /\ k.age # 0 /\ r.ans.token = Current(k.sid) /\ k.sid \in SIDs /\ k.age \in 0..2
    BY <1>2, <1>4, <2>1, TokenFacts
  <2>3. r.ans.token.sid = k.sid /\ r.ans.token.age = 0
    BY <2>2, CurrentFacts
  <2>4. \A o \in OrphanTokens : o.sid = k.sid => o.age >= k.age /\ o.age \in 0..2
    BY <1>7, <2>2, OrphanTokenFacts, TokenFacts DEF RequestOK, Newest
  <2> QED BY <2>2, <2>3, <2>4 DEF AnswerOK
<1>11. ASSUME NEW u \in Tabs PROVE RowAge(u)'
  <2>1. CASE u = t
    BY <1>2, <1>3, <1>4, <1>10, <2>1 DEF RowAge, RequestOK
  <2>2. CASE u # t
    <3>1. PICK q : q = refresh[u].req.token
      OBVIOUS
    <3>2. q \in Tokens /\ RequestOK(q, jar, sess, OrphanTokens) /\ AnswerOK(refresh[u].ans.token, OrphanTokens)
      BY <3>1, TypeFacts DEF AgeInv, RowAge
    <3>3. RequestOK(q, jar, sess', OrphanTokens)
      BY <1>5, <3>2 DEF RequestOK
    <3> QED BY <1>3, <1>4, <2>2, <3>1, <3>2, <3>3 DEF RowAge
  <2> QED BY <2>1, <2>2
<1>12. CookieOK(jar', sess', OrphanTokens')
  <2>1. CookieOK(jar, sess, OrphanTokens)
    BY DEF AgeInv
  <2> QED BY <1>4, <1>5, <2>1 DEF CookieOK
<1>13. RenewalOK'
  <2>1. SUFFICES ASSUME Live(jar, sess') PROVE RenewalOK'
    BY <1>4 DEF RenewalOK
  <2>2. Live(jar, sess)
    BY <1>4, <1>5, <2>1
  <2>3. Renews(tab[t], refresh[t], jar) => jar.age # 0 /\ Brings(refresh'[t], jar)
    <3>1. SUFFICES ASSUME Renews(tab[t], refresh[t], jar) PROVE jar.age # 0 /\ Brings(refresh'[t], jar)
      OBVIOUS
    <3>2. k = jar /\ ~tab[t].up
      BY <1>1, <1>2, <3>1 DEF Renews, Sent
    <3>3. k # NoToken /\ Active(k.sid) /\ Presentable(k)
      BY <1>4, <1>6, <1>7, <2>2, <3>2 DEF Live, RequestOK, Presentable
    <3>4. r.ans.token # NoToken
      BY <1>2, <3>2, <3>3 DEF WaitInv
    <3>5. k.age # 0 /\ r.ans.token = Current(k.sid) /\ k.sid \in SIDs
      BY <1>2, <1>4, <3>3, <3>4, TokenFacts
    <3> QED BY <1>3, <3>2, <3>5, CurrentFacts DEF Brings
  <2>4. ~Brings(refresh[t], jar)
    <3>1. refresh[t].ans.token = NoToken
      BY <1>2, TokenPhase DEF Sent, Answered
    <3> QED BY <1>4, <2>2, <3>1, TokenFacts DEF Brings, Live
  <2>5. ASSUME NEW u \in Tabs, u # t
        PROVE  /\ Renews(tab[u], refresh[u], jar) <=> Renews(tab'[u], refresh'[u], jar)
               /\ Brings(refresh[u], jar) <=> Brings(refresh'[u], jar)
    BY <1>3, <2>5
  <2> QED BY <1>4, <2>2, <2>3, <2>4, <2>5 DEF AgeInv, RenewalOK
<1> QED BY <1>8, <1>9, <1>11, <1>12, <1>13 DEF AgeInv

(* A tab whose refresh ends takes its answer's secret for the cookie. *)
LEMMA AgeEnd ==
  ASSUME TypeInv, AgeInv, NEW t \in Tabs, Arrives(t), EndStep(t)
  PROVE  AgeInv'
<1>1. PICK x, f : /\ Rows(t, x, Idle, f) /\ f.ans.token \in {form[t].ans.token, NoToken}
                  /\ tab[t].up \/ refresh[t].current
  BY DEF EndStep
<1>2. UNCHANGED <<sess, orphans, refused>>
  BY DEF EndStep
<1>3. /\ refresh'[t] = Idle /\ tab'[t] = x /\ form'[t] = f
      /\ \A u \in Tabs : u # t => refresh'[u] = refresh[u] /\ tab'[u] = tab[u] /\ form'[u] = form[u]
  BY <1>1, RowsAt
<1>4. OrphanTokens' = OrphanTokens /\ sess' = sess /\ jar \in Tokens
  BY <1>2 DEF OrphanTokens, TypeInv
<1>5. /\ Idle.req.token = NoToken /\ Idle.ans.token = NoToken /\ ~HasLock(Idle) /\ NoToken.age = 0
  BY EmptyRows, TokenFacts DEF HasLock
<1>6. OneLock' /\ FormAge' /\ ~refused'
  BY <1>1, <1>2, <1>3, <1>5 DEF AgeInv, OneLock, FormAge
<1>7. CASE jar' \in {jar, NoToken} /\ refresh[t].ans.token = NoToken
           /\ (Answered(t) \/ (refresh[t].ph = "queued" /\ ~refresh[t].current))
  <2>1. ASSUME NEW u \in Tabs PROVE RowAge(u)'
    <3>1. CASE u = t
      BY <1>3, <1>5, <3>1 DEF RowAge, RequestOK, AnswerOK
    <3>2. CASE u # t
      <4>1. PICK q : q = refresh[u].req.token
        OBVIOUS
      <4>2. q \in Tokens /\ RequestOK(q, jar, sess, OrphanTokens) /\ AnswerOK(refresh[u].ans.token, OrphanTokens)
        BY <4>1, TypeFacts DEF AgeInv, RowAge
      <4>3. RequestOK(q, jar', sess, OrphanTokens)
        BY <1>7, <4>2, TokenFacts DEF RequestOK
      <4> QED BY <1>3, <1>4, <3>2, <4>1, <4>2, <4>3 DEF RowAge
    <3> QED BY <3>1, <3>2
  <2>2. CookieOK(jar', sess', OrphanTokens')
    BY <1>4, <1>7 DEF AgeInv, CookieOK
  <2>3. RenewalOK'
    <3>1. SUFFICES ASSUME jar' = jar, Live(jar, sess) PROVE RenewalOK'
      BY <1>4, <1>7 DEF RenewalOK, Live
    <3>2. ~Renews(tab[t], refresh[t], jar) /\ ~Brings(refresh[t], jar)
      BY <1>1, <1>4, <1>7, <3>1, TokenFacts DEF Renews, Brings, Live, Answered
    <3>3. ASSUME NEW u \in Tabs, u # t
          PROVE  /\ Renews(tab[u], refresh[u], jar) <=> Renews(tab'[u], refresh'[u], jar)
                 /\ Brings(refresh[u], jar) <=> Brings(refresh'[u], jar)
      BY <1>3, <3>3
    <3> QED BY <1>4, <3>1, <3>2, <3>3 DEF AgeInv, RenewalOK
  <2> QED BY <1>6, <2>1, <2>2, <2>3 DEF AgeInv
<1>8. CASE Answered(t) /\ refresh[t].ans.token # NoToken /\ jar' = refresh[t].ans.token
  <2>1. PICK j : j = refresh[t].ans.token
    OBVIOUS
  <2>2. AnswerOK(j, OrphanTokens) /\ j # NoToken /\ jar' = j
    BY <1>8, <2>1 DEF AgeInv, RowAge
  <2>3. j.age = 0 /\ j \notin OrphanTokens /\ CookieOK(j, sess, OrphanTokens)
    <3>1. j.age = 0 /\ \A o \in OrphanTokens : o.sid = j.sid => o.age >= 1
      BY <2>2 DEF AnswerOK
    <3>2. \A o \in OrphanTokens : o.age \in Nat
      BY OrphanTokenFacts, TokenFacts
    <3> QED BY <3>1, <3>2 DEF CookieOK, Newest
  <2>4. CookieOK(jar', sess', OrphanTokens') /\ RenewalOK'
    BY <1>4, <2>2, <2>3 DEF RenewalOK
  <2>5. ASSUME NEW u \in Tabs PROVE RowAge(u)'
    <3>1. CASE u = t
      BY <1>3, <1>5, <3>1 DEF RowAge, RequestOK, AnswerOK
    <3>2. CASE u # t
      <4>1. ~HasLock(refresh[u])
        BY <1>8, <3>2 DEF AgeInv, OneLock, HasLock, Answered
      <4>2. refresh[u].req.token = NoToken /\ refresh[u].ans.token = NoToken
        BY <4>1, TokenPhase
      <4> QED BY <1>3, <3>2, <4>2 DEF RowAge, RequestOK, AnswerOK
    <3> QED BY <3>1, <3>2
  <2> QED BY <1>6, <2>4, <2>5 DEF AgeInv
<1>9. refresh[t].ph = "queued" => refresh[t].ans.token = NoToken
  BY TokenPhase DEF Answered
<1> QED BY <1>7, <1>8, <1>9 DEF Arrives

(* The page that takes the place of one that left a request behind will    *)
(* itself renew the cookie.                                                *)
LEMMA AgeRestart ==
  ASSUME TypeInv, AgeInv, NEW t \in Tabs, RestartStep(t)
  PROVE  AgeInv'
<1>1. /\ Reload(t) /\ Rows(t, Loading, Queued("boot"), NoForm) /\ (jar' = jar \/ Arrives(t))
      /\ UNCHANGED <<sess, refused>>
  BY DEF RestartStep
<1>2. /\ refresh'[t] = Queued("boot") /\ tab'[t] = Loading /\ form'[t] = NoForm
      /\ \A u \in Tabs : u # t => refresh'[u] = refresh[u] /\ tab'[u] = tab[u] /\ form'[u] = form[u]
  BY <1>1, RowsAt
<1>3. /\ Queued("boot").req.token = NoToken /\ Queued("boot").ans.token = NoToken /\ ~HasLock(Queued("boot"))
      /\ Queued("boot").ph = "queued" /\ ~Loading.up /\ NoForm.ans.token.age = 0
  BY EmptyRows, TokenFacts, QueuedFacts DEF HasLock
<1>4. OneLock' /\ FormAge' /\ ~refused'
  BY <1>1, <1>2, <1>3 DEF AgeInv, OneLock, FormAge
<1>5. Renews(tab'[t], refresh'[t], jar')
  BY <1>2, <1>3 DEF Renews
<1>6. RenewalOK'
  BY <1>5 DEF RenewalOK
<1>7. PICK O, P, k : O = OrphanTokens /\ P = OrphanTokens' /\ k = refresh[t].req.token
  OBVIOUS
<1>8. \A o \in P : o \in O \/ (Sent(t) /\ o = k)
  BY <1>1, <1>7, ReloadTokens
<1>9. O \subseteq Tokens /\ P \subseteq Tokens /\ k \in Tokens /\ jar \in Tokens
  BY <1>7, <1>8, OrphanTokenFacts, TypeFacts DEF TypeInv
<1>10. CookieOK(jar, sess, O) /\ RequestOK(k, jar, sess, O) /\ sess' = sess
  BY <1>1, <1>7 DEF AgeInv, RowAge
<1>11. \/ jar' = jar
       \/ jar' = NoToken /\ Answered(t)
       \/ jar' = refresh[t].ans.token /\ refresh[t].ans.token # NoToken /\ Answered(t)
  BY <1>1 DEF Arrives
<1>12. CookieOK(jar', sess', P)
  <2>1. CASE jar' = jar
    <3>1. SUFFICES ASSUME jar # NoToken PROVE Newest(jar, P)
      BY <1>10, <2>1 DEF CookieOK
    <3>2. ASSUME NEW o \in P, o.sid = jar.sid PROVE o.age >= jar.age
      <4>1. CASE o \in O
        BY <1>10, <3>1, <3>2, <4>1 DEF CookieOK, Newest
      <4>2. CASE o = k
        <5>1. k # NoToken
          BY <1>9, <3>1, <3>2, <4>2, TokenFacts
        <5>2. o = jar
          BY <1>10, <3>2, <4>2, <5>1 DEF RequestOK
        <5>3. jar.age \in Nat
          BY <1>9, TokenFacts
        <5> QED BY <5>2, <5>3
      <4> QED BY <1>8, <4>1, <4>2
    <3> QED BY <3>2 DEF Newest
  <2>2. CASE jar' = NoToken
    BY <2>2 DEF CookieOK
  <2>3. CASE jar' = refresh[t].ans.token /\ refresh[t].ans.token # NoToken
    <3>1. jar'.age = 0
      BY <2>3 DEF AgeInv, RowAge, AnswerOK
    <3>2. \A o \in P : o.age \in Nat
      BY <1>9, TokenFacts
    <3> QED BY <3>1, <3>2 DEF CookieOK, Newest
  <2> QED BY <1>11, <2>1, <2>2, <2>3
<1>13. ASSUME NEW u \in Tabs PROVE RowAge(u)'
  <2>1. CASE u = t
    BY <1>2, <1>3, <2>1 DEF RowAge, RequestOK, AnswerOK
  <2>2. CASE u # t /\ HasLock(refresh[t])
    <3>1. ~HasLock(refresh[u])
      BY <2>2 DEF AgeInv, OneLock
    <3>2. refresh[u].req.token = NoToken /\ refresh[u].ans.token = NoToken
      BY <3>1, TokenPhase
    <3> QED BY <1>2, <2>2, <3>2 DEF RowAge, RequestOK, AnswerOK
  <2>3. CASE u # t /\ ~HasLock(refresh[t])
    <3>1. jar' = jar /\ P \subseteq O
      BY <1>8, <1>11, <2>3 DEF HasLock, Answered, Sent
    <3>2. PICK q, a : q = refresh[u].req.token /\ a = refresh[u].ans.token
      OBVIOUS
    <3>3. RequestOK(q, jar, sess, O) /\ AnswerOK(a, O)
      BY <1>7, <3>2 DEF AgeInv, RowAge
    <3>4. RequestOK(q, jar', sess', P) /\ AnswerOK(a, P)
      BY <1>10, <3>1, <3>3 DEF RequestOK, AnswerOK, Newest
    <3> QED BY <1>2, <1>7, <2>3, <3>2, <3>4 DEF RowAge
  <2> QED BY <2>1, <2>2, <2>3
<1> QED BY <1>4, <1>6, <1>7, <1>12, <1>13 DEF AgeInv

(* A rotation is asked for by the one holder of the lock, or by a page     *)
(* that is gone and whose successor is about to renew the cookie.          *)
LEMMA AgeRotation ==
  ASSUME TypeInv, KnownInv, AgeInv, NEW s \in SIDs, Rotation(s)
  PROVE  AgeInv'
<1>1. PICK O, P, j : O = OrphanTokens /\ P = OrphanTokens' /\ j = jar
  OBVIOUS
<1>2. /\ O \subseteq Tokens /\ j \in Tokens /\ jar' = Older(j, s) /\ \A p \in P : \E o \in O : p = Older(o, s)
      /\ sess'[s].grace /\ sess'[s].status = sess[s].status
      /\ \A u \in SIDs : u # s => sess'[u] = sess[u]
      /\ tab' = tab /\ refused' = refused
  BY <1>1, OrphanTokenFacts DEF Rotation, TypeInv
<1>3. /\ CookieOK(j, sess, O) /\ OneLock
      /\ \A u \in Tabs : RequestOK(refresh[u].req.token, j, sess, O) /\ AnswerOK(refresh[u].ans.token, O)
  BY <1>1 DEF AgeInv, RowAge
<1>4. ASSUME NEW k \in Tokens
      PROVE  /\ Older(k, s) \in Tokens /\ Older(k, s).sid = k.sid /\ k.age \in 0..2
             /\ k.sid = s => Older(k, s).age = IF k.age < 2 THEN k.age + 1 ELSE k.age
             /\ k.sid # s => Older(k, s) = k
             /\ Older(k, s) = NoToken <=> k = NoToken
  BY OlderFacts, TokenFacts
<1>5. ASSUME NEW u \in Tabs PROVE Aged(u, s) \/ Rotated(u, s)
  BY DEF Rotation
<1>6. (\E v \in Tabs : Rotated(v, s)) \/ Current(s) \in O
  BY <1>1 DEF Rotation
<1>7. Current(s) \in Tokens /\ Current(s).sid = s /\ Current(s).age = 0 /\ Current(s) # NoToken /\ s # NoSID
  BY CurrentFacts, TokenFacts
<1>8. Known(s)
  BY <1>1, <1>6, <1>7 DEF Known, Rotated
<1>9. ASSUME NEW p \in P PROVE p \in Tokens /\ p.age \in 0..2 /\ (p.sid = s => p.age >= 1) /\ (p.sid # s => p \in O)
  <2>1. PICK o \in O : p = Older(o, s)
    BY <1>2
  <2> QED BY <1>2, <1>4, <2>1
<1>10. ASSUME NEW k \in Tokens, Newest(k, O) PROVE Newest(Older(k, s), P)
  <2>1. ASSUME NEW p \in P, p.sid = Older(k, s).sid PROVE p.age >= Older(k, s).age
    <3>1. PICK o \in O : p = Older(o, s)
      BY <1>2
    <3>2. o \in Tokens /\ o.sid = k.sid /\ o.age >= k.age /\ o.age \in 0..2 /\ k.age \in 0..2
      BY <1>2, <1>4, <1>10, <2>1, <3>1 DEF Newest
    <3> QED BY <1>4, <3>1, <3>2
  <2> QED BY <2>1 DEF Newest
<1>11. OneLock'
  <2>1. ASSUME NEW u \in Tabs, HasLock(refresh'[u]) PROVE HasLock(refresh[u])
    BY <1>5, <2>1 DEF Aged, Rotated, HasLock, Sent
  <2> QED BY <1>3, <2>1 DEF OneLock
<1>12. FormAge'
  <2>1. ASSUME NEW u \in Tabs PROVE form'[u].ans.token.age = 0
    <3>1. PICK a : a = form[u].ans.token
      OBVIOUS
    <3>2. a \in Tokens /\ a.age = 0 /\ form'[u].ans.token = Older(a, s)
      BY <3>1, TypeFacts DEF AgeInv, FormAge, Rotation
    <3>3. a.sid # s
      BY <1>7, <1>8, <3>1 DEF KnownInv
    <3> QED BY <1>4, <3>2, <3>3
  <2> QED BY <2>1 DEF FormAge
<1>13. ASSUME NEW u \in Tabs, Rotated(u, s) PROVE RowAge(u)'
  <2>1. refresh'[u].req.token = NoToken /\ refresh'[u].ans.token = Current(s)
    BY <1>13 DEF Rotated
  <2>2. AnswerOK(Current(s), P)
    BY <1>7, <1>9 DEF AnswerOK
  <2> QED BY <1>1, <2>1, <2>2 DEF RowAge, RequestOK
<1>14. ASSUME NEW u \in Tabs, ~Rotated(u, s), HasLock(refresh[u]) PROVE Current(s) \in O
  <2>1. \A v \in Tabs : ~Rotated(v, s)
    BY <1>3, <1>14 DEF OneLock, HasLock, Rotated, Sent
  <2> QED BY <1>6, <2>1
<1>15. ASSUME NEW u \in Tabs, ~Rotated(u, s) PROVE RowAge(u)'
  <2>1. PICK k, a : k = refresh[u].req.token /\ a = refresh[u].ans.token
    OBVIOUS
  <2>2. /\ k \in Tokens /\ a \in Tokens /\ RequestOK(k, j, sess, O) /\ AnswerOK(a, O)
        /\ refresh'[u].req.token = Older(k, s) /\ refresh'[u].ans.token = Older(a, s)
        /\ k # NoToken \/ a # NoToken => Current(s) \in O
    BY <1>3, <1>5, <1>14, <1>15, <2>1, TypeFacts, TokenPhase DEF Aged
  <2>3. RequestOK(Older(k, s), jar', sess', P)
    <3>1. SUFFICES ASSUME k # NoToken PROVE RequestOK(Older(k, s), jar', sess', P)
      BY <1>4, <2>2 DEF RequestOK
    <3>2. (k.sid = j.sid => k = j) /\ Newest(k, O) /\ Current(s) \in O
      BY <2>2, <3>1 DEF RequestOK
    <3>3. Older(k, s).sid = jar'.sid => Older(k, s) = jar'
      BY <1>2, <1>4, <2>2, <3>2
    <3>4. Newest(Older(k, s), P)
      BY <1>10, <2>2, <3>2
    <3>5. CASE k.sid = s
      <4>1. k.age = 0
        BY <1>4, <1>7, <2>2, <3>2, <3>5 DEF Newest
      <4>2. Older(k, s).age = 1 /\ Older(k, s).sid = s
        BY <1>4, <2>2, <3>5, <4>1
      <4> QED BY <1>2, <3>3, <3>4, <4>2 DEF RequestOK
    <3>6. CASE k.sid # s
      <4>1. Older(k, s) = k /\ k.sid \in SIDs /\ sess'[k.sid] = sess[k.sid]
        BY <1>2, <1>4, <2>2, <3>1, <3>6, TokenFacts
      <4> QED BY <2>2, <3>1, <3>3, <3>4, <4>1 DEF RequestOK, Live
    <3> QED BY <3>5, <3>6
  <2>4. AnswerOK(Older(a, s), P)
    <3>1. SUFFICES ASSUME a # NoToken PROVE AnswerOK(Older(a, s), P)
      BY <1>4, <2>2 DEF AnswerOK
    <3>2. a.age = 0 /\ (\A o \in O : o.sid = a.sid => o.age >= 1) /\ Current(s) \in O
      BY <2>2, <3>1 DEF AnswerOK
    <3>3. a.sid # s
      BY <1>7, <3>2
    <3>4. Older(a, s) = a
      BY <1>4, <2>2, <3>3
    <3> QED BY <1>9, <3>2, <3>3, <3>4 DEF AnswerOK
  <2> QED BY <1>1, <2>1, <2>2, <2>3, <2>4 DEF RowAge
<1>16. CASE j.sid # s
  <2>1. jar' = j
    BY <1>2, <1>4, <1>16
  <2>2. ASSUME Live(j, sess') PROVE Live(j, sess) /\ sess'[j.sid] = sess[j.sid]
    BY <1>2, <1>16, <2>2, TokenFacts DEF Live
  <2>3. CookieOK(jar', sess', P)
    <3>1. j # NoToken => Newest(j, P)
      BY <1>2, <1>3, <1>10, <2>1 DEF CookieOK
    <3> QED BY <1>3, <2>1, <2>2, <3>1 DEF CookieOK
  <2>4. RenewalOK'
    <3>1. SUFFICES ASSUME Live(j, sess') PROVE RenewalOK'
      BY <2>1 DEF RenewalOK
    <3>2. Live(j, sess) /\ j # NoToken /\ j.sid # NoSID
      BY <1>2, <2>2, <3>1, TokenFacts DEF Live
    <3>3. j \in P => j \in O
      BY <1>9, <1>16
    <3>4. ASSUME NEW u \in Tabs
          PROVE  /\ Renews(tab[u], refresh[u], j) => Renews(tab'[u], refresh'[u], j)
                 /\ Brings(refresh[u], j) => Brings(refresh'[u], j)
      <4>1. CASE Rotated(u, s)
        <5>1. refresh[u].req.token # j /\ refresh[u].ph = "sent"
          BY <1>7, <1>16, <4>1 DEF Rotated, Sent
        <5>2. refresh[u].ans.token = NoToken
          BY <5>1, TokenPhase DEF Answered
        <5> QED BY <3>2, <5>1, <5>2, TokenFacts DEF Renews, Brings
      <4>2. CASE Aged(u, s)
        <5>1. /\ refresh'[u].ph = refresh[u].ph /\ refresh'[u].ans.token.sid = refresh[u].ans.token.sid
              /\ refresh[u].req.token = j => refresh'[u].req.token = j
          BY <1>4, <1>16, <4>2, TypeFacts DEF Aged
        <5> QED BY <1>2, <5>1 DEF Renews, Brings
      <4> QED BY <1>5, <4>1, <4>2
    <3> QED BY <1>1, <2>1, <3>2, <3>3, <3>4 DEF AgeInv, RenewalOK
  <2> QED BY <1>1, <1>2, <1>11, <1>12, <1>13, <1>15, <2>3, <2>4 DEF AgeInv
<1>17. CASE j.sid = s
  <2>1. Live(j, sess) /\ j # NoToken
    BY <1>2, <1>17, TokenFacts DEF Live, Rotation, Active
  <2>2. j.age = 0 /\ \E u \in Tabs : Rotated(u, s) \/ Renews(tab[u], refresh[u], j)
    <3>1. CASE \E v \in Tabs : Rotated(v, s)
      <4>1. PICK v \in Tabs : Rotated(v, s)
        BY <3>1
      <4>2. RequestOK(Current(s), j, sess, O)
        BY <1>3, <4>1 DEF Rotated
      <4>3. Current(s) = j
        BY <1>7, <1>17, <4>2 DEF RequestOK
      <4> QED BY <1>7, <4>1, <4>3
    <3>2. CASE Current(s) \in O
      <4>1. Newest(j, O) /\ j.age \in 0..2
        BY <1>2, <1>3, <1>4, <2>1 DEF CookieOK
      <4>2. j.age = 0
        BY <1>7, <1>17, <3>2, <4>1 DEF Newest
      <4>3. j = Current(s)
        BY <1>2, <1>17, <2>1, <4>2, TokenFacts DEF Current
      <4> QED BY <1>1, <2>1, <3>2, <4>2, <4>3 DEF AgeInv, RenewalOK
    <3> QED BY <1>6, <3>1, <3>2
  <2>3. jar'.age = 1 /\ jar'.sid = s /\ jar' # NoToken /\ jar' = Older(j, s)
    BY <1>2, <1>4, <1>17, <2>1, <2>2
  <2>4. CookieOK(jar', sess', P)
    <3>1. Newest(jar', P)
      BY <1>2, <1>3, <1>10, <2>1 DEF CookieOK
    <3> QED BY <1>2, <2>3, <3>1 DEF CookieOK
  <2>5. \E u \in Tabs : Renews(tab'[u], refresh'[u], jar') \/ Brings(refresh'[u], jar')
    <3>1. PICK u \in Tabs : Rotated(u, s) \/ Renews(tab[u], refresh[u], j)
      BY <2>2
    <3>2. CASE Rotated(u, s)
      BY <1>7, <2>3, <3>2 DEF Rotated, Brings
    <3>3. CASE Renews(tab[u], refresh[u], j) /\ Aged(u, s)
      BY <1>2, <2>3, <3>3 DEF Renews, Aged
    <3> QED BY <1>5, <3>1, <3>2, <3>3
  <2>6. RenewalOK'
    BY <2>3, <2>5 DEF RenewalOK
  <2> QED BY <1>1, <1>2, <1>11, <1>12, <1>13, <1>15, <2>4, <2>6 DEF AgeInv
<1> QED BY <1>16, <1>17

(* With the browser's lock, the ages stay in order until something is lost. *)
LEMMA AgeStep ==
  ASSUME HasLocks, TypeInv, WaitInv, KnownInv, RefusedInv, [Next]_vars
  PROVE  RefusedInv'
<1>0. lost \in Nat /\ (lost > 0 => lost' > 0)
  <2>1. lost \in Nat
    BY AuthAssumption DEF TypeInv
  <2>2. Counts \/ UNCHANGED lost
    BY StepKinds DEF vars, TabStep, QuietStep, NewLogin, LoginDone, PresentStep, LostStep, AnswerStep, EndStep,
       RestartStep, Rows, RevokeStep, Rotation, GraceStep
  <2>3. Counts => lost' \in Nat /\ lost' >= lost
    BY AuthAssumption DEF Counts
  <2> QED BY <2>1, <2>2, <2>3
<1>1. SUFFICES ASSUME AgeInv PROVE AgeInv' \/ lost' > 0
  BY <1>0 DEF RefusedInv
<1>2. ASSUME Revokes(sess') \/ sess' = sess, NEW s \in SIDs, sess'[s].status = "active" PROVE sess'[s] = sess[s]
  BY <1>2 DEF Revokes
<1>3. ASSUME NEW t \in Tabs, TabStep(t) PROVE AgeInv' \/ lost' > 0
  <2>1. CASE QuietStep(t)
    <3>1. PICK x, r, f : Rows(t, x, r, f) /\ Quiet(t, x, r, f)
      BY <2>1 DEF QuietStep
    <3>2. ASSUME NEW u \in Tabs
          PROVE  /\ refresh'[u].req.token = refresh[u].req.token /\ refresh'[u].ans.token = refresh[u].ans.token
                 /\ refresh'[u].ph = refresh[u].ph \/ (refresh[u].ph = "off" /\ refresh'[u].ph = "queued")
                 /\ tab'[u].up = tab[u].up /\ form'[u].ans.token.age = 0
      <4>1. CASE u = t
        <5>1. f.ans.token.age = 0
          BY <1>1, <3>1, TokenFacts DEF AgeInv, FormAge, Quiet
        <5> QED BY <3>1, <4>1, <5>1, RowsAt DEF Quiet
      <4>2. CASE u # t
        BY <1>1, <3>1, <4>2, RowsAt DEF AgeInv, FormAge
      <4> QED BY <4>1, <4>2
    <3>3. jar' \in {jar, NoToken} /\ orphans' = orphans /\ refused' = refused /\ Revokes(sess')
      BY <3>1 DEF Quiet
    <3>4. FormAge'
      BY <3>2 DEF FormAge
    <3> QED BY <1>1, <1>2, <3>2, <3>3, <3>4, AgeSame
  <2>2. CASE NewLogin(t)
    <3>1. PICK f, s : /\ Rows(t, tab[t], refresh[t], f) /\ s \in SIDs /\ sess[s].status = "none"
                      /\ \A u \in SIDs : u # s => sess'[u] = sess[u]
                      /\ f.ans.token = Current(s) /\ UNCHANGED <<jar, orphans, refused>>
      BY <2>2 DEF NewLogin
    <3>2. ASSUME NEW u \in Tabs
          PROVE  refresh'[u] = refresh[u] /\ tab'[u] = tab[u] /\ form'[u].ans.token.age = 0
      BY <1>1, <3>1, RowsAt, CurrentFacts DEF AgeInv, FormAge
    <3>3. \A u \in SIDs : Known(u) => sess'[u] = sess[u]
      BY <3>1 DEF KnownInv
    <3>4. FormAge'
      BY <3>2 DEF FormAge
    <3> QED BY <1>1, <3>1, <3>2, <3>3, <3>4, AgeSame
  <2>3. CASE LostStep(t)
    BY <2>3 DEF LostStep
  <2> QED BY <1>1, <1>3, <2>1, <2>2, <2>3, AgeLogin, AgePresent, AgeAnswer, AgeEnd, AgeRestart DEF TabStep
<1>4. CASE RevokeStep \/ UNCHANGED vars
  <2>1. /\ UNCHANGED <<jar, tab, refresh, form, refused>> /\ orphans' \subseteq orphans
        /\ Revokes(sess') \/ sess' = sess
    BY <1>4 DEF RevokeStep, vars
  <2>2. FormAge'
    BY <1>1, <2>1 DEF AgeInv, FormAge
  <2> QED BY <1>1, <1>2, <2>1, <2>2, AgeSame
<1> QED BY <1>1, <1>3, <1>4, StepKinds, AgeRotation, AgeGrace

(* At first the cookie is the newest secret and nothing was presented. *)
LEMMA AgeFirst == Init => RefusedInv
<1> SUFFICES ASSUME Init PROVE AgeInv
  BY DEF RefusedInv
<1>1. /\ tab = [t \in Tabs |-> Loading] /\ refresh = [t \in Tabs |-> Queued("boot")] /\ form = [t \in Tabs |-> NoForm]
      /\ orphans = {} /\ refused = FALSE
  BY DEF Init
<1>2. OrphanTokens = {}
  BY <1>1 DEF OrphanTokens
<1>3. jar.age = 0
  <2>1. 1 \in SIDs
    BY AuthAssumption DEF SIDs
  <2> QED BY <2>1, CurrentFacts, TokenFacts DEF Init
<1>4. ASSUME NEW t \in Tabs
      PROVE  refresh[t].req.token = NoToken /\ refresh[t].ans.token = NoToken /\ ~HasLock(refresh[t])
             /\ form[t].ans.token.age = 0
  BY <1>1, EmptyRows, QueuedFacts, TokenFacts DEF HasLock
<1> QED BY <1>1, <1>2, <1>3, <1>4 DEF AgeInv, OneLock, FormAge, CookieOK, Newest, RenewalOK, RowAge, RequestOK, AnswerOK

(* In a browser with navigator.locks, with any number of tabs and of       *)
(* requests of pages that are gone, the server takes none of the browser's *)
(* tokens of an active session for unknown or reused unless a message was  *)
(* lost: the replay window of RotateUserSessionRefresh is wide enough.     *)
THEOREM TokensAccepted ==
  ASSUME HasLocks
  PROVE  Spec => []NoTokenRefused
<1>1. TypeInv /\ WaitInv /\ KnownInv /\ RefusedInv /\ [Next]_vars => RefusedInv'
  BY AgeStep
<1>2. TypeInv /\ WaitInv /\ KnownInv /\ [Next]_vars => KnownInv'
  BY KnownKept
<1>3. RefusedInv => NoTokenRefused
  BY DEF RefusedInv, AgeInv, NoTokenRefused
<1> QED BY KnownFirst, AgeFirst, <1>1, <1>2, <1>3, TypeInvariant, PTL DEF Spec

=============================================================================
