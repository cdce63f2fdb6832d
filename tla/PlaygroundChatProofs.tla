-------------------------- MODULE PlaygroundChatProofs --------------------------
(***************************************************************************)
(* Proofs about the playground for any number of requests, deltas, edits   *)
(* and mounts, any size of the stored history and any mode.                *)
(***************************************************************************)
EXTENDS PlaygroundChat, SequenceTheorems, WellFoundedInduction, TLAPS

(* A set of numbers that holds 0 and the successor of each of its members  *)
(* is Nat.  (The induction theorems of the library take an operator as a   *)
(* parameter; sets do instead.)                                            *)
LEMMA AllNumbers ==
  ASSUME NEW N \in SUBSET Nat, 0 \in N, \A n \in N : n + 1 \in N
  PROVE  N = Nat
<1> DEFINE C == Nat \ N
           Less == {p \in Nat \X Nat : p[1] < p[2]}
<1> SUFFICES ASSUME C # {} PROVE FALSE
  OBVIOUS
<1>1. IsWellFoundedOn(Less, Nat)
  BY NatLessThanWellFounded DEF OpToRel
<1>2. PICK x \in C : \A y \in C : ~(<<y, x>> \in Less)
  <2>1. C \subseteq Nat
    OBVIOUS
  <2> HIDE DEF C, Less
  <2> QED BY <1>1, <2>1, WFMin
<1>3. x - 1 \in C
  BY <1>2
<1>4. \A a, b \in Nat : a < b => <<a, b>> \in Less
  OBVIOUS
<1>5. x - 1 \in Nat /\ x \in Nat /\ x - 1 < x
  BY <1>2, <1>3
<1> HIDE DEF C, Less
<1> QED BY <1>2, <1>3, <1>4, <1>5

(* The greatest number of a set that has one.                              *)
LEMMA GreatestIsMax ==
  ASSUME NEW C \in SUBSET Nat, NEW x \in C, \A y \in C : y <= x
  PROVE  Max(C) = x
<1>1. \E z \in C : \A y \in C : z >= y
  OBVIOUS
<1>2. Max(C) \in C /\ \A y \in C : Max(C) >= y
  BY <1>1 DEF Max
<1>3. Max(C) \in Nat /\ x \in Nat /\ Max(C) >= x /\ Max(C) <= x
  BY <1>2
<1> QED BY <1>3

-----------------------------------------------------------------------------
(* A fold is a walk: from the first value, one element of the sequence at  *)
(* a time.  The module folds twice: a render runs the queued updaters, and *)
(* a deletion copies the messages that stay.                               *)
Rendered(ms, q, gen) == FoldLeft(LAMBDA x, u: RunUpdater(x, u, gen), ms, q)
Keep(kept, m, key) == IF Key(m) # key THEN Append(kept, m) ELSE kept
FoldStep(x, e, p, kind) == IF kind = "render" THEN RunUpdater(x, e, p) ELSE Keep(x, e, p)

Walk(tr, ms, q, gen) ==
  /\ tr[0] = ms
  /\ \A j \in 1..Len(q) : tr[j] = RunUpdater(tr[j - 1], q[j], gen)
  /\ Rendered(ms, q, gen) = tr[Len(q)]

(* The equation the library's fold solves, for the first n elements.       *)
FoldEquation(g, x, q, p, kind, n) ==
  g = [s \in SUBSET (1..n) |->
         IF s = {} THEN x ELSE FoldStep(g[s \ {Max(s)}], q[Max(s)], p, kind)]

(* It has a solution.                                                      *)
LEMMA FoldSolved ==
  ASSUME NEW x, NEW q, NEW p, NEW kind, NEW n \in Nat
  PROVE  \E g : FoldEquation(g, x, q, p, kind, n)
<1> DEFINE Step(y, e) == FoldStep(y, e, p, kind)
<1> DEFINE N == {k \in Nat : \E g : FoldEquation(g, x, q, p, kind, k)}
<1>1. 0 \in N
  <2> DEFINE g == [s \in SUBSET (1..0) |-> x]
  <2>1. SUBSET (1..0) = {{}}
    OBVIOUS
  <2>2. FoldEquation(g, x, q, p, kind, 0)
    BY <2>1 DEF FoldEquation
  <2> QED BY <2>2
<1>2. ASSUME NEW k \in N PROVE k + 1 \in N
  <2>0. k \in Nat
    BY <1>2
  <2>1. PICK g : FoldEquation(g, x, q, p, kind, k)
    BY <1>2
  <2> DEFINE h == [s \in SUBSET (1..(k + 1)) |-> IF k + 1 \in s THEN Step(g[s \ {k + 1}], q[k + 1]) ELSE g[s]]
  <2>2. ASSUME NEW s \in SUBSET (1..(k + 1))
        PROVE  h[s] = IF s = {} THEN x ELSE Step(h[s \ {Max(s)}], q[Max(s)])
    <3>1. CASE k + 1 \in s
      <4>1. Max(s) = k + 1
        BY <2>0, <3>1, GreatestIsMax
      <4>2. s \ {k + 1} \in SUBSET (1..(k + 1)) /\ k + 1 \notin s \ {k + 1}
        OBVIOUS
      <4> QED BY <3>1, <4>1, <4>2
    <3>2. CASE k + 1 \notin s
      <4>0. \A y \in 1..(k + 1) : y # k + 1 => y \in 1..k
        BY <2>0
      <4>1. s \in SUBSET (1..k) /\ s \ {Max(s)} \in SUBSET (1..(k + 1)) /\ k + 1 \notin s \ {Max(s)}
        BY <3>2, <4>0
      <4>2. g[s] = IF s = {} THEN x ELSE Step(g[s \ {Max(s)}], q[Max(s)])
        BY <2>1, <4>1 DEF FoldEquation
      <4> QED BY <3>2, <4>1, <4>2
    <3> QED BY <3>1, <3>2
  <2>3. FoldEquation(h, x, q, p, kind, k + 1)
    <3> HIDE DEF h
    <3>1. h = [s \in SUBSET (1..(k + 1)) |-> h[s]]
      BY DEF h
    <3> QED BY <2>2, <3>1 DEF FoldEquation
  <2> QED BY <2>0, <2>3
<1>3. N = Nat
  <2> HIDE DEF N
  <2>1. N \in SUBSET Nat
    BY DEF N
  <2> QED BY <1>1, <1>2, <2>1, AllNumbers
<1> QED BY <1>3

(* The solution walks along the sequence.                                  *)
LEMMA FoldWalks ==
  ASSUME NEW x, NEW q, NEW p, NEW kind, NEW n \in Nat, NEW g, FoldEquation(g, x, q, p, kind, n)
  PROVE  \E tr : /\ tr[0] = x /\ tr[n] = g[1..n]
                 /\ \A j \in 1..n : tr[j] = FoldStep(tr[j - 1], q[j], p, kind)
<1> DEFINE tr == [j \in 0..n |-> g[1..j]]
<1>1. tr[0] = x
  <2>1. 1..0 = {} /\ {} \in SUBSET (1..n)
    OBVIOUS
  <2> QED BY <2>1 DEF FoldEquation
<1>2. ASSUME NEW j \in 1..n PROVE tr[j] = FoldStep(tr[j - 1], q[j], p, kind)
  <2>0. j \in Nat /\ j >= 1 /\ j <= n
    OBVIOUS
  <2>1. Max(1..j) = j
    BY <2>0, GreatestIsMax
  <2>2. (1..j) \ {j} = 1..(j - 1) /\ j \in 1..j /\ 1..j \in SUBSET (1..n)
    BY <2>0
  <2>3. g[1..j] = FoldStep(g[(1..j) \ {Max(1..j)}], q[Max(1..j)], p, kind)
    BY <2>2 DEF FoldEquation
  <2>4. g[1..j] = FoldStep(g[1..(j - 1)], q[j], p, kind)
    BY <2>1, <2>2, <2>3
  <2>5. tr[j] = g[1..j] /\ tr[j - 1] = g[1..(j - 1)]
    BY <2>0
  <2> QED BY <2>4, <2>5
<1>3. tr[n] = g[1..n]
  OBVIOUS
<1> HIDE DEF tr
<1> QED BY <1>1, <1>2, <1>3

(* A render runs the updaters one after the other.                         *)
LEMMA RenderWalks ==
  ASSUME NEW ms, NEW q, NEW gen, DOMAIN q = 1..Len(q), Len(q) \in Nat
  PROVE  \E tr : Walk(tr, ms, q, gen)
<1> DEFINE g == CHOOSE f : FoldEquation(f, ms, q, gen, "render", Len(q))
<1>2. FoldEquation(g, ms, q, gen, "render", Len(q))
  BY FoldSolved
<1>3. Rendered(ms, q, gen) = g[1..Len(q)]
  BY DEF Rendered, FoldLeft, MapThenFoldSet, FoldEquation, FoldStep
<1> HIDE DEF g
<1>4. PICK tr : /\ tr[0] = ms /\ tr[Len(q)] = g[1..Len(q)]
                /\ \A j \in 1..Len(q) : tr[j] = FoldStep(tr[j - 1], q[j], gen, "render")
  BY <1>2, FoldWalks
<1> QED BY <1>3, <1>4 DEF Walk, FoldStep

(* A deletion copies the messages one after the other.                     *)
LEMMA RemoveWalks ==
  ASSUME NEW ms, NEW key, DOMAIN ms = 1..Len(ms), Len(ms) \in Nat
  PROVE  \E tr : /\ tr[0] = <<>> /\ tr[Len(ms)] = removeMessageByKey(ms, key)
                 /\ \A j \in 1..Len(ms) : tr[j] = Keep(tr[j - 1], ms[j], key)
<1> DEFINE g == CHOOSE f : FoldEquation(f, <<>>, ms, key, "remove", Len(ms))
<1>2. FoldEquation(g, <<>>, ms, key, "remove", Len(ms))
  BY FoldSolved
<1>3. removeMessageByKey(ms, key) = g[1..Len(ms)]
  BY DEF removeMessageByKey, FoldLeft, MapThenFoldSet, FoldEquation, FoldStep, Keep
<1> HIDE DEF g
<1>4. PICK tr : /\ tr[0] = <<>> /\ tr[Len(ms)] = g[1..Len(ms)]
                /\ \A j \in 1..Len(ms) : tr[j] = FoldStep(tr[j - 1], ms[j], key, "remove")
  BY <1>2, FoldWalks
<1> QED BY <1>3, <1>4 DEF FoldStep

(* What holds at the start of a walk and is kept by each step holds at     *)
(* its end.                                                                *)
LEMMA WalkInduction ==
  ASSUME NEW n \in Nat, NEW tr, NEW S, tr[0] \in S[0],
         \A j \in 1..n : tr[j - 1] \in S[j - 1] => tr[j] \in S[j]
  PROVE  \A j \in 0..n : tr[j] \in S[j]
<1> DEFINE N == {j \in Nat : j <= n => tr[j] \in S[j]}
<1>1. 0 \in N
  OBVIOUS
<1>2. ASSUME NEW j \in N PROVE j + 1 \in N
  <2>1. j \in Nat /\ (j <= n => tr[j] \in S[j])
    BY <1>2
  <2>2. j + 1 <= n => tr[j + 1] \in S[j + 1]
    <3>1. j + 1 <= n => j + 1 \in 1..n /\ (j + 1) - 1 = j /\ j <= n
      BY <2>1
    <3> QED BY <2>1, <3>1
  <2> QED BY <2>1, <2>2
<1>3. N = Nat
  <2> HIDE DEF N
  <2>1. N \in SUBSET Nat
    BY DEF N
  <2> QED BY <1>1, <1>2, <2>1, AllNumbers
<1> QED BY <1>3

(* The first part of a render is the render of the first part.             *)
LEMMA RenderPrefix ==
  ASSUME NEW ms, NEW p, NEW q, NEW gen, Len(p) \in Nat, DOMAIN p = 1..Len(p), Len(q) \in Nat, Len(p) <= Len(q),
         \A i \in 1..Len(p) : q[i] = p[i], NEW tr, Walk(tr, ms, q, gen)
  PROVE  Rendered(ms, p, gen) = tr[Len(p)]
<1>1. PICK t : Walk(t, ms, p, gen)
  BY RenderWalks
<1>2. t[0] = ms /\ (\A j \in 1..Len(p) : t[j] = RunUpdater(t[j - 1], p[j], gen)) /\ Rendered(ms, p, gen) = t[Len(p)]
  BY <1>1 DEF Walk
<1>3. tr[0] = ms /\ \A j \in 1..Len(p) : tr[j] = RunUpdater(tr[j - 1], p[j], gen)
  BY DEF Walk
<1> DEFINE S == [j \in 0..Len(p) |-> {t[j]}]
<1>4. tr[0] \in S[0]
  BY <1>2, <1>3
<1>5. ASSUME NEW j \in 1..Len(p), tr[j - 1] \in S[j - 1] PROVE tr[j] \in S[j]
  <2>1. j - 1 \in 0..Len(p) /\ j \in 0..Len(p)
    OBVIOUS
  <2>2. tr[j - 1] = t[j - 1]
    BY <1>5, <2>1
  <2>3. tr[j] = t[j]
    BY <1>2, <1>3, <2>2
  <2> QED BY <2>1, <2>3
<1>6. \A j \in 0..Len(p) : tr[j] \in S[j]
  <2> HIDE DEF S
  <2> QED BY <1>4, <1>5, WalkInduction
<1>7. Len(p) \in 0..Len(p)
  OBVIOUS
<1> QED BY <1>2, <1>6, <1>7

(* Nothing queued, nothing changed.                                        *)
LEMMA RenderNothing ==
  ASSUME NEW ms, NEW gen
  PROVE  Rendered(ms, <<>>, gen) = ms
<1> DEFINE p == <<>>
<1>1. DOMAIN p = 1..Len(p) /\ Len(p) = 0 /\ Len(p) \in Nat
  OBVIOUS
<1> HIDE DEF p
<1>2. PICK t : Walk(t, ms, p, gen)
  BY <1>1, RenderWalks
<1>3. Rendered(ms, p, gen) = ms
  BY <1>1, <1>2 DEF Walk
<1> QED BY <1>3 DEF p

-----------------------------------------------------------------------------
(* The refs.  The chat handler and the stream controller count generations *)
(* in step, the request of the current generation is the last one sent, it *)
(* is under way exactly while isRequesting is set, and the pending chunks  *)
(* are its own.                                                            *)
Authors(text) == {text[k][1] : k \in DOMAIN text}
Flag == [req: BOOLEAN, str: BOOLEAN]
Request == [kind: {"headers", "source", "eof", "plain"}, req: Requests, gen: Nat, sgen: Nat]
Counts == [sends: 0..MaxSends, mounts: Nat, edits: Nat]
Fates == {"whole", "cut", "overwritten"}

RefTypes ==
  /\ phase \in {"closed", "ready"} /\ shown \in Flag /\ next \in Flag
  /\ chat \in [gen: Nat, text: Texts, timer: BOOLEAN]
  /\ stream \in [gen: Nat, source: Nat] /\ net \in SUBSET Request
  /\ count \in Counts /\ sent \in [Requests -> 0..MaxChunks] /\ fate \in [Requests -> Fates]

Live == \E r \in net : r.gen = chat.gen
Streaming == \E r \in net : r.gen = chat.gen /\ r.kind \in {"source", "eof"}

RefsAgree ==
  /\ stream.gen = chat.gen /\ stream.source \in {0, stream.gen}
  /\ \A r \in net : r.sgen = r.gen /\ r.gen <= chat.gen /\ (r.gen = chat.gen => r.req = count.sends /\ next.req)
  /\ \A r \in net : r.gen = chat.gen /\ r.kind \in {"source", "eof"} => stream.source = r.sgen
  /\ \A r, s \in net : r.gen = chat.gen /\ s.gen = chat.gen => r = s
  /\ next.req => Live
  /\ next.str \/ chat.text # <<>> => Streaming
  /\ Authors(chat.text) \subseteq {count.sends}
  /\ shown.str => shown.req
  /\ phase = "closed" => net = {} /\ queue = <<>> /\ shown = Idle /\ next = Idle

RefsOK == RefTypes /\ RefsAgree

(* A text that takes a chunk has the letters of both.                      *)
LEMMA AppendedText ==
  ASSUME NEW text \in Texts, NEW chunk \in Texts
  PROVE  AppendChunk(text, chunk) \in Texts /\ Authors(AppendChunk(text, chunk)) \subseteq Authors(text) \cup Authors(chunk)
<1>1. CASE text # <<>> /\ IsPrefix(text, chunk)
  BY <1>1 DEF AppendChunk
<1>2. CASE ~(text # <<>> /\ IsPrefix(text, chunk))
  <2>1. AppendChunk(text, chunk) = text \o chunk
    BY <1>2 DEF AppendChunk
  <2>2. text \o chunk \in Texts
    BY DEF Texts
  <2>3. ASSUME NEW k \in DOMAIN (text \o chunk) PROVE (text \o chunk)[k][1] \in Authors(text) \cup Authors(chunk)
    <3>1. /\ DOMAIN text = 1..Len(text) /\ DOMAIN chunk = 1..Len(chunk) /\ Len(text) \in Nat /\ Len(chunk) \in Nat
          /\ DOMAIN (text \o chunk) = 1..(Len(text) + Len(chunk))
      BY DEF Texts
    <3>2. CASE k <= Len(text)
      <4>1. (text \o chunk)[k] = text[k] /\ k \in DOMAIN text
        BY <2>3, <3>1, <3>2 DEF Texts
      <4> QED BY <4>1 DEF Authors
    <3>3. CASE k > Len(text)
      <4>1. (text \o chunk)[k] = chunk[k - Len(text)] /\ k - Len(text) \in DOMAIN chunk
        BY <2>3, <3>1, <3>3 DEF Texts
      <4> QED BY <4>1 DEF Authors
    <3> QED BY <2>3, <3>1, <3>2, <3>3
  <2> QED BY <2>1, <2>2, <2>3 DEF Authors
<1> QED BY <1>1, <1>2

(* The texts the page makes.                                               *)
LEMMA NewTexts ==
  /\ <<>> \in Texts /\ Authors(<<>>) = {}
  /\ EditedText \in Texts /\ Authors(EditedText) = {0}
  /\ ErrorText \in Texts /\ Authors(ErrorText) = {0}
  /\ \A r \in Requests, i \in 1..MaxChunks : <<Letter(r, i)>> \in Texts /\ Authors(<<Letter(r, i)>>) = {r}
<1>1. <<>> \in Texts /\ Authors(<<>>) = {}
  BY DEF Texts, Authors
<1>2. ASSUME NEW a, NEW b, <<a, b>> \in ({0} \X {0, 1}) \cup (Requests \X (0..MaxChunks))
      PROVE  <<<<a, b>>>> \in Texts /\ Authors(<<<<a, b>>>>) = {a}
  <2>1. DOMAIN <<<<a, b>>>> = {1} /\ <<<<a, b>>>>[1][1] = a
    OBVIOUS
  <2>2. Authors(<<<<a, b>>>>) = {a}
    BY <2>1 DEF Authors
  <2> QED BY <1>2, <2>2 DEF Texts
<1>3. /\ EditedText \in Texts /\ Authors(EditedText) = {0}
      /\ ErrorText \in Texts /\ Authors(ErrorText) = {0}
  BY <1>2 DEF EditedText, ErrorText
<1>4. ASSUME NEW r \in Requests, NEW i \in 1..MaxChunks
      PROVE  <<Letter(r, i)>> \in Texts /\ Authors(<<Letter(r, i)>>) = {r}
  <2>1. MaxChunks \in Nat /\ 1 \in 1..MaxChunks
    BY ChatAssumption
  <2> QED BY <1>2, <2>1 DEF Letter
<1> QED BY <1>1, <1>3, <1>4

(* A new request starts a generation of its own.                           *)
LEMMA SendRefs ==
  ASSUME RefsOK, CanSend, sendChat
  PROVE  /\ chat' \in [gen: Nat, text: Texts, timer: BOOLEAN] /\ stream' \in [gen: Nat, source: Nat]
         /\ net' \in SUBSET Request /\ count' \in Counts /\ next' = [req |-> TRUE, str |-> FALSE]
         /\ stream'.gen = chat'.gen /\ stream'.source = 0 /\ chat'.gen = chat.gen + 1 /\ chat'.text = <<>>
         /\ count'.sends = count.sends + 1
         /\ \E r \in net' : r.gen = chat'.gen /\ r.sgen = r.gen /\ r.req = count'.sends /\ r.kind \in {"headers", "plain"}
                            /\ \A s \in net' : s # r => s \in net /\ s.gen <= chat.gen /\ s.sgen = s.gen
<1>1. PICK mode \in Modes :
        /\ chat' = discardPendingStreamUpdates(chat.gen + 1)
        /\ stream' = Cancelled
        /\ next' = [req |-> TRUE, str |-> FALSE]
        /\ net' = Open \cup {[kind |-> IF mode = "stream" THEN "headers" ELSE "plain",
                              req |-> count.sends + 1, gen |-> chat.gen + 1, sgen |-> stream.gen + 1]}
        /\ count' = [count EXCEPT !.sends = count.sends + 1]
  BY DEF sendChat
<1>2. chat.gen \in Nat /\ stream.gen = chat.gen /\ count.sends + 1 \in Requests /\ count.sends \in 0..MaxSends
  BY ChatAssumption DEF RefsOK, RefTypes, RefsAgree, CanSend, Counts, Requests
<1> DEFINE r == [kind |-> IF mode = "stream" THEN "headers" ELSE "plain",
                 req |-> count.sends + 1, gen |-> chat.gen + 1, sgen |-> stream.gen + 1]
<1>3. r \in Request /\ r.gen = chat.gen + 1 /\ r.sgen = r.gen /\ r.req = count.sends + 1 /\ r.kind \in {"headers", "plain"}
  BY <1>2 DEF Request
<1>4. Open \subseteq net /\ \A s \in net : s \in Request /\ s.gen <= chat.gen /\ s.sgen = s.gen
  BY DEF Open, RefsOK, RefTypes, RefsAgree
<1>5. net' = Open \cup {r}
  BY <1>1
<1>6. chat' = [gen |-> chat.gen + 1, text |-> <<>>, timer |-> FALSE] /\ stream' = [gen |-> stream.gen + 1, source |-> 0]
  BY <1>1 DEF discardPendingStreamUpdates, Cancelled
<1>7. count' \in Counts /\ count'.sends = count.sends + 1
  <2>1. count \in Counts /\ count.sends + 1 \in 0..MaxSends
    BY <1>2, ChatAssumption DEF RefsOK, RefTypes, Requests
  <2> QED BY <1>1, <2>1 DEF Counts
<1> HIDE DEF r
<1>8. net' \in SUBSET Request
  BY <1>3, <1>4, <1>5
<1>9. chat' \in [gen: Nat, text: Texts, timer: BOOLEAN] /\ stream' \in [gen: Nat, source: Nat]
  BY <1>2, <1>6, NewTexts
<1>10. r \in net' /\ \A s \in net' : s # r => s \in net /\ s.gen <= chat.gen /\ s.sgen = s.gen
  BY <1>4, <1>5
<1>11. /\ stream'.gen = chat'.gen /\ stream'.source = 0 /\ chat'.gen = chat.gen + 1 /\ chat'.text = <<>>
  BY <1>2, <1>6
<1> QED BY <1>1, <1>3, <1>7, <1>8, <1>9, <1>10, <1>11

(* The refs agree after a new request.                                     *)
LEMMA SendKeepsRefs ==
  ASSUME RefsOK, CanSend, sendChat, UNCHANGED <<phase, sent>>, fate' \in [Requests -> Fates],
         shown' = shown \/ shown' = next'
  PROVE  RefsOK'
<1>1. PICK r \in net' : r.gen = chat'.gen /\ r.sgen = r.gen /\ r.req = count'.sends /\ r.kind \in {"headers", "plain"}
                        /\ \A s \in net' : s # r => s \in net /\ s.gen <= chat.gen /\ s.sgen = s.gen
  BY SendRefs
<1>2. /\ chat' \in [gen: Nat, text: Texts, timer: BOOLEAN] /\ stream' \in [gen: Nat, source: Nat]
      /\ net' \in SUBSET Request /\ count' \in Counts /\ next' = [req |-> TRUE, str |-> FALSE]
      /\ stream'.gen = chat'.gen /\ stream'.source = 0 /\ chat'.gen = chat.gen + 1 /\ chat'.text = <<>>
      /\ count'.sends = count.sends + 1 /\ chat.gen \in Nat
  BY SendRefs DEF RefsOK, RefTypes
<1>3. next' \in Flag /\ shown' \in Flag /\ next'.req /\ ~next'.str /\ (shown'.str => shown'.req)
  <2>1. next' \in Flag /\ next'.req /\ ~next'.str
    BY <1>2 DEF Flag
  <2>2. shown \in Flag /\ (shown.str => shown.req)
    BY DEF RefsOK, RefTypes, RefsAgree
  <2>3. CASE shown' = shown
    BY <2>1, <2>2, <2>3
  <2>4. CASE shown' = next'
    BY <2>1, <2>4
  <2> QED BY <2>3, <2>4
<1>4. RefTypes'
  BY <1>2, <1>3 DEF RefsOK, RefTypes
<1>5. \A s \in net' : s # r => s.gen <= chat.gen /\ s.gen # chat'.gen /\ s.gen <= chat'.gen /\ s.sgen = s.gen
  <2> SUFFICES ASSUME NEW s \in net', s # r PROVE s.gen <= chat.gen /\ s.gen # chat'.gen /\ s.gen <= chat'.gen /\ s.sgen = s.gen
    OBVIOUS
  <2>1. s.gen \in Nat /\ s.gen <= chat.gen /\ s.sgen = s.gen
    BY <1>1, <1>2 DEF Request
  <2> QED BY <1>2, <2>1
<1>6. /\ \A s \in net' : s.sgen = s.gen /\ s.gen <= chat'.gen /\ (s.gen = chat'.gen => s.req = count'.sends /\ next'.req)
      /\ \A s \in net' : s.gen = chat'.gen => s.kind \notin {"source", "eof"}
      /\ \A s, t \in net' : s.gen = chat'.gen /\ t.gen = chat'.gen => s = t
      /\ Live'
  <2>1. r.gen <= chat'.gen
    BY <1>1, <1>2
  <2> QED BY <1>1, <1>3, <1>5, <2>1 DEF Live
<1>7. phase' # "closed"
  BY DEF CanSend
<1>8. Authors(chat'.text) \subseteq {count'.sends}
  BY <1>2, NewTexts
<1>9. RefsAgree'
  BY <1>2, <1>3, <1>6, <1>7, <1>8 DEF RefsAgree
<1> QED BY <1>4, <1>9 DEF RefsOK

(* A request that ends leaves nothing of its generation behind.            *)
LEMMA EndKeepsRefs ==
  ASSUME RefsOK, NEW r \in net, r.gen = chat.gen, net' = net \ {r}, next' \in Flag, ~next'.req, ~next'.str,
         stream' \in [gen: Nat, source: Nat], stream'.gen = stream.gen, stream'.source \in {0, stream.source},
         chat' = [chat EXCEPT !.text = <<>>, !.timer = FALSE] \/ (chat' = chat /\ chat.text = <<>>),
         sent' \in [Requests -> 0..MaxChunks], UNCHANGED <<phase, shown, count, fate>>
  PROVE  RefsOK'
<1>1. chat' \in [gen: Nat, text: Texts, timer: BOOLEAN] /\ chat'.gen = chat.gen /\ chat'.text = <<>>
  BY NewTexts DEF RefsOK, RefTypes
<1>2. next' \in Flag /\ ~next'.req /\ ~next'.str
  OBVIOUS
<1>3. RefTypes'
  BY <1>1, <1>2 DEF RefsOK, RefTypes
<1>4. phase' # "closed"
  BY DEF RefsOK, RefsAgree
<1>5. \A s \in net' : s \in net /\ s.gen # chat'.gen
  BY <1>1 DEF RefsOK, RefsAgree
<1>6. Authors(chat'.text) \subseteq {count'.sends}
  BY <1>1, NewTexts
<1>7. /\ \A s \in net' : s.sgen = s.gen /\ s.gen <= chat'.gen
  BY <1>1, <1>5 DEF RefsOK, RefsAgree
<1>8. stream'.gen = chat'.gen /\ stream'.source \in {0, stream'.gen} /\ (shown'.str => shown'.req)
  BY <1>1 DEF RefsOK, RefsAgree
<1>9. RefsAgree'
  BY <1>1, <1>2, <1>4, <1>5, <1>6, <1>7, <1>8 DEF RefsAgree
<1> QED BY <1>3, <1>9 DEF RefsOK

(* Only new marks are made on the fate of a request.                       *)
LEMMA MarksAreFates ==
  ASSUME fate \in [Requests -> Fates], NEW rs, NEW f \in Fates
  PROVE  Mark(rs, f) \in [Requests -> Fates]
BY DEF Mark

(* A render shows the flags as they were last set and changes no ref.      *)
LEMMA RenderKeepsRefs ==
  ASSUME RefsOK, UNCHANGED <<phase, chat, stream, net, sent, next>>, shown' \in {shown, next'}, phase = "ready",
         fate' \in [Requests -> Fates], count' \in Counts, count'.sends = count.sends
  PROVE  RefsOK'
<1>1. RefTypes'
  BY DEF RefsOK, RefTypes
<1>2. shown'.str => shown'.req
  <2>1. next.str => next.req
    BY DEF RefsOK, RefsAgree, Streaming
  <2> QED BY <2>1 DEF RefsOK, RefsAgree
<1>3. UNCHANGED <<Live, Streaming>>
  BY DEF Live, Streaming
<1>4. RefsAgree'
  BY <1>2, <1>3 DEF RefsOK, RefsAgree
<1> QED BY <1>1, <1>4 DEF RefsOK

(* Stop and unmount outdate every request.                                 *)
LEMMA OutdateKeepsRefs ==
  ASSUME RefsOK, chat' = [gen |-> chat.gen + 1, text |-> <<>>, timer |-> FALSE], stream' = [gen |-> stream.gen + 1, source |-> 0],
         next' = Idle, shown' = Idle,
         net' \in SUBSET net, fate' \in [Requests -> Fates], UNCHANGED <<count, sent>>, phase' \in {"closed", "ready"},
         phase' = "closed" => net' = {} /\ queue' = <<>>
  PROVE  RefsOK'
<1>1. chat.gen \in Nat /\ stream.gen = chat.gen
  BY DEF RefsOK, RefTypes, RefsAgree
<1>2. chat'.gen = chat.gen + 1 /\ chat'.text = <<>> /\ stream'.gen = stream.gen + 1 /\ stream'.source = 0
  OBVIOUS
<1>3. next' \in Flag /\ ~next'.req /\ ~next'.str /\ shown' = next'
  BY DEF Idle, Flag
<1>4. RefTypes'
  <2>0. chat.gen + 1 \in Nat /\ stream.gen + 1 \in Nat /\ <<>> \in Texts
    BY <1>1, NewTexts
  <2>1. chat' \in [gen: Nat, text: Texts, timer: BOOLEAN] /\ stream' \in [gen: Nat, source: Nat]
    BY <2>0
  <2>2. net' \in SUBSET Request
    BY DEF RefsOK, RefTypes
  <2> QED BY <1>3, <2>1, <2>2 DEF RefsOK, RefTypes
<1>5. \A s \in net' : s.gen \in Nat /\ s.sgen = s.gen /\ s.gen <= chat.gen
  BY DEF RefsOK, RefTypes, RefsAgree, Request
<1>6. \A s \in net' : s.sgen = s.gen /\ s.gen <= chat'.gen /\ s.gen # chat'.gen
  BY <1>1, <1>2, <1>5
<1>7. Authors(chat'.text) \subseteq {count'.sends} /\ chat'.text = <<>>
  BY <1>2, NewTexts
<1>8. stream'.gen = chat'.gen /\ stream'.source = 0
  BY <1>1, <1>2
<1>9. RefsAgree'
  BY <1>3, <1>6, <1>7, <1>8 DEF RefsAgree, Idle
<1> QED BY <1>4, <1>9 DEF RefsOK

(* A callback of a request keeps the refs in agreement.                    *)
LEMMA AnswerKeepsRefs ==
  ASSUME RefsOK, NEW r \in net, Answered(r) \/ onDelta(r)
  PROVE  RefsOK'
<1>1. /\ r \in Request /\ chat \in [gen: Nat, text: Texts, timer: BOOLEAN] /\ stream \in [gen: Nat, source: Nat]
      /\ stream.gen = chat.gen /\ r.sgen = r.gen /\ r.gen \in Nat /\ chat.gen \in Nat /\ r.req \in Requests
      /\ next \in Flag /\ sent \in [Requests -> 0..MaxChunks] /\ phase = "ready"
  BY DEF RefsOK, RefTypes, RefsAgree, Request
<1>2. ASSUME net' = net \ {r}, UNCHANGED <<chat, stream, next, queue, phase, shown, count, sent, fate>>, r.gen # chat.gen
      PROVE  RefsOK'
  <2>1. UNCHANGED <<chat, stream, next, queue>> /\ net' = net \ {r}
    BY <1>2
  <2>2. UNCHANGED <<Live, Streaming>>
    BY <1>2, <2>1 DEF Live, Streaming
  <2>3. RefTypes'
    BY <1>2, <2>1 DEF RefsOK, RefTypes
  <2>4. RefsAgree'
    BY <1>2, <2>1, <2>2 DEF RefsOK, RefsAgree
  <2> QED BY <2>3, <2>4 DEF RefsOK
<1>3. ASSUME NEW u, EndOfRequest(r, u), UNCHANGED <<phase, shown, count, sent, fate>>, r.gen = chat.gen PROVE RefsOK'
  <2>1. /\ net' = net \ {r} /\ next' = [req |-> FALSE, str |-> FALSE]
        /\ chat' = [chat EXCEPT !.text = <<>>, !.timer = FALSE] /\ stream' = [stream EXCEPT !.source = 0]
    BY <1>3 DEF EndOfRequest, Finish, EndedFlags, Flushed
  <2>2. stream' \in [gen: Nat, source: Nat] /\ stream'.gen = stream.gen /\ stream'.source = 0
    BY <1>1, <2>1
  <2>3. next' \in Flag /\ ~next'.req /\ ~next'.str
    BY <2>1 DEF Flag
  <2> QED BY <1>1, <1>3, <2>1, <2>2, <2>3, EndKeepsRefs
<1>4. ASSUME NEW k \in {"source", "eof"}, r.gen = chat.gen, net' = (net \ {r}) \cup {[r EXCEPT !.kind = k]},
             stream' = [stream EXCEPT !.source = r.sgen], next' \in {next, [next EXCEPT !.str = TRUE]},
             UNCHANGED <<phase, shown, queue, chat, count, sent, fate>>
      PROVE  RefsOK'
  <2> DEFINE e == [r EXCEPT !.kind = k]
  <2>1. e \in Request /\ e.kind = k /\ e.gen = r.gen /\ e.sgen = r.sgen /\ e.req = r.req
    BY <1>1, <1>4 DEF Request
  <2> HIDE DEF e
  <2>2. net' = (net \ {r}) \cup {e}
    BY <1>4 DEF e
  <2>3. r.req = count.sends /\ next.req /\ \A s \in net : s # r => s.gen # chat.gen
    BY <1>4 DEF RefsOK, RefsAgree
  <2>4. next' \in Flag /\ next'.req
    BY <1>1, <1>4, <2>3 DEF Flag
  <2>5. stream' \in [gen: Nat, source: Nat] /\ stream'.gen = stream.gen /\ stream'.source = r.sgen
    BY <1>1, <1>4
  <2>6. RefTypes'
    BY <1>4, <2>1, <2>2, <2>4, <2>5 DEF RefsOK, RefTypes
  <2>7. Live' /\ Streaming'
    BY <1>4, <2>1, <2>2 DEF Live, Streaming
  <2>8. \A s \in net' : s.sgen = s.gen /\ s.gen <= chat'.gen /\ (s.gen = chat'.gen => s.req = count'.sends /\ next'.req /\ s = e)
    BY <1>1, <1>4, <2>1, <2>2, <2>3, <2>4 DEF RefsOK, RefsAgree
  <2>9. RefsAgree'
    BY <1>1, <1>4, <2>5, <2>7, <2>8 DEF RefsOK, RefsAgree
  <2> QED BY <2>6, <2>9 DEF RefsOK
<1>5. ASSUME NEW ok \in BOOLEAN, getHeaders(r, ok) PROVE RefsOK'
  <2>1. CASE stream.gen # r.sgen
    BY <1>1, <1>2, <1>5, <2>1 DEF getHeaders, Ignore, Finish
  <2>2. CASE stream.gen = r.sgen /\ ~ok
    BY <1>1, <1>3, <1>5, <2>2 DEF getHeaders
  <2>3. CASE stream.gen = r.sgen /\ ok
    BY <1>1, <1>4, <1>5, <2>3 DEF getHeaders
  <2> QED BY <2>1, <2>2, <2>3
<1>6. ASSUME NEW ok \in BOOLEAN, onStreamEnd(r, ok) PROVE RefsOK'
  <2>1. CASE ~isCurrent(r)
    <3>1. r.gen # chat.gen
      BY <1>1, <1>6, <2>1 DEF isCurrent, onStreamEnd, RefsOK, RefsAgree
    <3> QED BY <1>2, <1>6, <2>1, <3>1 DEF onStreamEnd, Ignore, Finish
  <2>2. CASE isCurrent(r)
    BY <1>1, <1>3, <1>6, <2>2 DEF onStreamEnd, isCurrent
  <2> QED BY <2>1, <2>2
<1>7. ASSUME NEW ok \in BOOLEAN, onPlainResponse(r, ok) PROVE RefsOK'
  <2>1. CASE r.gen # chat.gen
    BY <1>2, <1>7, <2>1 DEF onPlainResponse, Finish
  <2>2. CASE r.gen = chat.gen
    <3>1. ~Streaming /\ ~next.str /\ chat.text = <<>> /\ next.req
      BY <1>7, <2>2 DEF onPlainResponse, Streaming, RefsOK, RefsAgree
    <3>2. next' \in Flag /\ ~next'.req /\ ~next'.str
      <4>1. next' = [next EXCEPT !.req = FALSE]
        BY <1>7, <2>2 DEF onPlainResponse
      <4> QED BY <1>1, <3>1, <4>1 DEF Flag
    <3>3. chat' = [chat EXCEPT !.text = <<>>, !.timer = FALSE] \/ (chat' = chat /\ chat.text = <<>>)
      BY <1>7, <2>2, <3>1 DEF onPlainResponse, Flushed
    <3>4. sent' \in [Requests -> 0..MaxChunks]
      BY <1>1, <1>7, <2>2, ChatAssumption DEF onPlainResponse
    <3>5. net' = net \ {r} /\ UNCHANGED <<stream, phase, shown, count, fate>>
      BY <1>7 DEF onPlainResponse, Finish
    <3> QED BY <1>1, <2>2, <3>2, <3>3, <3>4, <3>5, EndKeepsRefs
  <2> QED BY <2>1, <2>2
<1>8. ASSUME onStreamEof(r) PROVE RefsOK'
  <2>1. r.gen = chat.gen /\ [stream EXCEPT !.source = r.sgen] = stream
    BY <1>1, <1>8 DEF onStreamEof, isCurrent
  <2> QED BY <1>4, <1>8, <2>1 DEF onStreamEof
<1>9. ASSUME onDelta(r) PROVE RefsOK'
  <2> DEFINE letter == Letter(r.req, sent[r.req] + 1)
             text == AppendChunk(chat.text, <<letter>>)
  <2>1. sent[r.req] + 1 \in 1..MaxChunks /\ r.gen = chat.gen /\ r.req = count.sends /\ r.kind = "source"
    BY <1>1, <1>9, ChatAssumption DEF onDelta, RefsOK, RefsAgree
  <2>2. <<letter>> \in Texts /\ Authors(<<letter>>) = {count.sends}
    BY <1>1, <2>1, NewTexts
  <2>3. text \in Texts /\ Authors(text) \subseteq {count.sends}
    <3>1. chat.text \in Texts /\ Authors(chat.text) \subseteq {count.sends}
      BY DEF RefsOK, RefTypes, RefsAgree
    <3> HIDE DEF letter
    <3> QED BY <2>2, <3>1, AppendedText
  <2> HIDE DEF text, letter
  <2>4. /\ chat' = [chat EXCEPT !.text = text, !.timer = TRUE] /\ sent' = [sent EXCEPT ![r.req] = sent[r.req] + 1]
        /\ UNCHANGED <<phase, shown, queue, next, stream, net, count, fate>>
    BY <1>9 DEF onDelta, text, letter
  <2>5. chat' \in [gen: Nat, text: Texts, timer: BOOLEAN] /\ chat'.gen = chat.gen /\ chat'.text = text
    BY <1>1, <2>3, <2>4
  <2>6. sent' \in [Requests -> 0..MaxChunks]
    BY <1>1, <2>1, <2>4, ChatAssumption
  <2>7. RefTypes'
    BY <2>4, <2>5, <2>6 DEF RefsOK, RefTypes
  <2>8. Live' /\ Streaming'
    BY <2>1, <2>4, <2>5 DEF Live, Streaming
  <2>9. RefsAgree'
    BY <1>1, <2>3, <2>4, <2>5, <2>8 DEF RefsOK, RefsAgree
  <2> QED BY <2>7, <2>9 DEF RefsOK
<1> QED BY <1>5, <1>6, <1>7, <1>8, <1>9 DEF Answered

(* Every step keeps the refs in agreement.                                 *)
LEMMA RefsStep ==
  ASSUME RefsOK, [Next]_vars
  PROVE  RefsOK'
<1>1. CASE UNCHANGED vars
  BY <1>1 DEF vars, RefsOK, RefTypes, RefsAgree, Live, Streaming
<1>2. CASE ServerStep
  BY <1>2, AnswerKeepsRefs DEF ServerStep
<1>3. CASE FlushTimer
  <2>0. chat \in [gen: Nat, text: Texts, timer: BOOLEAN] /\ phase = "ready"
    BY <1>3 DEF FlushTimer, RefsOK, RefTypes
  <2>1. /\ chat' = [chat EXCEPT !.text = <<>>, !.timer = FALSE]
        /\ UNCHANGED <<phase, shown, next, stream, net, count, sent, fate>>
    BY <1>3 DEF FlushTimer, Flushed
  <2>2. chat' \in [gen: Nat, text: Texts, timer: BOOLEAN] /\ chat'.gen = chat.gen /\ chat'.text = <<>>
    BY <2>0, <2>1, NewTexts
  <2>3. UNCHANGED <<Live, Streaming>>
    BY <2>1, <2>2 DEF Live, Streaming
  <2>4. RefTypes'
    BY <2>1, <2>2 DEF RefsOK, RefTypes
  <2>5. RefsAgree'
    BY <2>0, <2>1, <2>2, <2>3, NewTexts DEF RefsOK, RefsAgree
  <2> QED BY <2>4, <2>5 DEF RefsOK
<1>4. CASE Render
  <2>1. fate \in [Requests -> Fates] /\ count \in Counts
    BY DEF RefsOK, RefTypes
  <2> QED BY <1>4, <2>1, RenderKeepsRefs DEF Render, RenderAll
<1>5. ASSUME handleSendMessage PROVE RefsOK'
  <2>1. fate \in [Requests -> Fates]
    BY DEF RefsOK, RefTypes
  <2> QED BY <1>5, <2>1, SendKeepsRefs DEF handleSendMessage
<1>6. ASSUME NEW i \in DOMAIN messages, handleRegenerateMessage(i) PROVE RefsOK'
  <2>1. fate \in [Requests -> Fates]
    BY DEF RefsOK, RefTypes
  <2>2. shown' = next'
    BY <1>6 DEF handleRegenerateMessage, ClickRenders, RenderAll
  <2> QED BY <1>6, <2>1, <2>2, SendKeepsRefs DEF handleRegenerateMessage
<1>7. ASSUME stopGeneration PROVE RefsOK'
  <2>1. Mark({count.sends}, "cut") \in [Requests -> Fates]
    BY MarksAreFates DEF RefsOK, RefTypes, Fates
  <2>2. shown' = next'
    BY <1>7 DEF stopGeneration, ClickRenders, RenderAll
  <2>3. Open \subseteq net
    BY DEF Open
  <2>4. /\ chat' = [gen |-> chat.gen + 1, text |-> <<>>, timer |-> FALSE] /\ stream' = [gen |-> stream.gen + 1, source |-> 0]
        /\ next' = Idle /\ net' = Open /\ UNCHANGED <<phase, count, sent>> /\ fate' = Mark({count.sends}, "cut") /\ phase = "ready"
    BY <1>7 DEF stopGeneration, discardPendingStreamUpdates, Cancelled
  <2> QED BY <2>1, <2>2, <2>3, <2>4, OutdateKeepsRefs
<1>8. ASSUME cancelEdit PROVE RefsOK'
  <2>1. fate \in [Requests -> Fates] /\ count \in Counts
    BY DEF RefsOK, RefTypes
  <2> QED BY <1>8, <2>1, RenderKeepsRefs DEF cancelEdit, ClickRenders, RenderAll
<1>9. ASSUME CountEdit PROVE count' \in Counts /\ count'.sends = count.sends
  <2>1. count \in Counts
    BY DEF RefsOK, RefTypes
  <2> QED BY <1>9, <2>1 DEF CountEdit, Counts
<1>10. ASSUME handleClearMessages PROVE RefsOK'
  <2>1. fate \in [Requests -> Fates]
    BY DEF RefsOK, RefTypes
  <2> QED BY <1>9, <1>10, <2>1, RenderKeepsRefs DEF handleClearMessages, ClickRenders, RenderAll
<1>11. ASSUME NEW i \in DOMAIN messages, handleEditMessage(i) \/ handleDeleteMessage(i) PROVE RefsOK'
  <2>1. fate \in [Requests -> Fates]
    BY DEF RefsOK, RefTypes
  <2> QED BY <1>9, <1>11, <2>1, RenderKeepsRefs DEF handleEditMessage, handleDeleteMessage, ClickRenders, RenderAll
<1>12. ASSUME NEW i \in DOMAIN messages, NEW submit \in BOOLEAN, applyEdit(i, submit) PROVE RefsOK'
  <2>0. fate \in [Requests -> Fates] /\ count \in Counts
    BY DEF RefsOK, RefTypes
  <2>1. CASE submit /\ messages[i].from = "user"
    <3>1. CanSend /\ sendChat /\ UNCHANGED <<phase, sent, fate>> /\ shown' = next'
      BY <1>12, <2>1 DEF applyEdit, ClickRenders, RenderAll
    <3> QED BY <2>0, <3>1, SendKeepsRefs
  <2>2. CASE ~(submit /\ messages[i].from = "user")
    <3>1. /\ UNCHANGED <<next, chat, stream, net, count, phase, sent>> /\ shown' = next' /\ phase = "ready"
          /\ \E rs : fate' = Mark(rs, "overwritten")
      BY <1>12, <2>2 DEF applyEdit, ClickRenders, RenderAll
    <3>2. fate' \in [Requests -> Fates]
      BY <2>0, <3>1, MarksAreFates DEF Fates
    <3> QED BY <2>0, <3>1, <3>2, RenderKeepsRefs
  <2> QED BY <2>1, <2>2
<1>13. ASSUME Unmount \/ CloseTab PROVE RefsOK'
  <2>1. /\ chat' = [gen |-> chat.gen + 1, text |-> <<>>, timer |-> FALSE] /\ stream' = [gen |-> stream.gen + 1, source |-> 0]
        /\ next' = Idle /\ shown' = Idle /\ net' = {} /\ queue' = <<>> /\ phase' = "closed" /\ UNCHANGED <<count, sent, fate>>
    BY <1>13 DEF Unmount, CloseTab, Closed, discardPendingStreamUpdates, Cancelled
  <2>2. fate \in [Requests -> Fates]
    BY DEF RefsOK, RefTypes
  <2> QED BY <2>1, <2>2, OutdateKeepsRefs
<1>14. ASSUME Mount PROVE RefsOK'
  <2>1. /\ phase' = "ready" /\ UNCHANGED <<shown, queue, next, chat, stream, net, sent>>
        /\ count' = [count EXCEPT !.mounts = @ + 1] /\ (fate' = fate \/ \E rs : fate' = Mark(rs, "cut"))
    BY <1>14 DEF Mount, DropHistory
  <2>2. count' \in Counts /\ count'.sends = count.sends
    BY <2>1 DEF RefsOK, RefTypes, Counts
  <2>3. fate' \in [Requests -> Fates]
    BY <2>1, MarksAreFates DEF RefsOK, RefTypes, Fates
  <2>4. UNCHANGED <<Live, Streaming>>
    BY <2>1 DEF Live, Streaming
  <2>5. RefTypes'
    BY <2>1, <2>2, <2>3 DEF RefsOK, RefTypes
  <2>6. RefsAgree'
    BY <2>1, <2>2, <2>4 DEF RefsOK, RefsAgree
  <2> QED BY <2>5, <2>6 DEF RefsOK
<1>15. ASSUME SaveTimer PROVE RefsOK'
  BY <1>15 DEF SaveTimer, RefsOK, RefTypes, RefsAgree, Live, Streaming
<1>16. ASSUME onSelectPrompt PROVE RefsOK'
  <2>1. fate \in [Requests -> Fates]
    BY DEF RefsOK, RefTypes
  <2>2. shown' = next'
    BY <1>16 DEF onSelectPrompt, ClickRenders, RenderAll
  <2> QED BY <1>16, <2>1, <2>2, SendKeepsRefs DEF onSelectPrompt
<1> QED BY <1>1, <1>2, <1>3, <1>4, <1>5, <1>6, <1>7, <1>8, <1>10, <1>11, <1>12, <1>13, <1>14, <1>15, <1>16
        DEF Next, UserStep, PageStep

(* The refs agree in every reachable state.                                *)
LEMMA RefsInvariant == Spec => []RefsOK
<1>1. Init => RefsOK
  <2> SUFFICES ASSUME Init PROVE RefsOK
    OBVIOUS
  <2>1. /\ phase = "ready" /\ queue = <<>> /\ shown = Idle /\ next = Idle /\ net = {}
        /\ chat = [gen |-> 0, text |-> <<>>, timer |-> FALSE] /\ stream = [gen |-> 0, source |-> 0]
        /\ count = [sends |-> 0, mounts |-> 1, edits |-> 0] /\ sent = [r \in Requests |-> 0] /\ fate = [r \in Requests |-> "whole"]
    BY DEF Init
  <2>2. Idle \in Flag /\ ~Idle.req /\ ~Idle.str
    BY DEF Idle, Flag
  <2>3. RefTypes
    BY <2>1, <2>2, NewTexts, ChatAssumption DEF RefTypes, Counts, Fates
  <2>4. RefsAgree
    BY <2>1, <2>2, NewTexts DEF RefsAgree
  <2> QED BY <2>3, <2>4 DEF RefsOK
<1> QED BY <1>1, RefsStep, PTL DEF Spec

-----------------------------------------------------------------------------
(* Lists of messages.                                                      *)
MessageRow == [from: {"user", "assistant"}, req: Requests, text: Texts,
               status: {"none", "loading", "streaming", "complete", "error"}]

Lost == {r \in Requests : fate[r] = "overwritten"}
OwnText(ms, lost) == \A i \in DOMAIN ms : Authors(ms[i].text) \subseteq {0, ms[i].req} \cup lost
(* Only the last message is being answered.                                *)
SpinLast(ms, lost) == \A i \in DOMAIN ms : isAssistantMessagePending(ms[i]) /\ ms[i].req \notin lost => i = Len(ms)
(* No message is being answered.                                           *)
Calm(ms, lost) == \A i \in DOMAIN ms : isAssistantMessagePending(ms[i]) => ms[i].req \in lost
Upto(ms, n) == \A i \in DOMAIN ms : ms[i].req <= n
Good(ms, lost, n) == ms \in Messages /\ OwnText(ms, lost) /\ SpinLast(ms, lost) /\ Upto(ms, n)
(* The list ends with the answer to request n.                             *)
Answering(ms, n) == ms # <<>> /\ Last(ms).from = "assistant" /\ Last(ms).req = n
(* What is written for request n into the last message belongs there.      *)
AtLast(ms, n, lost) == ms = <<>> \/ Last(ms).from # "assistant" \/ Last(ms).req = n \/ {n, Last(ms).req} \subseteq lost
Settled(ms) == ms = <<>> \/ ~isAssistantMessagePending(Last(ms))

Replies == {"chunk", "complete", "error", "answer"}
SetUpdate == [op: {"set"}, msgs: Messages, ran: BOOLEAN]
ReplyUpdate == [op: Replies \cup {"stop"}, gen: Nat, text: Texts, ran: BOOLEAN]
DeleteUpdate == [op: {"delete"}, key: {"user", "assistant"} \X Requests, ran: BOOLEAN]
Updates == SetUpdate \cup ReplyUpdate \cup DeleteUpdate
IsSet(u) == u.op = "set"
Ends(u) == u.op \in {"complete", "error", "answer"}

(* What a callback makes of the message it answers.                        *)
NewMessage(m, u) ==
  IF u.op = "chunk" THEN applyStreamingChunk(m, u.text)
  ELSE IF u.op = "complete" THEN IF isAssistantMessageFinal(m) THEN m ELSE completeAssistantMessage(m)
  ELSE IF u.op = "stop" THEN IF isAssistantMessagePending(m) THEN completeAssistantMessage(m) ELSE m
  ELSE IF u.op = "error" THEN [m EXCEPT !.status = "error", !.text = ErrorText]
  ELSE applyChatCompletionResponse(m, u.text)

(* What is known of a list.                                                *)
LEMMA ListFacts ==
  ASSUME NEW ms \in Messages
  PROVE  /\ DOMAIN ms = 1..Len(ms) /\ Len(ms) \in Nat /\ \A i \in DOMAIN ms : ms[i] \in MessageRow
         /\ ms # <<>> => Len(ms) \in DOMAIN ms /\ Last(ms) = ms[Len(ms)] /\ Last(ms) \in MessageRow
<1>1. ms \in Seq(MessageRow)
  BY DEF Messages, MessageRow
<1>2. DOMAIN ms = 1..Len(ms) /\ Len(ms) \in Nat /\ \A i \in DOMAIN ms : ms[i] \in MessageRow
  BY <1>1
<1>3. ASSUME ms # <<>> PROVE Len(ms) \in DOMAIN ms
  BY <1>1, <1>2, <1>3
<1> QED BY <1>2, <1>3 DEF Last

(* A list whose last message is replaced.                                  *)
Replaced(x, ms, m) == x = [ms EXCEPT ![Len(ms)] = m]

(* It differs from the old one in the last message only.                   *)
LEMMA LastReplaced ==
  ASSUME NEW ms \in Messages, ms # <<>>, NEW m \in MessageRow, NEW x, Replaced(x, ms, m)
  PROVE  /\ x \in Messages /\ Len(x) = Len(ms) /\ x # <<>> /\ Last(x) = m /\ DOMAIN x = DOMAIN ms
         /\ \A i \in DOMAIN x : x[i] = IF i = Len(x) THEN m ELSE ms[i]
<1>1. ms \in Seq(MessageRow) /\ Len(ms) \in DOMAIN ms /\ DOMAIN ms = 1..Len(ms) /\ Len(ms) \in Nat
  BY ListFacts DEF Messages, MessageRow
<1>2. x \in Seq(MessageRow) /\ DOMAIN x = DOMAIN ms /\ Len(x) = Len(ms)
  BY <1>1, ExceptSeq DEF Replaced
<1>3. \A i \in DOMAIN x : x[i] = IF i = Len(x) THEN m ELSE ms[i]
  BY <1>1, <1>2 DEF Replaced
<1>4. x # <<>> /\ Last(x) = m
  BY <1>1, <1>2, <1>3 DEF Last
<1> QED BY <1>2, <1>3, <1>4 DEF Messages, MessageRow

(* A callback changes the last message or nothing.                         *)
LEMMA ReplyResult ==
  ASSUME NEW ms, NEW u, u.op \in Replies \cup {"stop"}, NEW gen
  PROVE  RunUpdater(ms, u, gen) =
           IF Stale(u, gen) \/ ms = <<>> \/ Last(ms).from # "assistant" THEN ms
           ELSE [ms EXCEPT ![Len(ms)] = NewMessage(Last(ms), u)]
<1>1. CASE Stale(u, gen)
  BY <1>1 DEF RunUpdater
<1> DEFINE x == IF ms = <<>> \/ Last(ms).from # "assistant" THEN ms ELSE [ms EXCEPT ![Len(ms)] = NewMessage(Last(ms), u)]
<1>2. ASSUME ~Stale(u, gen), u.op = "chunk" PROVE RunUpdater(ms, u, gen) = x
  BY <1>2 DEF RunUpdater, updateLastAssistantMessage, NewMessage, Last
<1>3. ASSUME ~Stale(u, gen), u.op = "complete" PROVE RunUpdater(ms, u, gen) = x
  BY <1>3 DEF RunUpdater, updateLastAssistantMessage, NewMessage, Last
<1>4. ASSUME ~Stale(u, gen), u.op = "stop" PROVE RunUpdater(ms, u, gen) = x
  BY <1>4 DEF RunUpdater, updateLastAssistantMessage, NewMessage, Last
<1>5. ASSUME ~Stale(u, gen), u.op = "error" PROVE RunUpdater(ms, u, gen) = x
  BY <1>5 DEF RunUpdater, updateLastAssistantMessage, updateAssistantMessageWithError, NewMessage, Last
<1>6. ASSUME ~Stale(u, gen), u.op = "answer" PROVE RunUpdater(ms, u, gen) = x
  BY <1>6 DEF RunUpdater, updateLastAssistantMessage, NewMessage, Last
<1> QED BY <1>1, <1>2, <1>3, <1>4, <1>5, <1>6 DEF Replies

(* The message a callback leaves answers the same request, and its letters *)
(* come from the message, from the callback or from the page.              *)
LEMMA NewMessageFacts ==
  ASSUME NEW m \in MessageRow, NEW u, u.op \in Replies \cup {"stop"}, u.text \in Texts
  PROVE  /\ NewMessage(m, u) \in MessageRow /\ NewMessage(m, u).from = m.from /\ NewMessage(m, u).req = m.req
         /\ Authors(NewMessage(m, u).text) \subseteq Authors(m.text) \cup Authors(u.text) \cup {0}
         /\ Ends(u) \/ u.op = "stop" => ~isAssistantMessagePending(NewMessage(m, u))
<1> DEFINE n == NewMessage(m, u)
<1>0. m.text \in Texts /\ u.text \in Texts
  BY DEF MessageRow
<1>1. CASE u.op = "chunk"
  <2> DEFINE t == AppendChunk(m.text, u.text)
  <2>1. t \in Texts /\ Authors(t) \subseteq Authors(m.text) \cup Authors(u.text)
    BY <1>0, AppendedText
  <2> HIDE DEF t
  <2>2. n = IF m.status = "error" THEN m ELSE [m EXCEPT !.text = t, !.status = "streaming"]
    BY <1>1 DEF NewMessage, applyStreamingChunk, t
  <2> HIDE DEF n
  <2>3. n \in MessageRow /\ n.from = m.from /\ n.req = m.req /\ n.text \in {m.text, t}
    BY <2>1, <2>2 DEF MessageRow
  <2>4. ~Ends(u) /\ u.op # "stop"
    BY <1>1 DEF Ends
  <2> QED BY <2>1, <2>3, <2>4 DEF n
<1>2. CASE u.op \in {"complete", "stop"}
  <2>1. n = m \/ n = [m EXCEPT !.status = "complete"]
    BY <1>2 DEF NewMessage, completeAssistantMessage
  <2>2. ~isAssistantMessagePending(n)
    BY <1>2 DEF NewMessage, completeAssistantMessage, isAssistantMessagePending, isAssistantMessageFinal, MessageRow
  <2> HIDE DEF n
  <2>3. n \in MessageRow /\ n.from = m.from /\ n.req = m.req /\ n.text = m.text
    BY <2>1 DEF MessageRow
  <2> QED BY <2>2, <2>3 DEF n
<1>3. CASE u.op \in {"error", "answer"}
  <2>1. n = [m EXCEPT !.status = "error", !.text = ErrorText] \/ n = [m EXCEPT !.status = "complete", !.text = u.text]
    BY <1>3 DEF NewMessage, applyChatCompletionResponse
  <2> HIDE DEF n
  <2>2. /\ n \in MessageRow /\ n.from = m.from /\ n.req = m.req /\ n.text \in {ErrorText, u.text}
        /\ n.status \in {"error", "complete"}
    BY <1>0, <2>1, NewTexts DEF MessageRow
  <2>3. ~isAssistantMessagePending(n) /\ Authors(n.text) \subseteq Authors(u.text) \cup {0}
    BY <2>2, NewTexts DEF isAssistantMessagePending
  <2> QED BY <2>2, <2>3 DEF n
<1> QED BY <1>1, <1>2, <1>3 DEF Replies

(* A callback leaves a list whose last message answers the same request;   *)
(* one that ends the answer leaves no spinner there.                       *)
LEMMA ReplyKeepsLast ==
  ASSUME NEW ms \in Messages, NEW u, u.op \in Replies \cup {"stop"}, u.text \in Texts, NEW gen,
         NEW x, x = RunUpdater(ms, u, gen)
  PROVE  /\ x \in Messages /\ (x = <<>> <=> ms = <<>>) /\ Len(x) = Len(ms) /\ DOMAIN x = DOMAIN ms
         /\ ms # <<>> => Last(x).from = Last(ms).from /\ Last(x).req = Last(ms).req
         /\ \A i \in DOMAIN x : i # Len(x) => x[i] = ms[i]
         /\ (Ends(u) \/ u.op = "stop") /\ ~Stale(u, gen) => Settled(x)
<1>1. CASE Stale(u, gen) \/ ms = <<>> \/ Last(ms).from # "assistant"
  <2>1. x = ms
    BY <1>1, ReplyResult
  <2> QED BY <1>1, <2>1 DEF Settled, isAssistantMessagePending
<1>2. CASE ~(Stale(u, gen) \/ ms = <<>> \/ Last(ms).from # "assistant")
  <2> DEFINE m == NewMessage(Last(ms), u)
  <2>1. Replaced(x, ms, m) /\ ms # <<>>
    BY <1>2, ReplyResult DEF Replaced
  <2>2. Last(ms) \in MessageRow
    BY <2>1, ListFacts
  <2>3. m \in MessageRow /\ m.from = Last(ms).from /\ m.req = Last(ms).req
        /\ (Ends(u) \/ u.op = "stop" => ~isAssistantMessagePending(m))
    BY <2>2, NewMessageFacts
  <2> HIDE DEF m
  <2>4. /\ x \in Messages /\ Len(x) = Len(ms) /\ x # <<>> /\ Last(x) = m /\ DOMAIN x = DOMAIN ms
        /\ \A i \in DOMAIN x : x[i] = IF i = Len(x) THEN m ELSE ms[i]
    BY <2>1, <2>3, LastReplaced
  <2> QED BY <2>1, <2>3, <2>4 DEF Settled
<1> QED BY <1>1, <1>2

(* A callback of request n writes its own text.                            *)
LEMMA GoodReply ==
  ASSUME NEW ms, NEW lost, NEW n \in Nat, Good(ms, lost, n), NEW u, u.op \in Replies \cup {"stop"}, u.text \in Texts,
         NEW gen, NEW x, x = RunUpdater(ms, u, gen),
         Stale(u, gen) \/ (Authors(u.text) \subseteq {n} /\ AtLast(ms, n, lost))
  PROVE  Good(x, lost, n)
<1>0. ms \in Messages /\ OwnText(ms, lost) /\ SpinLast(ms, lost) /\ Upto(ms, n)
  BY DEF Good
<1>1. CASE Stale(u, gen) \/ ms = <<>> \/ Last(ms).from # "assistant"
  BY <1>1, ReplyResult
<1>2. CASE ~(Stale(u, gen) \/ ms = <<>> \/ Last(ms).from # "assistant")
  <2> DEFINE m == NewMessage(Last(ms), u)
  <2>1. Replaced(x, ms, m) /\ ms # <<>>
    BY <1>2, ReplyResult DEF Replaced
  <2>2. Last(ms) \in MessageRow /\ Last(ms) = ms[Len(ms)] /\ Len(ms) \in DOMAIN ms
    BY <1>0, <2>1, ListFacts
  <2>3. m \in MessageRow /\ m.req = Last(ms).req
        /\ Authors(m.text) \subseteq Authors(Last(ms).text) \cup Authors(u.text) \cup {0}
    BY <2>2, NewMessageFacts
  <2> HIDE DEF m
  <2>4. /\ x \in Messages /\ Len(x) = Len(ms) /\ DOMAIN x = DOMAIN ms
        /\ \A i \in DOMAIN x : x[i] = IF i = Len(x) THEN m ELSE ms[i]
    BY <1>0, <2>1, <2>3, LastReplaced
  <2>5. Authors(m.text) \subseteq {0, m.req} \cup lost
    <3>1. Authors(Last(ms).text) \subseteq {0, m.req} \cup lost
      BY <1>0, <2>2, <2>3 DEF OwnText
    <3>2. n = m.req \/ n \in lost
      BY <1>2, <2>3 DEF AtLast
    <3> QED BY <1>2, <2>3, <3>1, <3>2
  <2>6. OwnText(x, lost)
    BY <1>0, <2>4, <2>5 DEF OwnText
  <2>7. SpinLast(x, lost)
    BY <1>0, <2>4 DEF SpinLast
  <2>8. Upto(x, n)
    BY <1>0, <2>2, <2>3, <2>4 DEF Upto
  <2> QED BY <2>4, <2>6, <2>7, <2>8 DEF Good
<1> QED BY <1>1, <1>2

(* A list stays good when requests are added or given up.                  *)
LEMMA GoodMonotone ==
  ASSUME NEW ms, NEW lost, NEW n \in Nat, Good(ms, lost, n), NEW lost2, lost \subseteq lost2, NEW n2 \in Nat, n <= n2
  PROVE  Good(ms, lost2, n2)
<1>1. ms \in Messages
  BY DEF Good
<1>2. \A i \in DOMAIN ms : ms[i].req \in Nat
  BY <1>1, ListFacts, ChatAssumption DEF MessageRow, Requests
<1> QED BY <1>2 DEF Good, OwnText, SpinLast, Upto

(* A settled list shows no spinner.                                        *)
LEMMA SettledIsCalm ==
  ASSUME NEW ms, NEW lost, NEW n \in Nat, Good(ms, lost, n), Settled(ms)
  PROVE  Calm(ms, lost)
<1>1. ms \in Messages /\ SpinLast(ms, lost)
  BY DEF Good
<1>2. CASE ms = <<>>
  BY <1>2 DEF Calm
<1>3. CASE ms # <<>>
  BY <1>1, <1>3, ListFacts DEF Calm, Settled, SpinLast
<1> QED BY <1>2, <1>3

-----------------------------------------------------------------------------
(* The lists the page makes of others.  A calm list is one without spinner. *)
CalmList(ms, lost, n) == Good(ms, lost, n) /\ Calm(ms, lost)

(* A list with one more message.                                           *)
Extended(x, p, m) == x = p \o <<m>>

(* Its messages are those of the list and the new one.                     *)
LEMMA Appended ==
  ASSUME NEW p \in Messages, NEW m \in MessageRow, NEW x, Extended(x, p, m)
  PROVE  /\ x \in Messages /\ Len(x) = Len(p) + 1 /\ x # <<>> /\ Last(x) = m
         /\ \A i \in DOMAIN x : IF i = Len(x) THEN x[i] = m ELSE i \in DOMAIN p /\ x[i] = p[i]
<1>1. p \in Seq(MessageRow) /\ <<m>> \in Seq(MessageRow) /\ Len(<<m>>) = 1
  BY DEF Messages, MessageRow
<1>2. DOMAIN p = 1..Len(p) /\ Len(p) \in Nat
  BY <1>1
<1>3. x \in Seq(MessageRow) /\ Len(x) = Len(p) + 1 /\ DOMAIN x = 1..Len(x)
  BY <1>1 DEF Extended
<1>4. \A i \in 1..(Len(p) + 1) : x[i] = IF i <= Len(p) THEN p[i] ELSE <<m>>[i - Len(p)]
  BY <1>1 DEF Extended
<1>5. \A i \in DOMAIN x : IF i = Len(x) THEN x[i] = m ELSE i \in DOMAIN p /\ x[i] = p[i]
  <2> SUFFICES ASSUME NEW i \in DOMAIN x PROVE IF i = Len(x) THEN x[i] = m ELSE i \in DOMAIN p /\ x[i] = p[i]
    OBVIOUS
  <2>1. CASE i = Len(x)
    BY <1>2, <1>3, <1>4, <2>1
  <2>2. CASE i # Len(x)
    BY <1>2, <1>3, <1>4, <2>2
  <2> QED BY <2>1, <2>2
<1>6. x # <<>> /\ Len(x) \in DOMAIN x
  BY <1>2, <1>3
<1>7. x \in Messages
  BY <1>3 DEF Messages, MessageRow
<1>8. Last(x) = m
  BY <1>5, <1>6 DEF Last
<1> QED BY <1>3, <1>5, <1>6, <1>7, <1>8

(* A calm list with the message of a new request stays good, and calm      *)
(* unless the message is the answer.                                       *)
LEMMA AppendedGood ==
  ASSUME NEW p, NEW lost, NEW n \in Nat, CalmList(p, lost, n), NEW m \in MessageRow,
         NEW n2 \in Nat, n <= n2, m.req <= n2, Authors(m.text) \subseteq {0, m.req},
         NEW x, Extended(x, p, m)
  PROVE  /\ Good(x, lost, n2) /\ x # <<>> /\ Last(x) = m
         /\ ~isAssistantMessagePending(m) => CalmList(x, lost, n2)
<1>1. Good(p, lost, n2) /\ Calm(p, lost) /\ p \in Messages
  BY GoodMonotone DEF CalmList, Good
<1>2. /\ x \in Messages /\ x # <<>> /\ Last(x) = m
      /\ \A i \in DOMAIN x : IF i = Len(x) THEN x[i] = m ELSE i \in DOMAIN p /\ x[i] = p[i]
  BY <1>1, Appended
<1> HIDE DEF CalmList
<1>3. OwnText(x, lost) /\ Upto(x, n2)
  BY <1>1, <1>2 DEF Good, OwnText, Upto
<1>4. SpinLast(x, lost)
  BY <1>1, <1>2 DEF SpinLast, Calm
<1>5. ~isAssistantMessagePending(m) => Calm(x, lost)
  BY <1>1, <1>2 DEF Calm
<1> QED BY <1>2, <1>3, <1>4, <1>5 DEF Good, CalmList

(* A list cut after its message k.                                         *)
CutAfter(x, ms, k) == x = SubSeq(ms, 1, k)

(* It is as good as the list was.                                          *)
LEMMA PrefixGood ==
  ASSUME NEW ms, NEW lost, NEW n \in Nat, Good(ms, lost, n), NEW k \in 0..Len(ms),
         NEW x, CutAfter(x, ms, k)
  PROVE  /\ x \in Messages /\ Len(x) = k /\ Good(x, lost, n)
         /\ \A i \in DOMAIN x : i \in DOMAIN ms /\ x[i] = ms[i]
         /\ Calm(ms, lost) => Calm(x, lost)
<1>1. ms \in Messages /\ OwnText(ms, lost) /\ SpinLast(ms, lost) /\ Upto(ms, n)
  BY DEF Good
<1>2. ms \in Seq(MessageRow) /\ DOMAIN ms = 1..Len(ms) /\ Len(ms) \in Nat /\ k \in Nat /\ k <= Len(ms)
  BY <1>1, ListFacts DEF Messages, MessageRow
<1>3. Len(x) = k /\ DOMAIN x = 1..k /\ \A i \in 1..k : x[i] = ms[i]
  BY <1>2 DEF CutAfter
<1>4. \A i \in DOMAIN x : i \in DOMAIN ms /\ x[i] = ms[i]
  BY <1>2, <1>3
<1>5. x \in Seq(MessageRow)
  BY <1>2, SubSeqProperties DEF CutAfter
<1>6. x \in Messages
  BY <1>5 DEF Messages, MessageRow
<1>7. OwnText(x, lost) /\ Upto(x, n) /\ (Calm(ms, lost) => Calm(x, lost))
  BY <1>1, <1>4 DEF OwnText, Upto, Calm
<1>8. SpinLast(x, lost)
  BY <1>1, <1>2, <1>3, <1>4 DEF SpinLast
<1> QED BY <1>3, <1>4, <1>6, <1>7, <1>8 DEF Good

(* A list whose first messages are cut off, the last one being kept.       *)
LEMMA LastGood ==
  ASSUME NEW ms, NEW lost, NEW n \in Nat, Good(ms, lost, n), NEW kept \in Nat \ {0}
  PROVE  /\ Good(LastOf(ms, kept), lost, n)
         /\ \A i \in DOMAIN LastOf(ms, kept) : \E j \in DOMAIN ms : LastOf(ms, kept)[i] = ms[j]
<1>1. ms \in Messages /\ OwnText(ms, lost) /\ SpinLast(ms, lost) /\ Upto(ms, n)
  BY DEF Good
<1>2. ms \in Seq(MessageRow) /\ DOMAIN ms = 1..Len(ms) /\ Len(ms) \in Nat
  BY <1>1, ListFacts DEF Messages, MessageRow
<1> DEFINE k == IF Len(ms) > kept THEN Len(ms) - kept + 1 ELSE 1
           x == SubSeq(ms, k, Len(ms))
<1>3. k \in 1..(Len(ms) + 1)
  BY <1>2
<1>4. x = LastOf(ms, kept)
  BY DEF LastOf
<1> HIDE DEF k
<1>5. x \in Seq(MessageRow) /\ Len(x) = Len(ms) - k + 1 /\ \A i \in 1..Len(x) : x[i] = ms[k + i - 1]
  BY <1>2, <1>3, SubSeqProperties
<1> HIDE DEF x
<1>6. \A i \in DOMAIN x : k + i - 1 \in DOMAIN ms /\ x[i] = ms[k + i - 1] /\ (k + i - 1 = Len(ms) => i = Len(x))
  BY <1>2, <1>3, <1>5
<1>7. OwnText(x, lost) /\ Upto(x, n) /\ SpinLast(x, lost)
  BY <1>1, <1>6 DEF OwnText, Upto, SpinLast
<1>8. x \in Messages
  BY <1>5 DEF Messages, MessageRow
<1> QED BY <1>4, <1>6, <1>7, <1>8 DEF Good

(* A list as it is trimmed for the storage.                                *)
LEMMA SuffixGood ==
  ASSUME NEW ms, NEW lost, NEW n \in Nat, Good(ms, lost, n)
  PROVE  /\ Good(trimMessages(ms), lost, n)
         /\ \A i \in DOMAIN trimMessages(ms) : \E j \in DOMAIN ms : trimMessages(ms)[i] = ms[j]
BY LastGood, ChatAssumption DEF trimMessages

(* A list with the text of one message replaced by the user's.             *)
LEMMA EditedGood ==
  ASSUME NEW ms, NEW lost, NEW n \in Nat, Good(ms, lost, n), NEW i \in DOMAIN ms,
         NEW x, x = [ms EXCEPT ![i].text = EditedText]
  PROVE  /\ Good(x, lost, n) /\ Len(x) = Len(ms) /\ DOMAIN x = DOMAIN ms /\ x # <<>> /\ ms # <<>>
         /\ \A j \in DOMAIN x : x[j].from = ms[j].from /\ x[j].req = ms[j].req /\ x[j].status = ms[j].status
<1>1. ms \in Messages /\ OwnText(ms, lost) /\ SpinLast(ms, lost) /\ Upto(ms, n)
  BY DEF Good
<1>2. ms \in Seq(MessageRow) /\ DOMAIN ms = 1..Len(ms) /\ Len(ms) \in Nat /\ ms[i] \in MessageRow
  BY <1>1, ListFacts DEF Messages, MessageRow
<1> DEFINE m == [ms[i] EXCEPT !.text = EditedText]
<1>3. m \in MessageRow /\ m.from = ms[i].from /\ m.req = ms[i].req /\ m.status = ms[i].status /\ m.text = EditedText
  BY <1>2, NewTexts DEF MessageRow
<1>4. x = [ms EXCEPT ![i] = m]
  OBVIOUS
<1> HIDE DEF m
<1>5. x \in Seq(MessageRow) /\ DOMAIN x = DOMAIN ms /\ Len(x) = Len(ms)
  BY <1>2, <1>3, <1>4, ExceptSeq
<1>6. \A j \in DOMAIN x : x[j] = IF j = i THEN m ELSE ms[j]
  BY <1>4, <1>5
<1>7. \A j \in DOMAIN x : x[j].from = ms[j].from /\ x[j].req = ms[j].req /\ x[j].status = ms[j].status
  BY <1>3, <1>6
<1>8. x # <<>> /\ ms # <<>>
  BY <1>2, <1>5
<1>9. OwnText(x, lost)
  BY <1>1, <1>3, <1>5, <1>6, NewTexts DEF OwnText
<1>10. SpinLast(x, lost) /\ Upto(x, n)
  BY <1>1, <1>5, <1>7 DEF SpinLast, Upto, isAssistantMessagePending
<1>11. x \in Messages
  BY <1>5 DEF Messages, MessageRow
<1> QED BY <1>5, <1>7, <1>8, <1>9, <1>10, <1>11 DEF Good

(* A list without one message: the others keep their order, so the last    *)
(* one stays the last.                                                     *)
LEMMA RemoveGood ==
  ASSUME NEW ms, NEW lost, NEW n \in Nat, Good(ms, lost, n), NEW key, NEW x, x = removeMessageByKey(ms, key)
  PROVE  /\ Good(x, lost, n) /\ (Calm(ms, lost) => Calm(x, lost))
         /\ ms # <<>> /\ Key(Last(ms)) # key => x # <<>> /\ Last(x) = Last(ms)
         /\ \A k \in DOMAIN x : \E i \in DOMAIN ms : x[k] = ms[i]
<1>1. ms \in Messages /\ OwnText(ms, lost) /\ SpinLast(ms, lost) /\ Upto(ms, n)
  BY DEF Good
<1>2. DOMAIN ms = 1..Len(ms) /\ Len(ms) \in Nat /\ (\A i \in DOMAIN ms : ms[i] \in MessageRow)
      /\ (ms # <<>> => Len(ms) \in DOMAIN ms /\ Last(ms) = ms[Len(ms)])
  BY <1>1, ListFacts
<1>3. PICK tr : /\ tr[0] = <<>> /\ tr[Len(ms)] = removeMessageByKey(ms, key)
                /\ \A j \in 1..Len(ms) : tr[j] = Keep(tr[j - 1], ms[j], key)
  BY <1>2, RemoveWalks
<1> DEFINE Kept(y, j) ==
             /\ \A k \in DOMAIN y : \E i \in 1..j : y[k] = ms[i]
             /\ \A k \in DOMAIN y : k < Len(y) => \E i \in 1..(j - 1) : y[k] = ms[i]
             /\ j > 0 /\ Key(ms[j]) # key => y # <<>> /\ Last(y) = ms[j]
           S == [j \in 0..Len(ms) |-> {y \in Messages : Kept(y, j)}]
<1>4. tr[0] \in S[0]
  <2>1. <<>> \in Messages /\ DOMAIN <<>> = {}
    BY DEF Messages
  <2>2. Kept(<<>>, 0)
    BY <2>1
  <2> QED BY <1>2, <1>3, <2>1, <2>2
<1>5. ASSUME NEW j \in 1..Len(ms), tr[j - 1] \in S[j - 1] PROVE tr[j] \in S[j]
  <2> DEFINE y == tr[j - 1]
             z == tr[j]
  <2>1. y \in Messages /\ Kept(y, j - 1) /\ z = Keep(y, ms[j], key) /\ j \in Nat /\ j >= 1 /\ j - 1 \in Nat /\ ms[j] \in MessageRow
    BY <1>2, <1>3, <1>5
  <2>2. Len(y) \in Nat /\ DOMAIN y = 1..Len(y)
    BY <2>1, ListFacts
  <2> HIDE DEF y, z, S
  <2>3. CASE Key(ms[j]) # key
    <3>1. z = Append(y, ms[j])
      BY <2>1, <2>3 DEF Keep
    <3>2. y \in Seq(MessageRow)
      BY <2>1 DEF Messages, MessageRow
    <3>3. Extended(z, y, ms[j])
      BY <2>1, <3>1, <3>2 DEF Extended
    <3>4. /\ z \in Messages /\ z # <<>> /\ Last(z) = ms[j] /\ Len(z) = Len(y) + 1
          /\ \A i \in DOMAIN z : IF i = Len(z) THEN z[i] = ms[j] ELSE i \in DOMAIN y /\ z[i] = y[i]
      BY <2>1, <3>3, Appended
    <3>5. ASSUME NEW k \in DOMAIN z PROVE (\E i \in 1..j : z[k] = ms[i]) /\ (k < Len(z) => \E i \in 1..(j - 1) : z[k] = ms[i])
      <4>1. CASE k = Len(z)
        BY <2>1, <2>2, <3>4, <4>1
      <4>2. CASE k # Len(z)
        <5>1. k \in DOMAIN y /\ z[k] = y[k]
          BY <3>4, <4>2
        <5>2. PICK i \in 1..(j - 1) : y[k] = ms[i]
          BY <2>1, <5>1
        <5> QED BY <2>1, <5>1, <5>2
      <4> QED BY <4>1, <4>2
    <3> QED BY <3>4, <3>5 DEF S, z
  <2>4. CASE Key(ms[j]) = key
    <3>1. z = y
      BY <2>1, <2>4 DEF Keep
    <3>2. ASSUME NEW k \in DOMAIN y PROVE (\E i \in 1..j : y[k] = ms[i]) /\ (\E i \in 1..(j - 1) : y[k] = ms[i])
      <4>1. PICK i \in 1..(j - 1) : y[k] = ms[i]
        BY <2>1
      <4> QED BY <2>1, <4>1
    <3> QED BY <2>1, <2>4, <3>1, <3>2 DEF S, z
  <2> QED BY <2>3, <2>4
<1>6. tr[Len(ms)] \in S[Len(ms)]
  <2> HIDE DEF S
  <2>1. \A j \in 0..Len(ms) : tr[j] \in S[j]
    BY <1>2, <1>4, <1>5, WalkInduction
  <2> QED BY <1>2, <2>1
<1>7. x \in Messages /\ Kept(x, Len(ms))
  BY <1>2, <1>3, <1>6
<1>8. \A k \in DOMAIN x : \E i \in DOMAIN ms : x[k] = ms[i]
  BY <1>2, <1>7
<1>9. OwnText(x, lost) /\ Upto(x, n) /\ (Calm(ms, lost) => Calm(x, lost))
  BY <1>1, <1>8 DEF OwnText, Upto, Calm
<1>10. SpinLast(x, lost)
  <2> SUFFICES ASSUME NEW k \in DOMAIN x, isAssistantMessagePending(x[k]), x[k].req \notin lost, k # Len(x) PROVE FALSE
    BY DEF SpinLast
  <2>1. k < Len(x)
    BY <1>7, ListFacts
  <2>2. PICK i \in 1..(Len(ms) - 1) : x[k] = ms[i]
    BY <1>7, <2>1
  <2> QED BY <1>1, <1>2, <2>2 DEF SpinLast
<1>11. ms # <<>> /\ Key(Last(ms)) # key => x # <<>> /\ Last(x) = Last(ms)
  <2>1. ms # <<>> => Len(ms) > 0
    BY <1>2
  <2> QED BY <1>2, <1>7, <2>1
<1> HIDE DEF Kept
<1> QED BY <1>7, <1>8, <1>9, <1>10, <1>11 DEF Good

(* What is left of a text has no letters of others.                        *)
LEMMA ShortenedText ==
  ASSUME NEW text \in Texts
  PROVE  /\ shortenText(text) \in Texts /\ Authors(shortenText(text)) = Authors(text)
         /\ shortenText(text) = <<>> <=> text = <<>>
<1> DEFINE x == shortenText(text)
           letters == ({0} \X {0, 1}) \cup (Requests \X (0..MaxChunks))
<1>1. /\ DOMAIN text = 1..Len(text) /\ Len(text) \in Nat
      /\ \A k \in DOMAIN text : text[k] \in letters
  BY DEF Texts
<1>2. DOMAIN x = DOMAIN text /\ \A k \in DOMAIN text : x[k] = <<text[k][1], 0>>
  BY DEF shortenText, Torn
<1>3. \A k \in DOMAIN text : x[k] \in letters /\ x[k][1] = text[k][1]
  BY <1>1, <1>2, ChatAssumption
<1>4. x \in [1..Len(text) -> letters]
  BY <1>1, <1>3 DEF shortenText
<1>5. x \in Seq(letters) /\ Len(x) = Len(text)
  BY <1>1, <1>4
<1>6. Authors(x) = Authors(text)
  BY <1>2, <1>3 DEF Authors
<1>7. x = <<>> <=> text = <<>>
  BY <1>1, <1>5
<1> QED BY <1>5, <1>6, <1>7 DEF Texts

(* The text of a stored message as it is read back.                        *)
LEMMA LoadedTexts ==
  ASSUME NEW saved \in Messages, NEW short, NEW i \in DOMAIN saved
  PROVE  /\ LoadedText(saved, short, i) \in Texts
         /\ Authors(LoadedText(saved, short, i)) = Authors(saved[i].text)
<1>1. saved[i].text \in Texts
  BY ListFacts DEF MessageRow
<1> QED BY <1>1, ShortenedText DEF LoadedText

(* A stored message as it is read back.                                    *)
LEMMA NormalizedMessage ==
  ASSUME NEW m \in MessageRow, NEW text \in Texts, NEW k, k = normalizeStoredMessageForLoad(m, text)
  PROVE  /\ k \in MessageRow /\ k.from = m.from /\ k.req = m.req /\ k.text = text
         /\ isAssistantMessagePending(k) => isAssistantMessagePending(m)
         /\ ~isAssistantMessagePending(m) /\ text = m.text => k = m
<1>1. \/ k = [m EXCEPT !.text = text]
      \/ k = [m EXCEPT !.text = text, !.status = "complete"] /\ isAssistantMessagePending(m)
  BY DEF normalizeStoredMessageForLoad
<1>2. k \in MessageRow /\ k.from = m.from /\ k.req = m.req /\ k.text = text
  BY <1>1 DEF MessageRow
<1>3. k.status = m.status \/ k.status = "complete"
  BY <1>1 DEF MessageRow
<1>4. isAssistantMessagePending(k) => isAssistantMessagePending(m)
  BY <1>2, <1>3 DEF isAssistantMessagePending
<1>5. ~isAssistantMessagePending(m) /\ text = m.text => k = m
  BY <1>1 DEF MessageRow
<1> QED BY <1>2, <1>4, <1>5

(* The history shown when the page is opened has no spinner.               *)
LEMMA LoadGood ==
  ASSUME NEW saved, NEW lost, NEW n \in Nat, Good(saved, lost, n), NEW short, NEW kept \in Nat \ {0}
  PROVE  CalmList(loadMessages(saved, short, kept), lost, n)
<1> DEFINE y == [i \in DOMAIN saved |-> normalizeStoredMessageForLoad(saved[i], LoadedText(saved, short, i))]
           z == LastOf(trimMessages(y), kept)
           x == sanitizeMessagesOnLoad(z)
<1>1. saved \in Messages /\ OwnText(saved, lost) /\ SpinLast(saved, lost) /\ Upto(saved, n)
  BY DEF Good
<1>2. DOMAIN saved = 1..Len(saved) /\ Len(saved) \in Nat /\ \A i \in DOMAIN saved : saved[i] \in MessageRow
  BY <1>1, ListFacts
<1>3. ASSUME NEW i \in DOMAIN saved
      PROVE  /\ y[i] \in MessageRow /\ y[i].req = saved[i].req /\ Authors(y[i].text) = Authors(saved[i].text)
             /\ isAssistantMessagePending(y[i]) => isAssistantMessagePending(saved[i])
  <2> DEFINE text == LoadedText(saved, short, i)
  <2>1. text \in Texts /\ Authors(text) = Authors(saved[i].text) /\ saved[i] \in MessageRow
    BY <1>1, <1>2, LoadedTexts
  <2>2. y[i] = normalizeStoredMessageForLoad(saved[i], text)
    OBVIOUS
  <2> HIDE DEF text, y
  <2> QED BY <2>1, <2>2, NormalizedMessage
<1>4. DOMAIN y = DOMAIN saved /\ y \in Seq(MessageRow) /\ Len(y) = Len(saved)
  BY <1>2, <1>3
<1>5. loadMessages(saved, short, kept) = x
  BY DEF loadMessages
<1> HIDE DEF y
<1>6. Good(y, lost, n)
  <2>1. y \in Messages
    BY <1>4 DEF Messages, MessageRow
  <2>2. OwnText(y, lost) /\ SpinLast(y, lost) /\ Upto(y, n)
    BY <1>1, <1>3, <1>4 DEF OwnText, SpinLast, Upto
  <2> QED BY <2>1, <2>2 DEF Good
<1>7. Good(z, lost, n)
  BY <1>6, SuffixGood, LastGood
<1> HIDE DEF z
<1> DEFINE pending == {i \in DOMAIN z : isAssistantMessagePending(z[i])}
           target == CHOOSE i \in pending : \A j \in pending : j <= i
<1>8. z \in Messages /\ SpinLast(z, lost)
  BY <1>7 DEF Good
<1>9. DOMAIN z = 1..Len(z) /\ Len(z) \in Nat /\ z \in Seq(MessageRow) /\ \A i \in DOMAIN z : z[i] \in MessageRow
  BY <1>8, ListFacts DEF Messages, MessageRow
<1>10. x = IF pending = {} THEN z ELSE [z EXCEPT ![target].status = "error", ![target].text = ErrorText]
  BY DEF sanitizeMessagesOnLoad
<1>11. ASSUME NEW i \in pending, z[i].req \notin lost PROVE i = Len(z) /\ target = i
  <2>1. i = Len(z)
    BY <1>8, <1>11 DEF SpinLast
  <2>2. i \in pending /\ \A j \in pending : j <= i
    BY <1>9, <1>11, <2>1
  <2>3. target \in pending /\ \A j \in pending : j <= target
    <3> HIDE DEF pending
    <3> QED BY <2>2
  <2>4. target <= i /\ i <= target /\ target \in Nat /\ i \in Nat
    BY <1>9, <2>2, <2>3
  <2> QED BY <2>1, <2>4
<1>12. CASE pending = {} \/ target \notin DOMAIN z
  <2>1. x = z
    BY <1>9, <1>10, <1>12
  <2>2. Calm(z, lost)
    BY <1>11, <1>12 DEF Calm
  <2> QED BY <1>5, <1>7, <2>1, <2>2 DEF CalmList
<1>13. CASE pending # {} /\ target \in DOMAIN z
  <2> DEFINE m == [z[target] EXCEPT !.status = "error", !.text = ErrorText]
  <2>1. z[target] \in MessageRow
    BY <1>9, <1>13
  <2> HIDE DEF target
  <2>2. m \in MessageRow /\ m.req = z[target].req /\ m.text = ErrorText /\ m.status = "error"
    BY <2>1, NewTexts DEF MessageRow
  <2>3. x = [z EXCEPT ![target] = m]
    BY <1>10, <1>13
  <2> HIDE DEF m, x
  <2>4. x \in Seq(MessageRow) /\ DOMAIN x = DOMAIN z /\ Len(x) = Len(z)
    BY <1>9, <1>13, <2>2, <2>3, ExceptSeq
  <2>5. \A i \in DOMAIN x : x[i] = IF i = target THEN m ELSE z[i]
    BY <2>3, <2>4
  <2>6. ~isAssistantMessagePending(m) /\ Authors(m.text) = {0}
    BY <2>2, NewTexts DEF isAssistantMessagePending
  <2>7. x \in Messages
    BY <2>4 DEF Messages, MessageRow
  <2>8. OwnText(x, lost) /\ Upto(x, n)
    BY <1>7, <1>13, <2>2, <2>4, <2>5, <2>6 DEF Good, OwnText, Upto
  <2>9. Calm(x, lost)
    BY <1>11, <2>4, <2>5, <2>6 DEF Calm
  <2>10. SpinLast(x, lost)
    BY <2>9 DEF Calm, SpinLast
  <2> QED BY <1>5, <2>7, <2>8, <2>9, <2>10 DEF Good, CalmList
<1> QED BY <1>12, <1>13

-----------------------------------------------------------------------------
(* The page.  What is queued: lists that end with the answer to a request, *)
(* the last of them to the last request, and updates of the callbacks; one *)
(* of the current generation writes its own text, and no list comes after  *)
(* it.                                                                     *)
CallUpdate == [op: Replies, gen: Nat, text: Texts, ran: BOOLEAN]
Store == [latest: Messages, timer: BOOLEAN, saved: Messages]
NoSetAfter(q, i) == \A j \in DOMAIN q : j > i => ~IsSet(q[j])
SetOK(u, q, i, n, lost) ==
  /\ Good(u.msgs, lost, n) /\ u.msgs # <<>> /\ Last(u.msgs) = LoadingMessage(Last(u.msgs).req)
  /\ NoSetAfter(q, i) => Last(u.msgs).req = n
CallOK(u, q, i, gen, n) == u.gen <= gen /\ (u.gen = gen => Authors(u.text) \subseteq {n} /\ NoSetAfter(q, i))
QueueOK(q, gen, n, lost) ==
  /\ q \in Seq(SetUpdate \cup CallUpdate)
  /\ \A i \in DOMAIN q : q[i].ran => i = 1
  /\ \A i \in DOMAIN q : IF IsSet(q[i]) THEN SetOK(q[i], q, i, n, lost) ELSE CallOK(q[i], q, i, gen, n)

HasSet == \E i \in DOMAIN queue : IsSet(queue[i])
(* The answer ends with what is queued.                                    *)
Terminated == queue # <<>> /\ Ends(Last(queue)) /\ (Last(queue).ran \/ Last(queue).gen = chat.gen)

FlagsOK ==
  /\ ~HasSet /\ (next.req \/ queue # <<>>) => shown.req
  /\ HasSet => \A i \in DOMAIN messages : messages[i].req < count.sends
  /\ ~HasSet /\ shown.req => AtLast(messages, count.sends, Lost)
  /\ ~shown.req => Calm(messages, Lost)
  /\ ~next.req /\ (queue # <<>> \/ shown.req) => Terminated
  /\ queue # <<>> /\ queue[1].ran => RunUpdater(messages, queue[1], chat.gen) = store.latest

ListsOK == \A ms \in {messages, store.latest, store.saved} : Good(ms, Lost, count.sends)

PageOK == store \in Store /\ ListsOK /\ QueueOK(queue, chat.gen, count.sends, Lost) /\ FlagsOK

(* An updater of the page itself runs in any generation.                   *)
LEMMA PageUpdate ==
  ASSUME NEW ms, NEW u, NEW gen
  PROVE  /\ u.op = "set" => RunUpdater(ms, u, gen) = u.msgs
         /\ u.op = "delete" => RunUpdater(ms, u, gen) = removeMessageByKey(ms, u.key)
<1>1. ASSUME u.op = "set" PROVE RunUpdater(ms, u, gen) = u.msgs
  <2>1. ~Stale(u, gen)
    BY <1>1 DEF Stale
  <2> QED BY <1>1, <2>1 DEF RunUpdater
<1>2. ASSUME u.op = "delete" PROVE RunUpdater(ms, u, gen) = removeMessageByKey(ms, u.key)
  <2>1. ~Stale(u, gen)
    BY <1>2 DEF Stale
  <2> QED BY <1>2, <2>1 DEF RunUpdater
<1> QED BY <1>1, <1>2

(* So does the one React ran when it was queued.                           *)
LEMMA RanUpdate ==
  ASSUME NEW ms, NEW u \in SetUpdate \cup CallUpdate, u.ran, NEW gen, NEW gen2
  PROVE  RunUpdater(ms, u, gen) = RunUpdater(ms, u, gen2)
<1>1. CASE u \in SetUpdate
  BY <1>1, PageUpdate DEF SetUpdate
<1>2. CASE u \in CallUpdate
  <2>1. ~Stale(u, gen) /\ ~Stale(u, gen2) /\ u.op \in Replies
    BY <1>2 DEF Stale, CallUpdate
  <2>2. u.op \in Replies \cup {"stop"}
    BY <2>1
  <2> DEFINE x == IF ms = <<>> \/ Last(ms).from # "assistant" THEN ms ELSE [ms EXCEPT ![Len(ms)] = NewMessage(Last(ms), u)]
  <2>3. RunUpdater(ms, u, gen) = x
    BY <2>1, <2>2, ReplyResult
  <2>4. RunUpdater(ms, u, gen2) = x
    BY <2>1, <2>2, ReplyResult
  <2> QED BY <2>3, <2>4
<1> QED BY <1>1, <1>2

(* What a render of the queue makes of the messages, in the current or a   *)
(* later generation.                                                       *)
LEMMA PendingRender ==
  ASSUME RefsOK, PageOK, NEW gen \in Nat, chat.gen <= gen, NEW q, Len(q) \in Nat, NEW tr, Walk(tr, messages, q, gen),
         Len(queue) <= Len(q), \A i \in 1..Len(queue) : q[i] = queue[i], NEW y, y = tr[Len(queue)]
  PROVE  /\ Good(y, Lost, count.sends) /\ (queue # <<>> => AtLast(y, count.sends, Lost))
         /\ HasSet => Answering(y, count.sends)
         /\ gen = chat.gen /\ Terminated => Settled(y)
         /\ queue = <<>> => y = messages
<1> DEFINE n == count.sends
<1>0. chat.gen \in Nat /\ n \in Nat
  BY DEF RefsOK, RefTypes, Counts
<1>1. /\ queue \in Seq(SetUpdate \cup CallUpdate) /\ (\A i \in DOMAIN queue : queue[i].ran => i = 1)
      /\ \A i \in DOMAIN queue : IF IsSet(queue[i]) THEN SetOK(queue[i], queue, i, n, Lost) ELSE CallOK(queue[i], queue, i, chat.gen, n)
  BY DEF PageOK, QueueOK
<1>2. Len(queue) \in Nat /\ DOMAIN queue = 1..Len(queue) /\ \A i \in DOMAIN queue : queue[i] \in SetUpdate \cup CallUpdate
  BY <1>1
<1>3. tr[0] = messages /\ \A j \in 1..Len(queue) : tr[j] = RunUpdater(tr[j - 1], queue[j], gen)
  BY <1>2 DEF Walk
<1>4. Good(messages, Lost, n) /\ Good(store.latest, Lost, n)
  BY DEF PageOK, ListsOK
<1> DEFINE Fine(x, j) == /\ Good(x, Lost, n)
                         /\ NoSetAfter(queue, j) /\ queue # <<>> => AtLast(x, n, Lost)
                         /\ HasSet /\ NoSetAfter(queue, j) => Answering(x, n)
           S == [j \in 0..Len(queue) |-> {x \in Messages : Fine(x, j)}]
<1>5. tr[0] \in S[0]
  <2>1. NoSetAfter(queue, 0) => ~HasSet
    BY <1>2 DEF NoSetAfter, HasSet
  <2>2. ~HasSet /\ queue # <<>> => AtLast(messages, n, Lost)
    BY DEF PageOK, FlagsOK
  <2>3. Fine(messages, 0)
    BY <1>4, <2>1, <2>2
  <2>4. messages \in Messages
    BY <1>4 DEF Good
  <2> QED BY <1>2, <1>3, <2>3, <2>4
<1>6. ASSUME NEW j \in 1..Len(queue), tr[j - 1] \in S[j - 1] PROVE tr[j] \in S[j]
  <2> DEFINE x == tr[j - 1]
             u == queue[j]
             z == tr[j]
  <2>1. x \in Messages /\ Fine(x, j - 1) /\ z = RunUpdater(x, u, gen) /\ j \in DOMAIN queue /\ j \in 0..Len(queue)
    BY <1>2, <1>3, <1>6
  <2>2. SUFFICES Fine(z, j) /\ z \in Messages
    BY <2>1
  <2> HIDE DEF S
  <2>3. CASE IsSet(u)
    <3>1. z = u.msgs /\ SetOK(u, queue, j, n, Lost)
      BY <1>1, <2>1, <2>3, PageUpdate DEF IsSet
    <3>2. Good(z, Lost, n) /\ z # <<>> /\ Last(z).from = "assistant" /\ (NoSetAfter(queue, j) => Last(z).req = n)
      BY <3>1 DEF SetOK, LoadingMessage
    <3> QED BY <3>2 DEF AtLast, Answering, Good
  <2>4. CASE ~IsSet(u)
    <3>1. u \in CallUpdate /\ CallOK(u, queue, j, chat.gen, n)
      BY <1>1, <1>2, <2>1, <2>4 DEF SetUpdate, IsSet
    <3>2. u.op \in Replies \cup {"stop"} /\ u.text \in Texts /\ u.gen \in Nat
      BY <3>1 DEF CallUpdate
    <3>3. NoSetAfter(queue, j) => NoSetAfter(queue, j - 1)
      <4> SUFFICES ASSUME NoSetAfter(queue, j), NEW k \in DOMAIN queue, k > j - 1 PROVE ~IsSet(queue[k])
        BY DEF NoSetAfter
      <4>1. k > j \/ k = j
        BY <1>2
      <4> QED BY <2>4, <4>1 DEF NoSetAfter
    <3>4. /\ z \in Messages /\ (z = <<>> <=> x = <<>>)
          /\ x # <<>> => Last(z).from = Last(x).from /\ Last(z).req = Last(x).req
      <4> HIDE DEF x, u, z
      <4> QED BY <2>1, <3>2, ReplyKeepsLast
    <3>5. Good(z, Lost, n)
      <4>1. CASE u.ran
        <5>1. j = 1 /\ x = messages /\ queue # <<>>
          BY <1>1, <1>2, <1>3, <2>1, <4>1
        <5>2. RunUpdater(messages, u, chat.gen) = store.latest
          BY <4>1, <5>1 DEF PageOK, FlagsOK
        <5>3. z = store.latest
          BY <2>1, <3>1, <4>1, <5>1, <5>2, RanUpdate
        <5> QED BY <1>4, <5>3
      <4>2. CASE ~u.ran
        <5>1. Stale(u, gen) \/ u.gen = gen
          BY <3>1, <4>2 DEF Stale, CallUpdate, Replies
        <5>2. Stale(u, gen) \/ (Authors(u.text) \subseteq {n} /\ NoSetAfter(queue, j))
          BY <1>0, <3>1, <3>2, <5>1 DEF CallOK
        <5>3. queue # <<>>
          BY <1>2, <2>1
        <5>4. Stale(u, gen) \/ (Authors(u.text) \subseteq {n} /\ AtLast(x, n, Lost))
          BY <2>1, <3>3, <5>2, <5>3
        <5>5. Good(x, Lost, n)
          BY <2>1
        <5> HIDE DEF x, u, z, n, Fine
        <5> QED BY <1>0, <2>1, <3>2, <5>4, <5>5, GoodReply
      <4> QED BY <4>1, <4>2
    <3>6. NoSetAfter(queue, j) /\ queue # <<>> => AtLast(z, n, Lost)
      BY <2>1, <3>3, <3>4 DEF AtLast
    <3>7. HasSet /\ NoSetAfter(queue, j) => Answering(z, n)
      BY <2>1, <3>3, <3>4 DEF Answering
    <3> QED BY <3>4, <3>5, <3>6, <3>7
  <2> QED BY <2>3, <2>4
<1>7. tr[Len(queue)] \in S[Len(queue)]
  <2> HIDE DEF S
  <2>1. \A j \in 0..Len(queue) : tr[j] \in S[j]
    BY <1>2, <1>5, <1>6, WalkInduction
  <2> QED BY <1>2, <2>1
<1>8. Fine(y, Len(queue))
  BY <1>2, <1>7
<1>9. NoSetAfter(queue, Len(queue))
  BY <1>2 DEF NoSetAfter
<1>10. ASSUME gen = chat.gen, Terminated PROVE Settled(y)
  <2> DEFINE j == Len(queue)
             u == queue[j]
             x == tr[j - 1]
  <2>1. j \in 1..Len(queue) /\ j \in DOMAIN queue /\ u = Last(queue) /\ Ends(u) /\ (u.ran \/ u.gen = chat.gen)
    BY <1>2, <1>10 DEF Terminated, Last
  <2>2. u \in CallUpdate /\ u.op \in Replies \cup {"stop"} /\ u.text \in Texts
    BY <1>2, <2>1 DEF Ends, SetUpdate, CallUpdate
  <2>3. y = RunUpdater(x, u, gen) /\ ~Stale(u, gen)
    BY <1>3, <1>10, <2>1 DEF Stale
  <2>4. x \in Messages
    <3> HIDE DEF S
    <3>1. \A k \in 0..Len(queue) : tr[k] \in S[k]
      BY <1>2, <1>5, <1>6, WalkInduction
    <3>2. j - 1 \in 0..Len(queue)
      BY <1>2, <2>1
    <3>3. x \in S[j - 1]
      BY <3>1, <3>2
    <3> QED BY <3>2, <3>3 DEF S
  <2> HIDE DEF x, u
  <2> QED BY <2>1, <2>2, <2>3, <2>4, ReplyKeepsLast
<1>11. queue = <<>> => y = messages
  BY <1>3
<1> QED BY <1>8, <1>9, <1>10, <1>11

(* A render leaves nothing queued and shows the flags as they are set.     *)
LEMMA AfterRender ==
  ASSUME RefsOK, PageOK, RefsOK', queue' = <<>>, shown' = next', store' = store \/ store' = Persist(messages'),
         Lost \subseteq Lost', count.sends <= count'.sends, Good(messages', Lost', count'.sends),
         next'.req => AtLast(messages', count'.sends, Lost'), ~next'.req => Calm(messages', Lost')
  PROVE  PageOK'
<1>1. count.sends \in Nat /\ count'.sends \in Nat
  BY DEF RefsOK, RefTypes, Counts
<1>2. store \in Store /\ Good(store.latest, Lost, count.sends) /\ Good(store.saved, Lost, count.sends)
  BY DEF PageOK, ListsOK
<1>3. Good(store.latest, Lost', count'.sends) /\ Good(store.saved, Lost', count'.sends)
  BY <1>1, <1>2, GoodMonotone
<1>4. messages' \in Messages
  BY DEF Good
<1>5. /\ store' \in Store /\ store'.saved = store.saved /\ store'.latest \in {store.latest, messages'}
  BY <1>2, <1>4 DEF Store, Persist
<1>6. ListsOK'
  BY <1>3, <1>5 DEF ListsOK
<1>7. DOMAIN queue' = {} /\ queue' \in Seq(SetUpdate \cup CallUpdate)
  OBVIOUS
<1>8. QueueOK(queue', chat'.gen, count'.sends, Lost')
  BY <1>7 DEF QueueOK
<1>9. ~HasSet'
  BY <1>7 DEF HasSet
<1>10. FlagsOK'
  BY <1>9 DEF FlagsOK
<1> QED BY <1>5, <1>6, <1>8, <1>10 DEF PageOK

(* An updater as it is queued: it says whether React ran it.               *)
Marked(v, u) == v.ran \in BOOLEAN /\ v = [u EXCEPT !.ran = v.ran]

(* Nothing else of it is changed.                                          *)
LEMMA MarkedUpdate ==
  ASSUME NEW u \in Updates, NEW v, Marked(v, u)
  PROVE  /\ v \in Updates /\ v.op = u.op
         /\ u.op = "set" => v \in SetUpdate /\ v.msgs = u.msgs
         /\ u.op = "delete" => v.key = u.key
         /\ u.op \in Replies \cup {"stop"} => v \in ReplyUpdate /\ v.gen = u.gen /\ v.text = u.text
<1> DEFINE b == v.ran
<1>0. b \in BOOLEAN /\ v = [u EXCEPT !.ran = b]
  BY DEF Marked
<1> HIDE DEF b
<1>1. CASE u \in SetUpdate
  <2>1. v \in SetUpdate /\ v.op = u.op /\ v.msgs = u.msgs /\ u.op = "set"
    BY <1>0, <1>1 DEF SetUpdate
  <2> QED BY <2>1 DEF Updates, Replies
<1>2. CASE u \in ReplyUpdate
  <2>1. v \in ReplyUpdate /\ v.op = u.op /\ v.gen = u.gen /\ v.text = u.text /\ u.op \in Replies \cup {"stop"}
    BY <1>0, <1>2 DEF ReplyUpdate
  <2> QED BY <2>1 DEF Updates, Replies
<1>3. CASE u \in DeleteUpdate
  <2>1. v \in DeleteUpdate /\ v.op = u.op /\ v.key = u.key /\ u.op = "delete"
    BY <1>0, <1>3 DEF DeleteUpdate
  <2> QED BY <2>1 DEF Updates, Replies
<1> QED BY <1>1, <1>2, <1>3 DEF Updates

(* The queue with new updaters: React may have run the first of them when  *)
(* nothing was pending.                                                    *)
LEMMA QueuedFacts ==
  ASSUME PageOK, NEW us \in Seq(Updates), NEW now \in MayRunNow(us), NEW q, q = Queued(us, now)
  PROVE  /\ now \in BOOLEAN /\ (now => us # <<>> /\ queue = <<>> /\ next = shown)
         /\ Len(q) \in Nat /\ DOMAIN q = 1..Len(q) /\ Len(q) = Len(queue) + Len(us) /\ Len(queue) \in Nat /\ Len(us) \in Nat
         /\ \A i \in 1..Len(queue) : q[i] = queue[i]
         /\ \A i \in 1..Len(us) : Marked(q[Len(queue) + i], us[i]) /\ (q[Len(queue) + i].ran => i = 1 /\ now)
<1>1. now \in BOOLEAN /\ (now => us # <<>> /\ queue = <<>> /\ next = shown)
  BY DEF MayRunNow
<1> DEFINE vs == [i \in DOMAIN us |-> [us[i] EXCEPT !.ran = now /\ i = 1]]
<1>2. Len(us) \in Nat /\ DOMAIN us = 1..Len(us)
  OBVIOUS
<1>3. ASSUME NEW i \in 1..Len(us) PROVE Marked(vs[i], us[i]) /\ (vs[i].ran => i = 1 /\ now) /\ vs[i] \in Updates
  <2> DEFINE b == now /\ i = 1
             u == us[i]
             v == [u EXCEPT !.ran = b]
  <2>1. b \in BOOLEAN /\ vs[i] = v /\ u \in Updates
    BY <1>1, <1>2
  <2>2. b => i = 1 /\ now
    OBVIOUS
  <2> HIDE DEF b, u
  <2>3. v.ran = b
    BY <2>1 DEF Updates, SetUpdate, ReplyUpdate, DeleteUpdate
  <2>4. Marked(v, u)
    BY <2>1, <2>3 DEF Marked
  <2> HIDE DEF v
  <2> QED BY <2>1, <2>2, <2>3, <2>4, MarkedUpdate DEF u
<1>4. vs \in Seq(Updates) /\ Len(vs) = Len(us) /\ DOMAIN vs = 1..Len(us)
  <2>1. DOMAIN vs = 1..Len(us)
    BY <1>2
  <2>2. vs \in [1..Len(us) -> Updates]
    BY <1>2, <1>3, <2>1
  <2> QED BY <1>2, <2>1, <2>2
<1>5. q = queue \o vs
  BY DEF Queued
<1> HIDE DEF vs
<1>6. queue \in Seq(SetUpdate \cup CallUpdate)
  BY DEF PageOK, QueueOK
<1> DEFINE T == SetUpdate \cup CallUpdate \cup Updates
<1>7. queue \in Seq(T) /\ vs \in Seq(T)
  BY <1>4, <1>6
<1> HIDE DEF T
<1>8. Len(q) = Len(queue) + Len(us) /\ Len(queue) \in Nat /\ q \in Seq(T) /\ DOMAIN q = 1..Len(q)
  <2>1. queue \o vs \in Seq(T) /\ Len(queue \o vs) = Len(queue) + Len(vs)
    BY <1>7, ConcatProperties
  <2>2. q \in Seq(T) /\ Len(q) = Len(queue) + Len(us)
    BY <1>4, <1>5, <2>1
  <2> QED BY <1>7, <2>2
<1>9. \A i \in 1..Len(queue) : q[i] = queue[i]
  BY <1>4, <1>5, <1>7, <1>8
<1>10. ASSUME NEW i \in 1..Len(us) PROVE q[Len(queue) + i] = vs[i]
  BY <1>2, <1>4, <1>5, <1>7, <1>8
<1> QED BY <1>1, <1>2, <1>3, <1>8, <1>9, <1>10

(* What the queue leaves for the updaters of a click.                      *)
Pending(y, gen) ==
  /\ Good(y, Lost, count.sends) /\ (queue # <<>> => AtLast(y, count.sends, Lost))
  /\ HasSet => Answering(y, count.sends)
  /\ gen = chat.gen /\ Terminated => Settled(y)
  /\ queue = <<>> => y = messages

(* A click renders the queue, then its own updaters.                       *)
LEMMA ClickWalks ==
  ASSUME RefsOK, PageOK, NEW us \in Seq(Updates), NEW gen \in Nat, chat.gen <= gen, ClickRenders(us, gen)
  PROVE  /\ queue' = <<>> /\ shown' = next' /\ (store' = store \/ store' = Persist(messages'))
         /\ \E vs, tr :
              /\ Pending(tr[0], gen) /\ messages' = tr[Len(us)]
              /\ \A i \in 1..Len(us) : tr[i] = RunUpdater(tr[i - 1], vs[i], gen)
              /\ \A i \in 1..Len(us) : Marked(vs[i], us[i]) /\ (vs[i].ran => i = 1 /\ queue = <<>> /\ next = shown)
              /\ tr[0] = Rendered(messages, queue, gen)
<1>1. PICK now \in MayRunNow(us) : RenderAll(Queued(us, now), gen)
  BY DEF ClickRenders
<1> DEFINE q == Queued(us, now)
<1>2. /\ now \in BOOLEAN /\ (now => us # <<>> /\ queue = <<>> /\ next = shown)
      /\ Len(q) \in Nat /\ DOMAIN q = 1..Len(q) /\ Len(q) = Len(queue) + Len(us) /\ Len(queue) \in Nat /\ Len(us) \in Nat
      /\ \A i \in 1..Len(queue) : q[i] = queue[i]
      /\ \A i \in 1..Len(us) : Marked(q[Len(queue) + i], us[i]) /\ (q[Len(queue) + i].ran => i = 1 /\ now)
  BY QueuedFacts
<1> HIDE DEF q
<1>3. /\ messages' = Rendered(messages, q, gen) /\ queue' = <<>> /\ shown' = next'
      /\ store' = store \/ store' = Persist(messages')
  BY <1>1 DEF RenderAll, Rendered, q
<1>4. PICK tr : Walk(tr, messages, q, gen)
  BY <1>2, RenderWalks
<1> DEFINE n == Len(queue)
           t == [i \in 0..Len(us) |-> tr[n + i]]
           vs == [i \in 1..Len(us) |-> q[n + i]]
<1>5. Pending(tr[n], gen)
  BY <1>2, <1>4, PendingRender DEF Pending
<1>6. messages' = tr[Len(q)] /\ \A j \in 1..Len(q) : tr[j] = RunUpdater(tr[j - 1], q[j], gen)
  BY <1>3, <1>4 DEF Walk
<1>7. t[0] = tr[n] /\ t[Len(us)] = messages' /\ t[0] = Rendered(messages, queue, gen)
  <2>1. t[0] = tr[n] /\ t[Len(us)] = messages'
    BY <1>2, <1>6
  <2>2. DOMAIN queue = 1..Len(queue) /\ Len(queue) <= Len(q)
    BY <1>2 DEF PageOK, QueueOK
  <2>3. Rendered(messages, queue, gen) = tr[n]
    BY <1>2, <1>4, <2>2, RenderPrefix, ZenonT(60)
  <2> QED BY <2>1, <2>3
<1>8. ASSUME NEW i \in 1..Len(us)
      PROVE  /\ t[i] = RunUpdater(t[i - 1], vs[i], gen)
             /\ Marked(vs[i], us[i]) /\ (vs[i].ran => i = 1 /\ queue = <<>> /\ next = shown)
  <2>1. n + i \in 1..Len(q) /\ (n + i) - 1 = n + (i - 1) /\ i \in 0..Len(us) /\ i - 1 \in 0..Len(us)
    BY <1>2
  <2>2. tr[n + i] = RunUpdater(tr[n + (i - 1)], q[n + i], gen)
    BY <1>2, <1>6, <2>1
  <2> QED BY <1>2, <2>1, <2>2
<1> HIDE DEF t, vs
<1> QED BY <1>2, <1>3, <1>5, <1>7, <1>8, ZenonT(60)

(* A request that was given up stays given up.                             *)
LEMMA LostFacts ==
  ASSUME RefsOK
  PROVE  /\ UNCHANGED fate => Lost' = Lost
         /\ \A rs : fate' = Mark(rs, "cut") => Lost' = Lost
         /\ \A rs : fate' = Mark(rs, "overwritten") => Lost \subseteq Lost' /\ rs \cap Requests \subseteq Lost'
<1>1. UNCHANGED fate => Lost' = Lost
  BY DEF Lost
<1>2. ASSUME NEW rs, fate' = Mark(rs, "cut") PROVE Lost' = Lost
  <2>1. \A r \in Requests : fate'[r] = "overwritten" <=> fate[r] = "overwritten"
    BY <1>2 DEF Mark
  <2> QED BY <2>1 DEF Lost
<1>3. ASSUME NEW rs, fate' = Mark(rs, "overwritten") PROVE Lost \subseteq Lost' /\ rs \cap Requests \subseteq Lost'
  <2>1. \A r \in Requests : fate'[r] = "overwritten" <=> fate[r] = "overwritten" \/ r \in rs
    BY <1>3 DEF Mark
  <2> QED BY <2>1 DEF Lost
<1> QED BY <1>1, <1>2, <1>3

(* A render of the queue alone.                                            *)
LEMMA RenderKeepsPage ==
  ASSUME RefsOK, PageOK, RefsOK', ClickRenders(<<>>, chat.gen), next' = next, Lost' = Lost, count'.sends = count.sends
  PROVE  PageOK'
<1>0. count.sends \in Nat /\ chat.gen \in Nat /\ chat.gen <= chat.gen /\ <<>> \in Seq(Updates) /\ Len(<<>>) = 0
  BY DEF RefsOK, RefTypes, Counts
<1>1. /\ queue' = <<>> /\ shown' = next' /\ (store' = store \/ store' = Persist(messages'))
      /\ Pending(messages', chat.gen)
  BY <1>0, ClickWalks
<1>2. Good(messages', Lost, count.sends)
  BY <1>1 DEF Pending
<1>3. ASSUME next.req PROVE AtLast(messages', count.sends, Lost)
  <2>1. CASE queue # <<>>
    BY <1>1, <2>1 DEF Pending
  <2>2. CASE queue = <<>>
    <3>1. ~HasSet /\ messages' = messages
      BY <1>1, <2>2 DEF Pending, HasSet
    <3> QED BY <1>3, <3>1 DEF PageOK, FlagsOK
  <2> QED BY <2>1, <2>2
<1>4. ASSUME ~next.req PROVE Calm(messages', Lost)
  <2>1. CASE Terminated
    <3>1. Settled(messages')
      BY <1>1, <2>1 DEF Pending
    <3> QED BY <1>0, <1>2, <3>1, SettledIsCalm
  <2>2. CASE ~Terminated
    <3>1. queue = <<>> /\ ~shown.req /\ Calm(messages, Lost)
      BY <1>4, <2>2 DEF PageOK, FlagsOK
    <3> QED BY <1>1, <3>1 DEF Pending
  <2> QED BY <2>1, <2>2
<1> QED BY <1>0, <1>1, <1>2, <1>3, <1>4, AfterRender

(* The user deletes a message of the last render.                          *)
LEMMA DeleteKeepsPage ==
  ASSUME RefsOK, PageOK, RefsOK', NEW i \in DOMAIN messages, handleDeleteMessage(i)
  PROVE  PageOK'
<1> DEFINE key == Key(messages[i])
           u == [op |-> "delete", key |-> key, ran |-> FALSE]
           n == count.sends
<1>0. n \in Nat /\ chat.gen \in Nat /\ chat.gen <= chat.gen
  BY DEF RefsOK, RefTypes, Counts
<1>1. ~shown.req /\ next' = next /\ ClickRenders(<<u>>, chat.gen) /\ count'.sends = n /\ Lost' = Lost
  <2>1. count \in Counts /\ ~shown.req /\ next' = next /\ ClickRenders(<<u>>, chat.gen) /\ CountEdit /\ UNCHANGED fate
    BY DEF RefsOK, RefTypes, handleDeleteMessage, Generating
  <2> HIDE DEF u
  <2>2. count'.sends = n
    BY <2>1 DEF CountEdit, Counts
  <2> QED BY <2>1, <2>2, LostFacts
<1>2. Good(messages, Lost, n) /\ messages \in Messages
  BY DEF PageOK, ListsOK, Good
<1>3. messages[i] \in MessageRow
  BY <1>2, ListFacts
<1>4. u \in Updates /\ u.op = "delete" /\ u.key = key
  BY <1>3 DEF Updates, DeleteUpdate, Key, MessageRow
<1> HIDE DEF u, key
<1>5. <<u>> \in Seq(Updates) /\ Len(<<u>>) = 1 /\ <<u>>[1] = u
  BY <1>4
<1>6. PICK vs, tr :
        /\ Pending(tr[0], chat.gen) /\ messages' = tr[Len(<<u>>)]
        /\ \A k \in 1..Len(<<u>>) : tr[k] = RunUpdater(tr[k - 1], vs[k], chat.gen)
        /\ \A k \in 1..Len(<<u>>) : Marked(vs[k], <<u>>[k])
  <2>1. \E vs, tr :
          /\ Pending(tr[0], chat.gen) /\ messages' = tr[Len(<<u>>)]
          /\ \A k \in 1..Len(<<u>>) : tr[k] = RunUpdater(tr[k - 1], vs[k], chat.gen)
          /\ \A k \in 1..Len(<<u>>) : Marked(vs[k], <<u>>[k]) /\ (vs[k].ran => k = 1 /\ queue = <<>> /\ next = shown)
          /\ tr[0] = Rendered(messages, queue, chat.gen)
    BY <1>0, <1>1, <1>5, ClickWalks, ZenonT(60)
  <2> QED BY <2>1, ZenonT(60)
<1>7. queue' = <<>> /\ shown' = next' /\ (store' = store \/ store' = Persist(messages'))
  BY <1>0, <1>1, <1>5, ClickWalks
<1> DEFINE x == tr[0]
           v == vs[1]
<1>8. Marked(v, u) /\ messages' = RunUpdater(x, v, chat.gen)
  BY <1>5, <1>6
<1>9. v.op = "delete" /\ v.key = key
  BY <1>4, <1>8, MarkedUpdate
<1>10. messages' = removeMessageByKey(x, key)
  BY <1>8, <1>9, PageUpdate
<1>11. Good(x, Lost, n) /\ (HasSet => Answering(x, n)) /\ (Terminated => Settled(x)) /\ (queue = <<>> => x = messages)
  BY <1>6 DEF Pending
<1> HIDE DEF x, v
<1>12. /\ Good(messages', Lost, n) /\ (Calm(x, Lost) => Calm(messages', Lost))
       /\ x # <<>> /\ Key(Last(x)) # key => messages' # <<>> /\ Last(messages') = Last(x)
  <2> DEFINE y == messages'
  <2>1. y = removeMessageByKey(x, key)
    BY <1>10
  <2> HIDE DEF y
  <2>2. /\ Good(y, Lost, n) /\ (Calm(x, Lost) => Calm(y, Lost))
        /\ x # <<>> /\ Key(Last(x)) # key => y # <<>> /\ Last(y) = Last(x)
    BY <1>0, <1>11, <2>1, RemoveGood
  <2> QED BY <2>2 DEF y
<1>13. ASSUME next.req PROVE AtLast(messages', n, Lost)
  <2>1. HasSet
    BY <1>1, <1>13 DEF PageOK, FlagsOK
  <2>2. messages[i].req < n /\ Answering(x, n)
    BY <1>11, <2>1 DEF PageOK, FlagsOK
  <2>3. Key(Last(x)) # key
    BY <1>0, <2>2 DEF Key, key, Answering
  <2> QED BY <1>12, <2>2, <2>3 DEF AtLast, Answering
<1>14. ASSUME ~next.req PROVE Calm(messages', Lost)
  <2>1. CASE Terminated
    BY <1>0, <1>11, <1>12, <2>1, SettledIsCalm
  <2>2. CASE ~Terminated
    BY <1>11, <1>12, <1>14, <2>2 DEF PageOK, FlagsOK
  <2> QED BY <2>1, <2>2
<1>15. Lost \subseteq Lost' /\ n <= count'.sends
  BY <1>0, <1>1
<1> QED BY <1>1, <1>7, <1>12, <1>13, <1>14, <1>15, AfterRender

(* A click that sets the whole list.                                       *)
LEMMA ClickSets ==
  ASSUME RefsOK, PageOK, NEW x \in Messages, NEW gen \in Nat, chat.gen <= gen, ClickRenders(<<SetMessages(x)>>, gen)
  PROVE  messages' = x /\ queue' = <<>> /\ shown' = next' /\ (store' = store \/ store' = Persist(messages'))
<1> DEFINE u == SetMessages(x)
<1>1. u \in Updates /\ u.op = "set" /\ u.msgs = x
  BY DEF SetMessages, Updates, SetUpdate
<1> HIDE DEF u
<1>2. <<u>> \in Seq(Updates) /\ Len(<<u>>) = 1 /\ <<u>>[1] = u /\ ClickRenders(<<u>>, gen)
  BY <1>1 DEF u
<1>3. PICK vs, tr :
        /\ Pending(tr[0], gen) /\ messages' = tr[Len(<<u>>)]
        /\ \A k \in 1..Len(<<u>>) : tr[k] = RunUpdater(tr[k - 1], vs[k], gen)
        /\ \A k \in 1..Len(<<u>>) : Marked(vs[k], <<u>>[k])
  BY <1>2, ClickWalks
<1>4. queue' = <<>> /\ shown' = next' /\ (store' = store \/ store' = Persist(messages'))
  BY <1>2, ClickWalks
<1> DEFINE v == vs[1]
<1>5. Marked(v, u) /\ messages' = RunUpdater(tr[0], v, gen)
  BY <1>2, <1>3
<1>6. v.op = "set" /\ v.msgs = x
  BY <1>1, <1>5, MarkedUpdate
<1> QED BY <1>4, <1>5, <1>6, PageUpdate

(* The two messages of a new request.                                      *)
LEMMA NewMessages ==
  ASSUME NEW r \in Requests
  PROVE  /\ UserMessage(r) \in MessageRow /\ UserMessage(r).req = r /\ UserMessage(r).text = EditedText
         /\ ~isAssistantMessagePending(UserMessage(r))
         /\ LoadingMessage(r) \in MessageRow /\ LoadingMessage(r).req = r /\ LoadingMessage(r).text = <<>>
         /\ LoadingMessage(r).from = "assistant"
BY NewTexts DEF UserMessage, LoadingMessage, MessageRow, isAssistantMessagePending

(* A new request takes the next number.                                    *)
LEMMA SendCounts ==
  ASSUME RefsOK, CanSend, sendChat
  PROVE  /\ count.sends \in Nat /\ count.sends + 1 \in Requests /\ count'.sends = count.sends + 1
         /\ chat.gen \in Nat /\ chat'.gen = chat.gen + 1 /\ chat.gen + 1 \in Nat /\ next'.req
         /\ count'.sends \in Nat /\ count.sends <= count'.sends
<1>1. count.sends \in Nat /\ count.sends + 1 \in Requests /\ chat.gen \in Nat
  BY ChatAssumption DEF RefsOK, RefTypes, CanSend, Counts, Requests
<1>2. count'.sends = count.sends + 1 /\ chat'.gen = chat.gen + 1 /\ next' = [req |-> TRUE, str |-> FALSE]
  BY SendRefs
<1>3. next'.req
  BY <1>2
<1> QED BY <1>1, <1>2, <1>3

(* A calm list with the answer to a new request.                           *)
LEMMA LoadingGood ==
  ASSUME NEW p, NEW lost, NEW n \in Nat, n + 1 \in Requests, CalmList(p, lost, n), NEW x, x = p \o <<LoadingMessage(n + 1)>>
  PROVE  /\ Good(x, lost, n + 1) /\ x # <<>> /\ Last(x) = LoadingMessage(n + 1) /\ Answering(x, n + 1)
<1> DEFINE m == LoadingMessage(n + 1)
<1>1. m \in MessageRow /\ m.req = n + 1 /\ m.text = <<>> /\ m.from = "assistant"
  BY NewMessages
<1>2. Extended(x, p, m)
  BY DEF Extended
<1>3. n + 1 \in Nat /\ n <= n + 1 /\ m.req <= n + 1 /\ Authors(m.text) \subseteq {0, m.req}
  BY <1>1, NewTexts
<1> HIDE DEF m
<1>4. Good(x, lost, n + 1) /\ x # <<>> /\ Last(x) = m
  BY <1>1, <1>2, <1>3, AppendedGood
<1> QED BY <1>1, <1>4 DEF Answering, m

(* A click that sends: the list it shows ends with the new answer.         *)
LEMMA ClickShows ==
  ASSUME RefsOK, PageOK, RefsOK', CanSend, sendChat, UNCHANGED fate,
         NEW x, Good(x, Lost, count.sends + 1), Answering(x, count.sends + 1),
         ClickRenders(<<SetMessages(x)>>, chat.gen + 1)
  PROVE  PageOK'
<1> DEFINE n == count.sends
<1>1. /\ n \in Nat /\ n + 1 \in Requests /\ count'.sends = n + 1 /\ n <= count'.sends
      /\ chat.gen \in Nat /\ chat.gen + 1 \in Nat /\ chat.gen <= chat.gen + 1 /\ next'.req
  BY SendCounts
<1>2. Good(x, Lost, n + 1) /\ Answering(x, n + 1)
  OBVIOUS
<1>3. x \in Messages
  BY <1>2 DEF Good
<1>4. messages' = x /\ queue' = <<>> /\ shown' = next' /\ (store' = store \/ store' = Persist(messages'))
  BY <1>1, <1>3, ClickSets
<1>5. Lost' = Lost /\ Lost \subseteq Lost'
  BY LostFacts
<1>6. Good(messages', Lost', count'.sends) /\ AtLast(messages', count'.sends, Lost')
  BY <1>1, <1>2, <1>4, <1>5 DEF AtLast, Answering
<1> QED BY <1>1, <1>4, <1>5, <1>6, AfterRender

(* The user sends again: the list ends with the new answer.                *)
LEMMA ClickSends ==
  ASSUME RefsOK, PageOK, RefsOK', CanSend, sendChat, UNCHANGED fate,
         NEW p, CalmList(p, Lost, count.sends),
         ClickRenders(<<SetMessages(p \o <<LoadingMessage(count.sends + 1)>>)>>, chat.gen + 1)
  PROVE  PageOK'
<1> DEFINE n == count.sends
           x == p \o <<LoadingMessage(n + 1)>>
<1>1. n \in Nat /\ n + 1 \in Requests
  BY SendCounts
<1>2. Good(x, Lost, n + 1) /\ Answering(x, n + 1)
  BY <1>1, LoadingGood
<1> HIDE DEF x
<1> QED BY <1>2, ClickShows DEF x

(* The user asks for a new answer.                                         *)
LEMMA RegenerateKeepsPage ==
  ASSUME RefsOK, PageOK, RefsOK', NEW i \in DOMAIN messages, handleRegenerateMessage(i)
  PROVE  PageOK'
<1> DEFINE k == IF messages[i].from = "user" THEN i ELSE i - 1
           p == SubSeq(messages, 1, k)
<1>1. CanSend /\ sendChat /\ UNCHANGED fate /\ ~shown.req /\ count.sends \in Nat
      /\ ClickRenders(<<SetMessages(p \o <<LoadingMessage(count.sends + 1)>>)>>, chat.gen + 1)
  BY DEF handleRegenerateMessage, Regenerated, Generating, RefsOK, RefTypes, Counts
<1>2. Good(messages, Lost, count.sends) /\ Calm(messages, Lost)
  BY <1>1 DEF PageOK, ListsOK, FlagsOK
<1>3. k \in 0..Len(messages)
  BY <1>2, ListFacts DEF Good
<1>4. CutAfter(p, messages, k)
  BY DEF CutAfter
<1> HIDE DEF p, k
<1>5. CalmList(p, Lost, count.sends)
  BY <1>1, <1>2, <1>3, <1>4, PrefixGood DEF CalmList
<1> QED BY <1>1, <1>5, ClickSends

(* The user saves an edited message, and may send the conversation.        *)
LEMMA EditKeepsPage ==
  ASSUME RefsOK, PageOK, RefsOK', NEW i \in DOMAIN messages, NEW submit \in BOOLEAN, applyEdit(i, submit)
  PROVE  PageOK'
<1> DEFINE n == count.sends
           e == Edited(i)
<1>0. n \in Nat /\ chat.gen \in Nat /\ chat.gen <= chat.gen
  BY DEF RefsOK, RefTypes, Counts
<1>1. Good(messages, Lost, n) /\ messages \in Messages
  BY DEF PageOK, ListsOK, Good
<1>2. /\ Good(e, Lost, n) /\ Len(e) = Len(messages) /\ DOMAIN e = DOMAIN messages /\ e # <<>> /\ messages # <<>>
      /\ \A j \in DOMAIN e : e[j].from = messages[j].from /\ e[j].req = messages[j].req /\ e[j].status = messages[j].status
  BY <1>0, <1>1, EditedGood DEF Edited
<1>3. /\ DOMAIN messages = 1..Len(messages) /\ Len(messages) \in Nat /\ Len(messages) \in DOMAIN messages
      /\ Last(messages) = messages[Len(messages)] /\ Last(messages) \in MessageRow
  BY <1>1, <1>2, ListFacts
<1> HIDE DEF e
<1>4. CASE submit /\ messages[i].from = "user"
  <2> DEFINE p == SubSeq(e, 1, i)
  <2>1. CanSend /\ sendChat /\ UNCHANGED fate
        /\ ClickRenders(<<SetMessages(p \o <<LoadingMessage(n + 1)>>)>>, chat.gen + 1)
    BY <1>4 DEF applyEdit, e
  <2>2. i \in 0..Len(e)
    BY <1>2, <1>3
  <2>3. /\ p \in Messages /\ Len(p) = i /\ Good(p, Lost, n)
        /\ \A j \in DOMAIN p : j \in DOMAIN e /\ p[j] = e[j]
    <3>1. CutAfter(p, e, i)
      BY DEF CutAfter
    <3> HIDE DEF p
    <3> QED BY <1>0, <1>2, <2>2, <3>1, PrefixGood
  <2>4. Settled(p)
    <3>1. p # <<>> => Last(p) = p[i] /\ i \in DOMAIN p
      BY <2>3, ListFacts
    <3>2. p # <<>> => Last(p).from = "user"
      BY <1>2, <1>4, <2>3, <3>1
    <3> QED BY <3>2 DEF Settled, isAssistantMessagePending
  <2>5. CalmList(p, Lost, n)
    BY <1>0, <2>3, <2>4, SettledIsCalm DEF CalmList
  <2> HIDE DEF p
  <2> QED BY <2>1, <2>5, ClickSends
<1>5. CASE ~(submit /\ messages[i].from = "user")
  <2> DEFINE rs == IF queue = <<>> THEN {} ELSE {n, Last(messages).req}
  <2>1. /\ next' = next /\ ClickRenders(<<SetMessages(e)>>, chat.gen) /\ fate' = Mark(rs, "overwritten") /\ count' = count
    BY <1>5 DEF applyEdit, e
  <2>2. e \in Messages
    BY <1>2 DEF Good
  <2>3. messages' = e /\ queue' = <<>> /\ shown' = next' /\ (store' = store \/ store' = Persist(messages'))
    BY <1>0, <2>1, <2>2, ClickSets
  <2>4. Lost \subseteq Lost' /\ rs \cap Requests \subseteq Lost'
    BY <2>1, LostFacts
  <2>5. /\ Last(messages).req \in Requests /\ n \in Requests /\ Last(e).from = Last(messages).from
        /\ Last(e).req = Last(messages).req /\ Last(e) = e[Len(messages)]
    <3>1. Last(messages).req \in Requests /\ Last(messages).req <= n /\ n <= MaxSends
      <4>1. n <= MaxSends
        BY ChatAssumption DEF RefsOK, RefTypes, Counts
      <4>2. Last(messages).req \in Requests
        BY <1>3 DEF MessageRow
      <4>3. Last(messages).req <= n
        BY <1>1, <1>3 DEF Good, Upto
      <4> QED BY <4>1, <4>2, <4>3
    <3>2. Last(e) = e[Len(messages)]
      BY <1>2, <2>2, ListFacts
    <3> QED BY <1>0, <1>2, <1>3, <3>1, <3>2, ChatAssumption DEF Requests
  <2>6. queue # <<>> => {n, Last(e).req} \subseteq Lost'
    BY <2>4, <2>5
  <2>7. Good(e, Lost', n)
    BY <1>0, <1>2, <2>4, GoodMonotone
  <2>8. ASSUME next.req PROVE AtLast(e, n, Lost')
    <3>1. CASE queue = <<>>
      <4>1. AtLast(messages, n, Lost)
        BY <2>8, <3>1 DEF PageOK, FlagsOK, HasSet
      <4> QED BY <1>2, <2>4, <2>5, <4>1 DEF AtLast
    <3>2. CASE queue # <<>>
      BY <2>6, <3>2 DEF AtLast
    <3> QED BY <3>1, <3>2
  <2>9. ASSUME ~next.req PROVE Calm(e, Lost')
    <3>1. CASE queue = <<>>
      <4>1. Calm(messages, Lost)
        BY <2>9, <3>1 DEF PageOK, FlagsOK, Terminated
      <4> QED BY <1>2, <2>4, <4>1 DEF Calm, isAssistantMessagePending
    <3>2. CASE queue # <<>>
      <4>1. SpinLast(e, Lost') /\ Last(e) = e[Len(e)] /\ Last(e).req \in Lost'
        BY <1>2, <2>5, <2>6, <2>7, <3>2 DEF Good
      <4> QED BY <4>1 DEF Calm, SpinLast
    <3> QED BY <3>1, <3>2
  <2> QED BY <1>0, <2>1, <2>3, <2>4, <2>7, <2>8, <2>9, AfterRender
<1> QED BY <1>4, <1>5

(* The user clears the conversation.                                       *)
LEMMA ClearKeepsPage ==
  ASSUME RefsOK, PageOK, RefsOK', handleClearMessages
  PROVE  PageOK'
<1>0. count \in Counts /\ count.sends \in Nat /\ chat.gen \in Nat /\ chat.gen <= chat.gen
  BY DEF RefsOK, RefTypes, Counts
<1>1. next' = next /\ ClickRenders(<<SetMessages(<<>>)>>, chat.gen) /\ UNCHANGED fate /\ CountEdit
  BY DEF handleClearMessages
<1>2. count'.sends = count.sends
  BY <1>0, <1>1 DEF CountEdit, Counts
<1>3. <<>> \in Messages /\ DOMAIN <<>> = {}
  BY DEF Messages
<1>4. messages' = <<>> /\ queue' = <<>> /\ shown' = next' /\ (store' = store \/ store' = Persist(messages'))
  BY <1>0, <1>1, <1>3, ClickSets
<1>5. Lost' = Lost
  BY <1>1, LostFacts
<1>6. Good(<<>>, Lost, count.sends) /\ Calm(<<>>, Lost) /\ AtLast(<<>>, count.sends, Lost)
  BY <1>3 DEF Good, OwnText, SpinLast, Upto, Calm, AtLast
<1> QED BY <1>0, <1>2, <1>4, <1>5, <1>6, AfterRender

(* The updates of the callbacks.                                           *)
LEMMA CallUpdates ==
  ASSUME NEW op \in Replies \cup {"stop"}, NEW gen \in Nat, NEW text \in Texts
  PROVE  /\ Update(op, gen, text) \in Updates /\ Update(op, gen, text).op = op
         /\ Update(op, gen, text).gen = gen /\ Update(op, gen, text).text = text
BY DEF Update, Updates, ReplyUpdate

(* Two elements in a row.                                                  *)
LEMMA TwoInARow ==
  ASSUME NEW u, NEW v
  PROVE  <<u>> \o <<v>> = <<u, v>> /\ <<>> \o <<v>> = <<v>>
<1> DEFINE s == <<u>> \o <<v>>
           t == <<u, v>>
<1>1. <<u>> \in Seq({u, v}) /\ <<v>> \in Seq({u, v}) /\ t \in Seq({u, v}) /\ Len(t) = 2 /\ t[1] = u /\ t[2] = v
  OBVIOUS
<1>2. s \in Seq({u, v}) /\ Len(s) = 2 /\ s[1] = u /\ s[2] = v
  BY <1>1, ConcatProperties
<1>3. \A i \in 1..2 : i = 1 \/ i = 2
  OBVIOUS
<1> HIDE DEF s, t
<1>4. s = t
  BY <1>1, <1>2, <1>3, SeqEqual
<1>5. <<>> \o <<v>> = <<v>>
  BY <1>1, ConcatEmptySeq
<1> QED BY <1>4, <1>5 DEF s, t

(* The user stops the answer: nothing spins any more, whatever is queued.  *)
LEMMA StopKeepsPage ==
  ASSUME RefsOK, PageOK, RefsOK', stopGeneration
  PROVE  PageOK'
<1> DEFINE n == count.sends
           g == chat.gen + 1
           chunk == Update("chunk", chat.gen, chat.text)
           stop == Update("stop", g, <<>>)
           us == FlushUpdates(chat.gen) \o <<stop>>
<1>0. /\ n \in Nat /\ chat.gen \in Nat /\ g \in Nat /\ chat.gen <= g /\ g # chat.gen
      /\ chat.text \in Texts /\ Authors(chat.text) \subseteq {n}
  BY DEF RefsOK, RefTypes, RefsAgree, Counts
<1>1. /\ shown.req /\ ClickRenders(us, g) /\ count' = count /\ next' = Idle /\ fate' = Mark({n}, "cut")
  BY DEF stopGeneration, RefsOK, RefsAgree, Generating
<1>2. ~next'.req /\ Lost' = Lost
  BY <1>1, LostFacts DEF Idle
<1>3. chunk \in Updates /\ chunk.op = "chunk" /\ chunk.gen = chat.gen /\ chunk.text = chat.text
  BY <1>0, CallUpdates DEF Replies
<1>4. stop \in Updates /\ stop.op = "stop" /\ stop.gen = g /\ stop.text = <<>>
  <2>1. <<>> \in Texts /\ "stop" \in Replies \cup {"stop"}
    BY NewTexts
  <2> HIDE DEF g
  <2> QED BY <1>0, <2>1 DEF Update, Updates, ReplyUpdate
<1>5. us = IF chat.text # <<>> THEN <<chunk, stop>> ELSE <<stop>>
  <2>1. FlushUpdates(chat.gen) = IF chat.text # <<>> THEN <<chunk>> ELSE <<>>
    BY DEF FlushUpdates
  <2> HIDE DEF chunk, stop
  <2>2. <<chunk>> \o <<stop>> = <<chunk, stop>> /\ <<>> \o <<stop>> = <<stop>>
    BY TwoInARow
  <2> QED BY <2>1, <2>2
<1> HIDE DEF chunk, stop, us, g
<1>6. us \in Seq(Updates)
  BY <1>3, <1>4, <1>5
<1>7. PICK vs, tr :
        /\ Pending(tr[0], g) /\ messages' = tr[Len(us)]
        /\ \A k \in 1..Len(us) : tr[k] = RunUpdater(tr[k - 1], vs[k], g)
        /\ \A k \in 1..Len(us) : Marked(vs[k], us[k])
  BY <1>0, <1>1, <1>6, ClickWalks
<1>8. queue' = <<>> /\ shown' = next' /\ (store' = store \/ store' = Persist(messages'))
  BY <1>0, <1>1, <1>6, ClickWalks
<1>9. Good(tr[0], Lost, n) /\ AtLast(tr[0], n, Lost)
  <2>1. CASE queue = <<>>
    <3>1. ~HasSet /\ tr[0] = messages
      BY <1>7, <2>1 DEF Pending, HasSet
    <3> QED BY <1>1, <3>1 DEF PageOK, FlagsOK, ListsOK
  <2>2. CASE queue # <<>>
    BY <1>7, <2>2 DEF Pending
  <2> QED BY <2>1, <2>2
<1>10. ASSUME NEW x, NEW v, Good(x, Lost, n), AtLast(x, n, Lost), Marked(v, stop), NEW y, y = RunUpdater(x, v, g)
       PROVE  Good(y, Lost, n) /\ Settled(y)
  <2>1. v.op = "stop" /\ v.gen = g /\ v.text = <<>>
    BY <1>4, <1>10, MarkedUpdate
  <2>2. v.op \in Replies \cup {"stop"} /\ v.text \in Texts /\ Authors(v.text) \subseteq {n} /\ ~Stale(v, g)
    BY <2>1, NewTexts DEF Stale
  <2>3. x \in Messages
    BY <1>10 DEF Good
  <2>4. Good(y, Lost, n)
    BY <1>0, <1>10, <2>2, GoodReply
  <2>5. Settled(y)
    BY <1>10, <2>1, <2>2, <2>3, ReplyKeepsLast
  <2> QED BY <2>4, <2>5
<1>11. Good(messages', Lost, n) /\ Settled(messages')
  <2>1. CASE chat.text = <<>>
    <3>1. us = <<stop>>
      BY <1>5, <2>1
    <3>2. Len(us) = 1 /\ us[1] = stop
      BY <3>1
    <3>3. Marked(vs[1], stop) /\ messages' = RunUpdater(tr[0], vs[1], g)
      BY <1>7, <3>2
    <3> QED BY <1>9, <1>10, <3>3
  <2>2. CASE chat.text # <<>>
    <3>1. us = <<chunk, stop>>
      BY <1>5, <2>2
    <3>2. Len(us) = 2 /\ us[1] = chunk /\ us[2] = stop
      BY <3>1
    <3> DEFINE x == tr[1]
               v == vs[1]
    <3>3. /\ Marked(v, chunk) /\ x = RunUpdater(tr[0], v, g)
          /\ Marked(vs[2], stop) /\ messages' = RunUpdater(x, vs[2], g)
      BY <1>7, <3>2
    <3> HIDE DEF x, v
    <3>4. v.op \in Replies \cup {"stop"} /\ v.text = chat.text
      BY <1>3, <3>3, MarkedUpdate DEF Replies
    <3>5. Good(x, Lost, n)
      BY <1>0, <1>9, <3>3, <3>4, GoodReply
    <3>6. /\ (x = <<>> <=> tr[0] = <<>>)
          /\ tr[0] # <<>> => Last(x).from = Last(tr[0]).from /\ Last(x).req = Last(tr[0]).req
      <4>1. tr[0] \in Messages /\ v.text \in Texts
        BY <1>0, <1>9, <3>4 DEF Good
      <4> QED BY <3>3, <3>4, <4>1, ReplyKeepsLast
    <3>7. AtLast(x, n, Lost)
      BY <1>9, <3>6 DEF AtLast
    <3> QED BY <1>10, <3>3, <3>5, <3>7
  <2> QED BY <2>1, <2>2
<1>12. Calm(messages', Lost)
  BY <1>0, <1>11, SettledIsCalm
<1>13. Lost \subseteq Lost' /\ n <= count'.sends
  BY <1>0, <1>1, <1>2
<1> QED BY <1>1, <1>2, <1>8, <1>11, <1>12, <1>13, AfterRender

(* The callbacks of the request under way queue their updates.             *)
LEMMA CallsKeepPage ==
  ASSUME RefsOK, PageOK, RefsOK', next.req, NEW us \in Seq(Updates), us # <<>>,
         \A i \in DOMAIN us : us[i].op \in Replies /\ us[i].gen = chat.gen /\ Authors(us[i].text) \subseteq {count.sends},
         updateMessages(us), UNCHANGED <<messages, shown, count, fate>>, chat'.gen = chat.gen,
         ~next'.req => Ends(us[Len(us)])
  PROVE  PageOK'
<1> DEFINE n == count.sends
<1>0. n \in Nat /\ chat.gen \in Nat
  BY DEF RefsOK, RefTypes, Counts
<1>1. PICK now \in MayRunNow(us) :
        /\ queue' = Queued(us, now)
        /\ store' = IF now THEN Persist(RunUpdater(messages, queue'[1], chat.gen)) ELSE store
  BY DEF updateMessages
<1> DEFINE q == queue'
           k == Len(queue)
<1>2. /\ now \in BOOLEAN /\ (now => queue = <<>> /\ next = shown)
      /\ Len(q) \in Nat /\ DOMAIN q = 1..Len(q) /\ Len(q) = k + Len(us) /\ k \in Nat /\ Len(us) \in Nat
      /\ \A i \in 1..k : q[i] = queue[i]
      /\ \A i \in 1..Len(us) : Marked(q[k + i], us[i]) /\ (q[k + i].ran => i = 1 /\ now)
  <2> DEFINE w == Queued(us, now)
  <2>1. /\ now \in BOOLEAN /\ (now => us # <<>> /\ queue = <<>> /\ next = shown)
        /\ Len(w) \in Nat /\ DOMAIN w = 1..Len(w) /\ Len(w) = k + Len(us) /\ k \in Nat /\ Len(us) \in Nat
        /\ \A i \in 1..k : w[i] = queue[i]
        /\ \A i \in 1..Len(us) : Marked(w[k + i], us[i]) /\ (w[k + i].ran => i = 1 /\ now)
    BY QueuedFacts
  <2>2. q = w
    BY <1>1
  <2> HIDE DEF w
  <2> QED BY <2>1, <2>2
<1>3. Lost' = Lost /\ ListsOK /\ FlagsOK /\ QueueOK(queue, chat.gen, n, Lost) /\ store \in Store
  BY LostFacts DEF PageOK
<1>4. /\ queue \in Seq(SetUpdate \cup CallUpdate) /\ DOMAIN queue = 1..k /\ \A i \in DOMAIN queue : queue[i].ran => i = 1
      /\ \A i \in DOMAIN queue : IF IsSet(queue[i]) THEN SetOK(queue[i], queue, i, n, Lost) ELSE CallOK(queue[i], queue, i, chat.gen, n)
      /\ \A i \in DOMAIN queue : queue[i] \in SetUpdate \cup CallUpdate
  BY <1>3 DEF QueueOK
<1>5. ASSUME NEW i \in 1..Len(us)
      PROVE  /\ us[i] \in Updates /\ q[k + i] \in CallUpdate /\ q[k + i].op = us[i].op /\ q[k + i].gen = chat.gen
             /\ Authors(q[k + i].text) \subseteq {n} /\ ~IsSet(q[k + i])
  <2>1. us[i] \in Updates /\ us[i].op \in Replies /\ us[i].gen = chat.gen /\ Authors(us[i].text) \subseteq {n} /\ i \in DOMAIN us
    <3>1. DOMAIN us = 1..Len(us) /\ \A j \in DOMAIN us : us[j] \in Updates
      OBVIOUS
    <3> QED BY <3>1
  <2> DEFINE v == q[k + i]
             u == us[i]
  <2>2. Marked(v, u) /\ u \in Updates /\ u.op \in Replies
    BY <1>2, <2>1
  <2> HIDE DEF v, u
  <2>3. v \in ReplyUpdate /\ v.op = u.op /\ v.gen = u.gen /\ v.text = u.text
    BY <2>2, MarkedUpdate
  <2>4. v \in CallUpdate /\ ~IsSet(v)
    BY <2>2, <2>3 DEF ReplyUpdate, CallUpdate, IsSet, Replies
  <2> QED BY <2>1, <2>3, <2>4 DEF v, u
<1>6. ASSUME NEW i \in DOMAIN q PROVE i \in 1..k \/ (i - k \in 1..Len(us) /\ i = k + (i - k) /\ i > k)
  BY <1>2
<1>7. ASSUME NEW i \in DOMAIN q, i > k PROVE q[i] \in CallUpdate /\ q[i].gen = chat.gen /\ Authors(q[i].text) \subseteq {n} /\ ~IsSet(q[i])
  <2>1. i - k \in 1..Len(us) /\ i = k + (i - k)
    BY <1>2, <1>7
  <2> QED BY <1>5, <2>1
<1>8. ASSUME NEW i \in 1..k PROVE NoSetAfter(q, i) <=> NoSetAfter(queue, i)
  BY <1>2, <1>4, <1>6, <1>7 DEF NoSetAfter
<1>9. HasSet' <=> HasSet
  BY <1>2, <1>4, <1>6, <1>7, SMTT(60) DEF HasSet
<1>10. QueueOK(q, chat.gen, n, Lost)
  <2>1. \A i \in DOMAIN q : q[i] \in SetUpdate \cup CallUpdate
    BY <1>2, <1>4, <1>6, <1>7
  <2>2. q \in Seq(SetUpdate \cup CallUpdate)
    <3>1. q = [i \in 1..Len(q) |-> q[i]]
      BY <1>1, <1>2, <1>4 DEF Queued
    <3> HIDE DEF q
    <3> QED BY <1>2, <2>1, <3>1
  <2>3. ASSUME NEW i \in DOMAIN q, q[i].ran PROVE i = 1
    <3>1. CASE i \in 1..k
      BY <1>2, <1>4, <2>3, <3>1
    <3>2. CASE i \notin 1..k
      <4>1. i - k \in 1..Len(us) /\ i = k + (i - k)
        BY <1>6, <3>2
      <4>2. i - k = 1 /\ now
        BY <1>2, <2>3, <4>1
      <4>3. k = 0
        BY <1>2, <4>2
      <4> QED BY <1>2, <4>1, <4>2, <4>3
    <3> QED BY <3>1, <3>2
  <2>4. ASSUME NEW i \in DOMAIN q
        PROVE  IF IsSet(q[i]) THEN SetOK(q[i], q, i, n, Lost) ELSE CallOK(q[i], q, i, chat.gen, n)
    <3>1. CASE i \in 1..k
      <4>1. q[i] = queue[i] /\ i \in DOMAIN queue
        BY <1>2, <1>4, <3>1
      <4>2. NoSetAfter(q, i) <=> NoSetAfter(queue, i)
        BY <1>8, <3>1
      <4>3. IF IsSet(queue[i]) THEN SetOK(queue[i], queue, i, n, Lost) ELSE CallOK(queue[i], queue, i, chat.gen, n)
        BY <1>4, <4>1
      <4> HIDE DEF q
      <4>4. SetOK(queue[i], queue, i, n, Lost) => SetOK(queue[i], q, i, n, Lost)
        BY <4>2 DEF SetOK
      <4>5. CallOK(queue[i], queue, i, chat.gen, n) => CallOK(queue[i], q, i, chat.gen, n)
        BY <4>2 DEF CallOK
      <4> QED BY <4>1, <4>3, <4>4, <4>5
    <3>2. CASE i \notin 1..k
      <4>1. i > k
        BY <1>6, <3>2
      <4>2. NoSetAfter(q, i)
        BY <1>2, <1>7, <4>1 DEF NoSetAfter
      <4>3. q[i].gen = chat.gen /\ Authors(q[i].text) \subseteq {n} /\ ~IsSet(q[i])
        BY <1>7, <4>1
      <4> HIDE DEF q
      <4>4. CallOK(q[i], q, i, chat.gen, n)
        BY <1>0, <4>2, <4>3 DEF CallOK
      <4> QED BY <4>3, <4>4
    <3> QED BY <3>1, <3>2
  <2> HIDE DEF q
  <2> QED BY <2>2, <2>3, <2>4 DEF QueueOK
<1>11. /\ store' \in Store /\ store'.saved = store.saved /\ Good(store'.latest, Lost, n)
       /\ q[1].ran => RunUpdater(messages, q[1], chat.gen) = store'.latest
  <2>1. CASE now
    <3>1. queue = <<>> /\ next = shown /\ k = 0 /\ ~HasSet
      BY <1>2, <2>1 DEF HasSet
    <3>2. AtLast(messages, n, Lost) /\ Good(messages, Lost, n)
      BY <1>3, <3>1 DEF FlagsOK, ListsOK
    <3> DEFINE u == q[1]
               x == RunUpdater(messages, u, chat.gen)
    <3>3. 1 \in 1..Len(us) /\ k + 1 = 1
      BY <1>2, <3>1
    <3>4. u \in CallUpdate /\ Authors(u.text) \subseteq {n}
      BY <1>5, <3>3
    <3>5. u.op \in Replies \cup {"stop"} /\ u.text \in Texts
      BY <3>4 DEF CallUpdate
    <3>6. x = RunUpdater(messages, u, chat.gen)
      OBVIOUS
    <3>7. store' = [store EXCEPT !.latest = x, !.timer = TRUE]
      BY <1>1, <2>1 DEF Persist
    <3> HIDE DEF x, u
    <3>8. Good(x, Lost, n)
      BY <1>0, <3>2, <3>4, <3>5, <3>6, GoodReply
    <3>9. x \in Messages
      BY <3>8 DEF Good
    <3>10. store' \in Store /\ store'.saved = store.saved /\ store'.latest = x
      BY <1>3, <3>7, <3>9 DEF Store
    <3> QED BY <3>6, <3>8, <3>10 DEF u
  <2>2. CASE ~now
    <3>1. store' = store /\ Good(store.latest, Lost, n)
      BY <1>1, <1>3, <2>2 DEF ListsOK
    <3>2. ASSUME q[1].ran PROVE RunUpdater(messages, q[1], chat.gen) = store.latest
      <4>1. CASE k = 0
        <5>1. 1 \in 1..Len(us) /\ k + 1 = 1
          BY <1>2, <4>1
        <5> QED BY <1>2, <2>2, <3>2, <5>1
      <4>2. CASE k # 0
        <5>1. 1 \in 1..k /\ q[1] = queue[1] /\ queue # <<>>
          BY <1>2, <1>4, <4>2
        <5> QED BY <1>3, <3>2, <5>1 DEF FlagsOK
      <4> QED BY <4>1, <4>2
    <3> QED BY <1>3, <3>1, <3>2
  <2> QED BY <1>2, <2>1, <2>2
<1>12. ~next'.req => Terminated'
  <2>1. q # <<>> /\ Len(q) = k + Len(us) /\ Len(us) \in 1..Len(us)
    BY <1>2
  <2>2. Last(q) = q[k + Len(us)]
    BY <2>1 DEF Last
  <2> DEFINE v == q[k + Len(us)]
  <2>3. v.op = us[Len(us)].op /\ v.gen = chat.gen
    BY <1>5, <2>1
  <2> HIDE DEF v
  <2>4. ~next'.req => Ends(v)
    BY <2>3 DEF Ends
  <2>5. Last(queue') = v /\ queue' # <<>> /\ v.gen = chat'.gen
    BY <2>1, <2>2, <2>3 DEF v
  <2> QED BY <2>4, <2>5 DEF Terminated
<1>13. FlagsOK'
  <2>1. ~HasSet => shown.req
    BY <1>3 DEF FlagsOK
  <2>2. HasSet => \A i \in DOMAIN messages : messages[i].req < n
    BY <1>3 DEF FlagsOK
  <2>3. (~HasSet /\ shown.req => AtLast(messages, n, Lost)) /\ (~shown.req => Calm(messages, Lost))
    BY <1>3 DEF FlagsOK
  <2> HIDE DEF q
  <2>4. queue'[1].ran => RunUpdater(messages, queue'[1], chat'.gen) = store'.latest
    BY <1>11 DEF q
  <2> QED BY <1>3, <1>9, <1>12, <2>1, <2>2, <2>3, <2>4 DEF FlagsOK
<1>14. ListsOK'
  BY <1>3, <1>11 DEF ListsOK
<1> QED BY <1>3, <1>10, <1>11, <1>13, <1>14 DEF PageOK

(* A list with the two messages of a new request.                          *)
LEMMA PairList ==
  ASSUME NEW ms \in Messages, NEW r \in Requests
  PROVE  \E p : /\ Extended(p, ms, UserMessage(r))
               /\ Extended(appendUserMessagePair(ms, r), p, LoadingMessage(r))
<1> DEFINE m == UserMessage(r)
           l == LoadingMessage(r)
           p == ms \o <<m>>
           x == appendUserMessagePair(ms, r)
<1>1. m \in MessageRow /\ l \in MessageRow
  BY NewMessages
<1>2. x = ms \o <<m, l>>
  BY DEF appendUserMessagePair
<1> HIDE DEF m, l, x
<1>3. ms \in Seq(MessageRow) /\ <<m>> \in Seq(MessageRow) /\ <<l>> \in Seq(MessageRow)
  BY <1>1 DEF Messages, MessageRow
<1>4. <<m>> \o <<l>> = <<m, l>>
  BY TwoInARow
<1>5. (ms \o <<m>>) \o <<l>> = ms \o (<<m>> \o <<l>>)
  BY <1>3, ConcatAssociative
<1>6. x = p \o <<l>>
  BY <1>2, <1>4, <1>5
<1>7. Extended(p, ms, m) /\ Extended(x, p, l)
  BY <1>6 DEF Extended
<1> HIDE DEF p
<1> QED BY <1>7 DEF m, l, x

(* It ends with the answer to the new request.                             *)
LEMMA PairGood ==
  ASSUME NEW ms, NEW lost, NEW n \in Nat, n + 1 \in Requests, CalmList(ms, lost, n)
  PROVE  LET x == appendUserMessagePair(ms, n + 1)
         IN  Good(x, lost, n + 1) /\ x # <<>> /\ Last(x) = LoadingMessage(n + 1)
<1> DEFINE m == UserMessage(n + 1)
           l == LoadingMessage(n + 1)
           x == appendUserMessagePair(ms, n + 1)
<1>1. /\ m \in MessageRow /\ m.req = n + 1 /\ m.text = EditedText /\ ~isAssistantMessagePending(m)
      /\ l \in MessageRow /\ l.req = n + 1 /\ l.text = <<>>
  BY NewMessages
<1>2. ms \in Messages
  BY DEF CalmList, Good
<1>3. PICK p : Extended(p, ms, m) /\ Extended(x, p, l)
  BY <1>2, PairList
<1> HIDE DEF m, l, x
<1>4. /\ Authors(m.text) \subseteq {0, m.req} /\ n <= n /\ m.req <= n + 1 /\ n + 1 \in Nat /\ n <= n + 1
      /\ Authors(l.text) \subseteq {0, l.req} /\ l.req <= n + 1 /\ n + 1 <= n + 1
  BY <1>1, NewTexts
<1>5. CalmList(p, lost, n + 1)
  BY <1>1, <1>3, <1>4, AppendedGood
<1>6. Good(x, lost, n + 1) /\ x # <<>> /\ Last(x) = l
  BY <1>1, <1>3, <1>4, <1>5, AppendedGood
<1> QED BY <1>6 DEF l, x

(* The user sends a message: the list waits in the queue.                  *)
LEMMA SendKeepsPage ==
  ASSUME RefsOK, PageOK, RefsOK', handleSendMessage
  PROVE  PageOK'
<1> DEFINE n == count.sends
           x == appendUserMessagePair(messages, n + 1)
           us == <<SetMessages(x)>>
           q == queue'
           k == Len(queue)
           g == chat.gen + 1
<1>0. CanSend /\ sendChat /\ ~shown.req /\ updateMessages(us) /\ UNCHANGED <<messages, shown, fate>>
  BY DEF handleSendMessage, Generating
<1>1. /\ n \in Nat /\ n + 1 \in Requests /\ count'.sends = n + 1 /\ n + 1 \in Nat /\ n <= n + 1
      /\ chat.gen \in Nat /\ g \in Nat /\ chat'.gen = g /\ next'.req
  BY <1>0, SendCounts
<1>2. Lost' = Lost /\ ListsOK /\ FlagsOK /\ QueueOK(queue, chat.gen, n, Lost) /\ store \in Store
  BY <1>0, LostFacts DEF PageOK
<1>3. CalmList(messages, Lost, n) /\ messages \in Messages
  BY <1>0, <1>2 DEF ListsOK, FlagsOK, CalmList, Good
<1>4. Good(x, Lost, n + 1) /\ x # <<>> /\ Last(x) = LoadingMessage(n + 1)
  BY <1>1, <1>3, PairGood
<1> HIDE DEF x
<1>5. x \in Messages
  BY <1>4 DEF Good
<1>6. us \in Seq(Updates) /\ Len(us) = 1 /\ us[1] = SetMessages(x) /\ SetMessages(x) \in Updates
      /\ SetMessages(x).op = "set" /\ SetMessages(x).msgs = x
  BY <1>5 DEF SetMessages, Updates, SetUpdate
<1> HIDE DEF us
<1>7. PICK now \in MayRunNow(us) :
        /\ queue' = Queued(us, now)
        /\ store' = IF now THEN Persist(RunUpdater(messages, queue'[1], chat.gen)) ELSE store
  BY <1>0 DEF updateMessages
<1>8. /\ now \in BOOLEAN /\ (now => queue = <<>>)
      /\ DOMAIN q = 1..Len(q) /\ Len(q) = k + 1 /\ k \in Nat
      /\ \A i \in 1..k : q[i] = queue[i]
      /\ Marked(q[k + 1], us[1]) /\ (q[k + 1].ran => now)
  <2> DEFINE w == Queued(us, now)
  <2>1. /\ now \in BOOLEAN /\ (now => us # <<>> /\ queue = <<>> /\ next = shown)
        /\ Len(w) \in Nat /\ DOMAIN w = 1..Len(w) /\ Len(w) = k + Len(us) /\ k \in Nat /\ Len(us) \in Nat
        /\ \A i \in 1..k : w[i] = queue[i]
        /\ \A i \in 1..Len(us) : Marked(w[k + i], us[i]) /\ (w[k + i].ran => i = 1 /\ now)
    BY <1>6, QueuedFacts
  <2>2. q = w /\ 1 \in 1..Len(us)
    BY <1>6, <1>7
  <2> HIDE DEF w
  <2> QED BY <1>6, <2>1, <2>2
<1> DEFINE v == q[k + 1]
<1>9. v \in SetUpdate /\ v.op = "set" /\ v.msgs = x
  <2> HIDE DEF v
  <2>1. Marked(v, SetMessages(x))
    BY <1>6, <1>8 DEF v
  <2> QED BY <1>6, <2>1, MarkedUpdate
<1>10. /\ queue \in Seq(SetUpdate \cup CallUpdate) /\ DOMAIN queue = 1..k /\ \A i \in DOMAIN queue : queue[i].ran => i = 1
       /\ \A i \in DOMAIN queue : IF IsSet(queue[i]) THEN SetOK(queue[i], queue, i, n, Lost) ELSE CallOK(queue[i], queue, i, chat.gen, n)
       /\ \A i \in DOMAIN queue : queue[i] \in SetUpdate \cup CallUpdate
  BY <1>2 DEF QueueOK
<1>11. \A i \in DOMAIN q : i \in 1..k \/ i = k + 1
  BY <1>8
<1>12. IsSet(v) /\ k + 1 \in DOMAIN q
  BY <1>8, <1>9 DEF IsSet
<1>13. QueueOK(q, g, n + 1, Lost)
  <2>1. \A i \in DOMAIN q : q[i] \in SetUpdate \cup CallUpdate
    BY <1>8, <1>9, <1>10, <1>11
  <2>2. q \in Seq(SetUpdate \cup CallUpdate)
    <3>1. q = [i \in 1..Len(q) |-> q[i]]
      BY <1>7, <1>8, <1>10 DEF Queued
    <3>2. Len(q) \in Nat
      BY <1>8
    <3> HIDE DEF q
    <3> QED BY <1>8, <2>1, <3>1, <3>2
  <2>3. ASSUME NEW i \in DOMAIN q, q[i].ran PROVE i = 1
    <3>1. CASE i \in 1..k
      BY <1>8, <1>10, <2>3, <3>1
    <3>2. CASE i = k + 1
      <4>1. k = 0
        BY <1>8, <2>3, <3>2
      <4> QED BY <3>2, <4>1
    <3> QED BY <1>11, <3>1, <3>2
  <2>4. ASSUME NEW i \in DOMAIN q
        PROVE  IF IsSet(q[i]) THEN SetOK(q[i], q, i, n + 1, Lost) ELSE CallOK(q[i], q, i, g, n + 1)
    <3>1. CASE i \in 1..k
      <4>1. q[i] = queue[i] /\ i \in DOMAIN queue /\ queue[i] \in SetUpdate \cup CallUpdate
        BY <1>8, <1>10, <3>1
      <4>2. ~NoSetAfter(q, i)
        BY <1>8, <1>12, <3>1 DEF NoSetAfter
      <4>3. CASE IsSet(queue[i])
        <5> DEFINE u == queue[i]
        <5>1. SetOK(u, queue, i, n, Lost)
          BY <1>10, <4>1, <4>3
        <5>2. Good(u.msgs, Lost, n) /\ u.msgs # <<>> /\ Last(u.msgs) = LoadingMessage(Last(u.msgs).req)
          BY <5>1 DEF SetOK
        <5>3. Good(u.msgs, Lost, n + 1)
          BY <1>1, <5>2, GoodMonotone
        <5>4. SetOK(u, q, i, n + 1, Lost)
          BY <4>2, <5>2, <5>3 DEF SetOK
        <5> QED BY <4>1, <4>3, <5>4
      <4>4. CASE ~IsSet(queue[i])
        <5> DEFINE u == queue[i]
        <5>1. CallOK(u, queue, i, chat.gen, n) /\ u.gen \in Nat
          BY <1>10, <4>1, <4>4 DEF CallUpdate, SetUpdate, IsSet
        <5>2. u.gen <= g /\ u.gen # g
          BY <1>1, <5>1 DEF CallOK
        <5>3. CallOK(u, q, i, g, n + 1)
          BY <5>2 DEF CallOK
        <5> QED BY <4>1, <4>4, <5>3
      <4> QED BY <4>3, <4>4
    <3>2. CASE i = k + 1
      <4>1. SetOK(v, q, k + 1, n + 1, Lost)
        <5>1. Last(x).req = n + 1
          BY <1>1, <1>4, NewMessages
        <5> HIDE DEF q, v
        <5> QED BY <1>4, <1>9, <5>1 DEF SetOK
      <4> QED BY <1>12, <3>2, <4>1
    <3> QED BY <1>11, <3>1, <3>2
  <2> HIDE DEF q
  <2> QED BY <2>2, <2>3, <2>4 DEF QueueOK
<1>14. Good(store.latest, Lost, n + 1) /\ Good(store.saved, Lost, n + 1) /\ Good(messages, Lost, n + 1)
  BY <1>1, <1>2, GoodMonotone DEF ListsOK
<1>15. /\ store' \in Store /\ store'.saved = store.saved /\ Good(store'.latest, Lost, n + 1)
       /\ q[1].ran => RunUpdater(messages, q[1], g) = store'.latest
  <2>1. CASE now
    <3>1. k = 0 /\ k + 1 = 1 /\ q[1] = v
      BY <1>8, <2>1
    <3>2. RunUpdater(messages, q[1], chat.gen) = x /\ RunUpdater(messages, q[1], g) = x
      BY <1>9, <3>1, PageUpdate
    <3>3. store' = [store EXCEPT !.latest = x, !.timer = TRUE]
      BY <1>7, <2>1, <3>2 DEF Persist
    <3>4. store' \in Store /\ store'.saved = store.saved /\ store'.latest = x
      BY <1>2, <1>5, <3>3 DEF Store
    <3> QED BY <1>4, <3>2, <3>4
  <2>2. CASE ~now
    <3>1. store' = store
      BY <1>7, <2>2
    <3>2. ASSUME q[1].ran PROVE RunUpdater(messages, q[1], g) = store.latest
      <4>1. k # 0
        BY <1>8, <2>2, <3>2
      <4>2. 1 \in 1..k /\ q[1] = queue[1] /\ queue # <<>> /\ queue[1] \in SetUpdate \cup CallUpdate
        BY <1>8, <1>10, <4>1
      <4>3. RunUpdater(messages, queue[1], chat.gen) = store.latest
        BY <1>2, <3>2, <4>2 DEF FlagsOK
      <4> QED BY <3>2, <4>2, <4>3, RanUpdate
    <3> QED BY <1>2, <1>14, <3>1, <3>2
  <2> QED BY <1>8, <2>1, <2>2
<1>16. HasSet'
  BY <1>12 DEF HasSet
<1>17. \A i \in DOMAIN messages : messages[i].req < n + 1
  <2>1. Upto(messages, n) /\ \A i \in DOMAIN messages : messages[i].req \in Nat
    BY <1>3, ListFacts, ChatAssumption DEF CalmList, Good, MessageRow, Requests
  <2> QED BY <1>1, <2>1 DEF Upto
<1>18. FlagsOK'
  <2>1. Calm(messages, Lost)
    BY <1>3 DEF CalmList
  <2> HIDE DEF q
  <2>2. queue'[1].ran => RunUpdater(messages, queue'[1], chat'.gen) = store'.latest
    BY <1>1, <1>15 DEF q
  <2> QED BY <1>0, <1>1, <1>2, <1>16, <1>17, <2>1, <2>2 DEF FlagsOK
<1>19. ListsOK'
  BY <1>0, <1>1, <1>2, <1>14, <1>15 DEF ListsOK
<1> QED BY <1>1, <1>2, <1>13, <1>15, <1>18, <1>19 DEF PageOK

(* A prompt of the empty conversation is sent.                             *)
LEMMA SelectPromptKeepsPage ==
  ASSUME RefsOK, PageOK, RefsOK', onSelectPrompt
  PROVE  PageOK'
<1> DEFINE n == count.sends
           x == appendUserMessagePair(messages, n + 1)
<1>1. CanSend /\ sendChat /\ UNCHANGED fate /\ messages = <<>> /\ ClickRenders(<<SetMessages(x)>>, chat.gen + 1)
  BY DEF onSelectPrompt
<1>2. n \in Nat /\ n + 1 \in Requests
  BY <1>1, SendCounts
<1>3. Good(messages, Lost, n)
  BY DEF PageOK, ListsOK
<1>4. Calm(messages, Lost)
  BY <1>1 DEF Calm
<1>5. Good(x, Lost, n + 1) /\ x # <<>> /\ Last(x) = LoadingMessage(n + 1)
  BY <1>2, <1>3, <1>4, PairGood DEF CalmList
<1> HIDE DEF x
<1>6. Answering(x, n + 1)
  BY <1>2, <1>5, NewMessages DEF Answering
<1> QED BY <1>1, <1>5, <1>6, ClickShows DEF x

(* A step that touches neither the messages nor the queue.                 *)
LEMMA QuietKeepsPage ==
  ASSUME RefsOK, PageOK, UNCHANGED <<messages, shown, queue, store, count, fate>>,
         next'.req <=> next.req, chat'.gen = chat.gen
  PROVE  PageOK'
<1>1. Lost' = Lost
  BY LostFacts
<1>2. (HasSet' <=> HasSet) /\ (Terminated' <=> Terminated)
  BY DEF HasSet, Terminated
<1>3. FlagsOK'
  BY <1>1, <1>2 DEF PageOK, FlagsOK
<1>4. ListsOK'
  BY <1>1 DEF PageOK, ListsOK
<1> QED BY <1>1, <1>3, <1>4 DEF PageOK

(* The updates that end an answer: the pending chunk comes first.          *)
LEMMA EndingUpdates ==
  ASSUME RefsOK, NEW u \in Updates, u.op \in Replies, u.gen = chat.gen, Authors(u.text) \subseteq {count.sends},
         NEW us, us = FlushUpdates(chat.gen) \o <<u>>
  PROVE  /\ us \in Seq(Updates) /\ us # <<>> /\ us[Len(us)] = u
         /\ \A i \in DOMAIN us : us[i].op \in Replies /\ us[i].gen = chat.gen /\ Authors(us[i].text) \subseteq {count.sends}
<1> DEFINE c == Update("chunk", chat.gen, chat.text)
<1>1. chat.gen \in Nat /\ chat.text \in Texts /\ Authors(chat.text) \subseteq {count.sends}
  BY DEF RefsOK, RefTypes, RefsAgree
<1>2. c \in Updates /\ c.op \in Replies /\ c.gen = chat.gen /\ c.text = chat.text
  BY <1>1, CallUpdates DEF Replies
<1>3. FlushUpdates(chat.gen) = IF chat.text # <<>> THEN <<c>> ELSE <<>>
  BY DEF FlushUpdates
<1> HIDE DEF c
<1>4. us = <<c, u>> \/ us = <<u>>
  <2>1. <<c>> \o <<u>> = <<c, u>> /\ <<>> \o <<u>> = <<u>>
    BY TwoInARow
  <2> QED BY <1>3, <2>1
<1>5. CASE us = <<c, u>>
  <2>0. <<c, u>> \in Seq(Updates) /\ Len(<<c, u>>) = 2 /\ <<c, u>>[1] = c /\ <<c, u>>[2] = u
    BY <1>2
  <2>1. us \in Seq(Updates) /\ Len(us) = 2 /\ us[1] = c /\ us[2] = u
    BY <1>5, <2>0, Zenon
  <2>2. us # <<>> /\ \A i \in DOMAIN us : i = 1 \/ i = 2
    BY <2>1
  <2> QED BY <1>1, <1>2, <2>1, <2>2
<1>6. CASE us = <<u>>
  <2>0. <<u>> \in Seq(Updates) /\ Len(<<u>>) = 1 /\ <<u>>[1] = u
    OBVIOUS
  <2>1. us \in Seq(Updates) /\ Len(us) = 1 /\ us[1] = u
    BY <1>6, <2>0, Zenon
  <2>2. us # <<>> /\ \A i \in DOMAIN us : i = 1
    BY <2>1
  <2> QED BY <2>1, <2>2
<1> QED BY <1>4, <1>5, <1>6

(* The end of the stream and its errors.                                   *)
LEMMA EndKeepsPage ==
  ASSUME RefsOK, PageOK, RefsOK', NEW r \in net, r.gen = chat.gen, NEW op \in {"complete", "error"},
         EndOfRequest(r, Update(op, r.gen, <<>>)), UNCHANGED <<messages, shown, count, fate>>
  PROVE  PageOK'
<1> DEFINE u == Update(op, chat.gen, <<>>)
           us == FlushUpdates(chat.gen) \o <<u>>
<1>1. chat \in [gen: Nat, text: Texts, timer: BOOLEAN] /\ next.req
  BY DEF RefsOK, RefTypes, RefsAgree
<1>2. chat' = [chat EXCEPT !.text = <<>>, !.timer = FALSE] /\ updateMessages(us)
  BY DEF EndOfRequest, Flushed, EndUpdates
<1>3. chat'.gen = chat.gen
  BY <1>1, <1>2
<1>4. <<>> \in Texts /\ Authors(<<>>) \subseteq {count.sends}
  BY NewTexts
<1>5. u \in Updates /\ u.op = op /\ u.gen = chat.gen /\ u.text = <<>>
  BY <1>1, <1>4 DEF Update, Updates, ReplyUpdate, Replies
<1>6. u.op \in Replies /\ Ends(u) /\ Authors(u.text) \subseteq {count.sends}
  BY <1>4, <1>5 DEF Replies, Ends
<1> HIDE DEF u
<1>7. /\ us \in Seq(Updates) /\ us # <<>> /\ us[Len(us)] = u
      /\ \A i \in DOMAIN us : us[i].op \in Replies /\ us[i].gen = chat.gen /\ Authors(us[i].text) \subseteq {count.sends}
  BY <1>5, <1>6, EndingUpdates
<1>8. Ends(us[Len(us)])
  BY <1>6, <1>7
<1> HIDE DEF us
<1> QED BY <1>1, <1>2, <1>3, <1>7, <1>8, CallsKeepPage

(* The answer to a request that does not stream.                           *)
LEMMA PlainKeepsPage ==
  ASSUME RefsOK, PageOK, RefsOK', NEW r \in net, NEW ok \in BOOLEAN, onPlainResponse(r, ok)
  PROVE  PageOK'
<1>0. UNCHANGED <<messages, shown, count, fate>>
  BY DEF onPlainResponse
<1>1. CASE r.gen # chat.gen
  BY <1>1, QuietKeepsPage DEF onPlainResponse
<1>2. CASE r.gen = chat.gen
  <2>1. /\ chat \in [gen: Nat, text: Texts, timer: BOOLEAN] /\ next.req /\ r.req = count.sends /\ r.req \in Requests
        /\ next \in Flag
    BY <1>2 DEF RefsOK, RefTypes, RefsAgree, Request
  <2>2. /\ next' = [next EXCEPT !.req = FALSE]
        /\ chat' = IF ok THEN chat ELSE [chat EXCEPT !.text = <<>>, !.timer = FALSE]
    BY <1>2 DEF onPlainResponse, Flushed
  <2>3. chat'.gen = chat.gen /\ ~next'.req
    BY <2>1, <2>2 DEF Flag
  <2>4. CASE ok
    <3> DEFINE t == <<Letter(r.req, 1)>>
               u == Update("answer", chat.gen, t)
    <3>1. updateMessages(<<u>>)
      BY <1>2, <2>4 DEF onPlainResponse
    <3>2. t \in Texts /\ Authors(t) \subseteq {count.sends}
      <4>1. 1 \in 1..MaxChunks
        BY ChatAssumption
      <4> QED BY <2>1, <4>1, NewTexts
    <3> HIDE DEF t
    <3>3. u \in Updates /\ u.op = "answer" /\ u.gen = chat.gen /\ u.text = t
      BY <2>1, <3>2, CallUpdates DEF Replies
    <3> HIDE DEF u
    <3> DEFINE us == <<u>>
    <3>4. /\ us \in Seq(Updates) /\ us # <<>> /\ us[Len(us)] = u
          /\ \A i \in DOMAIN us : us[i].op \in Replies /\ us[i].gen = chat.gen /\ Authors(us[i].text) \subseteq {count.sends}
      BY <3>2, <3>3 DEF Replies
    <3>5. Ends(us[Len(us)]) /\ updateMessages(us)
      BY <3>1, <3>3 DEF Ends
    <3> HIDE DEF us
    <3> QED BY <1>0, <2>1, <2>3, <3>4, <3>5, CallsKeepPage
  <2>5. CASE ~ok
    <3> DEFINE u == Update("error", chat.gen, <<>>)
               us == FlushUpdates(chat.gen) \o <<u>>
    <3>1. updateMessages(us)
      BY <1>2, <2>5 DEF onPlainResponse
    <3>2. <<>> \in Texts /\ Authors(<<>>) \subseteq {count.sends}
      BY NewTexts
    <3>3. u \in Updates /\ u.op = "error" /\ u.gen = chat.gen /\ u.text = <<>>
      BY <2>1, <3>2 DEF Update, Updates, ReplyUpdate, Replies
    <3>4. u.op \in Replies /\ Ends(u) /\ Authors(u.text) \subseteq {count.sends}
      BY <3>2, <3>3 DEF Replies, Ends
    <3> HIDE DEF u
    <3>5. /\ us \in Seq(Updates) /\ us # <<>> /\ us[Len(us)] = u
          /\ \A i \in DOMAIN us : us[i].op \in Replies /\ us[i].gen = chat.gen /\ Authors(us[i].text) \subseteq {count.sends}
      BY <3>3, <3>4, EndingUpdates
    <3>6. Ends(us[Len(us)])
      BY <3>4, <3>5
    <3> HIDE DEF us
    <3> QED BY <1>0, <2>1, <2>3, <3>1, <3>5, <3>6, CallsKeepPage
  <2> QED BY <2>4, <2>5
<1> QED BY <1>1, <1>2

(* What the server sends, and what the page makes of it.                   *)
LEMMA AnswerKeepsPage ==
  ASSUME RefsOK, PageOK, RefsOK', NEW r \in net, Answered(r) \/ onDelta(r)
  PROVE  PageOK'
<1>0. chat \in [gen: Nat, text: Texts, timer: BOOLEAN] /\ next \in Flag /\ r.sgen = r.gen /\ stream.gen = chat.gen
  BY DEF RefsOK, RefTypes, RefsAgree
<1>1. ASSUME NEW ok \in BOOLEAN, getHeaders(r, ok) PROVE PageOK'
  <2>0. UNCHANGED <<messages, shown, count, fate>>
    BY <1>1 DEF getHeaders
  <2>1. CASE stream.gen # r.sgen
    <3>1. UNCHANGED <<chat, next, queue, store>>
      BY <1>1, <2>1 DEF getHeaders, Ignore
    <3> QED BY <2>0, <3>1, QuietKeepsPage
  <2>2. CASE stream.gen = r.sgen /\ ~ok
    <3>1. EndOfRequest(r, Update("error", r.gen, <<>>))
      BY <1>1, <2>2 DEF getHeaders
    <3> QED BY <1>0, <2>0, <2>2, <3>1, EndKeepsPage
  <2>3. CASE stream.gen = r.sgen /\ ok
    <3>1. next' = [next EXCEPT !.str = TRUE] /\ UNCHANGED <<chat, queue, store>>
      BY <1>1, <2>3 DEF getHeaders
    <3>2. (next'.req <=> next.req) /\ chat'.gen = chat.gen
      BY <1>0, <3>1 DEF Flag
    <3> QED BY <2>0, <3>1, <3>2, QuietKeepsPage
  <2> QED BY <2>1, <2>2, <2>3
<1>2. ASSUME NEW ok \in BOOLEAN, onStreamEnd(r, ok) PROVE PageOK'
  <2>0. UNCHANGED <<messages, shown, count, fate>>
    BY <1>2 DEF onStreamEnd
  <2>1. CASE ~isCurrent(r)
    <3>1. UNCHANGED <<chat, next, queue, store>>
      BY <1>2, <2>1 DEF onStreamEnd, Ignore
    <3> QED BY <2>0, <3>1, QuietKeepsPage
  <2>2. CASE isCurrent(r)
    <3>1. r.gen = chat.gen
      BY <1>0, <2>2 DEF isCurrent
    <3>2. \E op \in {"complete", "error"} : EndOfRequest(r, Update(op, r.gen, <<>>))
      BY <1>2, <2>2 DEF onStreamEnd
    <3> QED BY <2>0, <3>1, <3>2, EndKeepsPage
  <2> QED BY <2>1, <2>2
<1>3. ASSUME onStreamEof(r) PROVE PageOK'
  BY <1>3, QuietKeepsPage DEF onStreamEof
<1>4. ASSUME onDelta(r) PROVE PageOK'
  <2>1. UNCHANGED <<messages, shown, queue, store, count, fate, next>>
    BY <1>4 DEF onDelta
  <2>2. chat'.gen = chat.gen
    BY <1>0, <1>4 DEF onDelta
  <2> QED BY <2>1, <2>2, QuietKeepsPage
<1> QED BY <1>1, <1>2, <1>3, <1>4, PlainKeepsPage DEF Answered

(* Nothing to queue.                                                       *)
LEMMA NothingQueued ==
  ASSUME PageOK
  PROVE  Queued(<<>>, FALSE) = queue /\ MayRunNow(<<>>) = {FALSE}
<1>1. queue \in Seq(SetUpdate \cup CallUpdate)
  BY DEF PageOK, QueueOK
<1>2. queue \o <<>> = queue
  BY <1>1, ConcatEmptySeq
<1>3. DOMAIN <<>> = {}
  OBVIOUS
<1>4. [i \in DOMAIN <<>> |-> [<<>>[i] EXCEPT !.ran = FALSE /\ i = 1]] = <<>>
  BY <1>3
<1>5. Queued(<<>>, FALSE) = queue
  BY <1>2, <1>4 DEF Queued
<1> QED BY <1>5 DEF MayRunNow

(* The flush timer queues the pending chunk.                               *)
LEMMA FlushKeepsPage ==
  ASSUME RefsOK, PageOK, RefsOK', FlushTimer
  PROVE  PageOK'
<1>0. chat \in [gen: Nat, text: Texts, timer: BOOLEAN]
  BY DEF RefsOK, RefTypes
<1>1. /\ chat' = [chat EXCEPT !.text = <<>>, !.timer = FALSE] /\ updateMessages(FlushUpdates(chat.gen))
      /\ UNCHANGED <<messages, shown, count, fate, next>>
  BY DEF FlushTimer, Flushed
<1>2. chat'.gen = chat.gen
  BY <1>0, <1>1
<1>3. CASE chat.text = <<>>
  <2>1. FlushUpdates(chat.gen) = <<>>
    BY <1>3 DEF FlushUpdates
  <2>2. \E now \in {FALSE} : queue' = Queued(<<>>, now) /\ store' = IF now THEN Persist(RunUpdater(messages, queue'[1], chat.gen)) ELSE store
    BY <1>1, <2>1, NothingQueued DEF updateMessages
  <2>3. queue' = queue /\ store' = store
    BY <2>2, NothingQueued
  <2> QED BY <1>1, <1>2, <2>3, QuietKeepsPage
<1>4. CASE chat.text # <<>>
  <2> DEFINE u == Update("chunk", chat.gen, chat.text)
             us == <<u>>
  <2>1. updateMessages(us)
    BY <1>1, <1>4 DEF FlushUpdates
  <2>2. next.req /\ Authors(chat.text) \subseteq {count.sends}
    BY <1>4 DEF RefsOK, RefsAgree, Streaming
  <2>3. u \in Updates /\ u.op = "chunk" /\ u.gen = chat.gen /\ u.text = chat.text
    BY <1>0, CallUpdates DEF Replies
  <2> HIDE DEF u
  <2>4. /\ us \in Seq(Updates) /\ us # <<>>
        /\ \A i \in DOMAIN us : us[i].op \in Replies /\ us[i].gen = chat.gen /\ Authors(us[i].text) \subseteq {count.sends}
    BY <2>2, <2>3 DEF Replies
  <2> HIDE DEF us
  <2> QED BY <1>1, <1>2, <2>1, <2>2, <2>4, CallsKeepPage
<1> QED BY <1>3, <1>4

(* The storage: the history is saved, given up with the page, and loaded.  *)
LEMMA StorageKeepsPage ==
  ASSUME RefsOK, PageOK, RefsOK', PageStep
  PROVE  PageOK'
<1> DEFINE n == count.sends
<1>0. /\ n \in Nat /\ store \in Store /\ FlagsOK
      /\ Good(messages, Lost, n) /\ Good(store.latest, Lost, n) /\ Good(store.saved, Lost, n)
  BY DEF RefsOK, RefTypes, Counts, PageOK, ListsOK
<1>1. Good(trimMessages(store.latest), Lost, n) /\ trimMessages(store.latest) \in Messages
  BY <1>0, SuffixGood DEF Good
<1>2. <<>> \in Messages /\ DOMAIN <<>> = {} /\ Good(<<>>, Lost, n) /\ Calm(<<>>, Lost)
  BY DEF Messages, Good, OwnText, SpinLast, Upto, Calm
<1>3. ASSUME SaveTimer PROVE PageOK'
  <2> DEFINE t == trimMessages(store.latest)
  <2>1. /\ store' = [store EXCEPT !.timer = FALSE, !.saved = t]
        /\ UNCHANGED <<messages, shown, queue, next, chat, count, fate>>
    BY <1>3 DEF SaveTimer
  <2> HIDE DEF t
  <2>2. store' \in Store /\ store'.latest = store.latest /\ store'.saved = t
    BY <1>0, <1>1, <2>1 DEF Store, t
  <2>3. Lost' = Lost
    BY <2>1, LostFacts
  <2>4. (HasSet' <=> HasSet) /\ (Terminated' <=> Terminated)
    BY <2>1 DEF HasSet, Terminated
  <2>5. FlagsOK'
    BY <1>0, <2>1, <2>2, <2>3, <2>4 DEF FlagsOK
  <2>6. ListsOK'
    BY <1>0, <1>1, <2>1, <2>2, <2>3 DEF ListsOK, t
  <2> QED BY <2>1, <2>2, <2>3, <2>5, <2>6 DEF PageOK
<1>4. ASSUME queue' = <<>>, shown' = Idle, next' = Idle, count'.sends = n, Lost' = Lost, store' \in Store,
             Good(messages', Lost, n), Calm(messages', Lost), Good(store'.latest, Lost, n), Good(store'.saved, Lost, n)
      PROVE  PageOK'
  <2>1. DOMAIN queue' = {} /\ queue' \in Seq(SetUpdate \cup CallUpdate)
    BY <1>4
  <2>2. QueueOK(queue', chat'.gen, count'.sends, Lost')
    BY <2>1 DEF QueueOK
  <2>3. ~HasSet' /\ ~shown'.req /\ ~next'.req
    BY <1>4, <2>1 DEF HasSet, Idle
  <2>4. FlagsOK'
    BY <1>4, <2>3 DEF FlagsOK
  <2>5. ListsOK'
    BY <1>4 DEF ListsOK
  <2> QED BY <1>4, <2>2, <2>4, <2>5 DEF PageOK
<1>5. ASSUME Unmount \/ CloseTab PROVE PageOK'
  <2>1. messages' = <<>> /\ queue' = <<>> /\ shown' = Idle /\ next' = Idle /\ UNCHANGED <<count, fate>>
    BY <1>5 DEF Unmount, CloseTab, Closed
  <2>2. PICK t \in {trimMessages(store.latest), store.saved} : store' = [latest |-> <<>>, timer |-> FALSE, saved |-> t]
    BY <1>5 DEF Unmount, CloseTab
  <2>3. Good(t, Lost, n) /\ t \in Messages
    BY <1>0, <1>1, <2>2 DEF Good
  <2>4. store' \in Store /\ store'.latest = <<>> /\ store'.saved = t
    BY <1>2, <2>2, <2>3 DEF Store
  <2>5. Lost' = Lost
    BY <2>1, LostFacts
  <2> QED BY <1>2, <1>4, <2>1, <2>3, <2>4, <2>5
<1>6. ASSUME Mount PROVE PageOK'
  <2> DEFINE x == messages'
  <2>1. /\ phase = "closed" /\ store' = [latest |-> x, timer |-> FALSE, saved |-> x]
        /\ count' = [count EXCEPT !.mounts = @ + 1] /\ UNCHANGED <<shown, queue, next>>
    BY <1>6 DEF Mount
  <2>2. queue = <<>> /\ shown = Idle /\ next = Idle
    BY <2>1 DEF RefsOK, RefsAgree
  <2>3. count'.sends = n
    BY <2>1 DEF RefsOK, RefTypes, Counts
  <2>4. \/ x = <<>> /\ UNCHANGED fate
        \/ \E short, kept : /\ kept \in 1..MaxStored /\ x = loadMessages(store.saved, short, kept)
                            /\ fate' = Mark(CutOnLoad(store.saved, short), "cut")
    BY <1>6 DEF Mount, DropHistory
  <2>5. Good(x, Lost, n) /\ Calm(x, Lost)
    <3>1. CASE x = <<>>
      BY <1>2, <3>1
    <3>2. ASSUME NEW short, NEW kept \in 1..MaxStored, x = loadMessages(store.saved, short, kept)
          PROVE  Good(x, Lost, n) /\ Calm(x, Lost)
      <4>1. kept \in Nat \ {0}
        BY ChatAssumption
      <4> HIDE DEF x
      <4> QED BY <1>0, <3>2, <4>1, LoadGood DEF CalmList
    <3> QED BY <2>4, <3>1, <3>2
  <2>6. x \in Messages
    BY <2>5 DEF Good
  <2>7. Lost' = Lost
    BY <2>4, LostFacts
  <2>8. store' \in Store /\ store'.latest = x /\ store'.saved = x
    BY <2>1, <2>6 DEF Store
  <2> QED BY <1>4, <2>1, <2>2, <2>3, <2>5, <2>7, <2>8
<1> QED BY <1>3, <1>5, <1>6 DEF PageStep

(* Every step keeps the page in order.                                     *)
LEMMA PageStays ==
  ASSUME RefsOK, PageOK, RefsOK', [Next]_vars
  PROVE  PageOK'
<1>0. count \in Counts
  BY DEF RefsOK, RefTypes
<1>1. CASE UNCHANGED vars
  BY <1>1, QuietKeepsPage DEF vars
<1>2. ASSUME Render PROVE PageOK'
  <2>1. RenderAll(queue, chat.gen) /\ next' = next /\ UNCHANGED <<fate, count>>
    BY <1>2 DEF Render
  <2>2. \E now \in MayRunNow(<<>>) : RenderAll(Queued(<<>>, now), chat.gen)
    BY <2>1, NothingQueued
  <2>3. ClickRenders(<<>>, chat.gen)
    BY <2>2 DEF ClickRenders
  <2> QED BY <2>1, <2>3, LostFacts, RenderKeepsPage
<1>3. ASSUME cancelEdit PROVE PageOK'
  BY <1>3, LostFacts, RenderKeepsPage DEF cancelEdit
<1>4. ASSUME NEW i \in DOMAIN messages, handleEditMessage(i) PROVE PageOK'
  <2>1. count'.sends = count.sends
    BY <1>0, <1>4 DEF handleEditMessage, CountEdit, Counts
  <2> QED BY <1>4, <2>1, LostFacts, RenderKeepsPage DEF handleEditMessage
<1>5. CASE UserStep
  BY <1>3, <1>4, <1>5, SendKeepsPage, SelectPromptKeepsPage, StopKeepsPage, ClearKeepsPage, RegenerateKeepsPage, DeleteKeepsPage, EditKeepsPage
     DEF UserStep
<1>6. CASE ServerStep
  BY <1>6, AnswerKeepsPage DEF ServerStep
<1> QED BY <1>1, <1>2, <1>5, <1>6, FlushKeepsPage, StorageKeepsPage DEF Next

(* The page is in order in every reachable state.                          *)
LEMMA PageInvariant == Spec => [](RefsOK /\ PageOK)
<1>1. Init => PageOK
  <2> SUFFICES ASSUME Init PROVE PageOK
    OBVIOUS
  <2>1. /\ messages = <<>> /\ queue = <<>> /\ shown = Idle /\ next = Idle
        /\ store = [latest |-> <<>>, timer |-> FALSE, saved |-> <<>>]
    BY DEF Init
  <2>2. <<>> \in Messages /\ DOMAIN <<>> = {}
    BY DEF Messages
  <2>3. Good(<<>>, Lost, count.sends) /\ Calm(<<>>, Lost)
    BY <2>2 DEF Good, OwnText, SpinLast, Upto, Calm
  <2>4. store \in Store /\ store.latest = <<>> /\ store.saved = <<>>
    BY <2>1, <2>2 DEF Store
  <2>5. queue \in Seq(SetUpdate \cup CallUpdate) /\ DOMAIN queue = {}
    BY <2>1
  <2>6. QueueOK(queue, chat.gen, count.sends, Lost)
    BY <2>5 DEF QueueOK
  <2>7. ~HasSet /\ ~shown.req /\ ~next.req
    BY <2>1, <2>5 DEF HasSet, Idle
  <2>8. FlagsOK
    BY <2>1, <2>3, <2>7 DEF FlagsOK
  <2> QED BY <2>1, <2>3, <2>4, <2>6, <2>8 DEF PageOK, ListsOK
<1>2. RefsOK /\ PageOK /\ RefsOK' /\ [Next]_vars => PageOK'
  BY PageStays
<1> QED BY <1>1, <1>2, RefsInvariant, PTL DEF Spec

-----------------------------------------------------------------------------
(* The page, its refs and its storage are well typed in every reachable    *)
(* state.                                                                  *)
THEOREM ChatTypes == Spec => []ChatTypeOK
<1>1. RefsOK /\ PageOK => ChatTypeOK
  <2> SUFFICES ASSUME RefsOK, PageOK PROVE ChatTypeOK
    OBVIOUS
  <2>1. messages \in Messages /\ store.latest \in Messages /\ store.saved \in Messages
    BY DEF PageOK, ListsOK, Good
  <2>2. \A i \in DOMAIN queue : queue[i].ran => i = 1
    BY DEF PageOK, QueueOK
  <2>3. /\ phase \in {"closed", "ready"} /\ shown \in Flag /\ next \in Flag
        /\ chat.gen \in Nat /\ chat.text \in Texts /\ chat.timer \in BOOLEAN
        /\ stream.gen \in Nat /\ stream.source \in {0, stream.gen}
        /\ \A r \in net : r.kind \in {"headers", "source", "eof", "plain"} /\ r.req \in Requests
        /\ sent \in [Requests -> 0..MaxChunks] /\ fate \in [Requests -> Fates]
    BY DEF RefsOK, RefTypes, RefsAgree, Request
  <2> QED BY <2>1, <2>2, <2>3 DEF ChatTypeOK, Flag, Fates
<1> QED BY <1>1, PageInvariant, PTL

(* The latest request wins: no letter of another request is ever shown or  *)
(* saved in an answer, whatever callbacks, flush timers and queued         *)
(* updaters come late (requestGenerationRef, the controller's generation). *)
THEOREM LatestRequestWins == Spec => []OnlyOwnText
<1>1. RefsOK /\ PageOK => OnlyOwnText
  <2> SUFFICES ASSUME RefsOK, PageOK, NEW ms \in {messages, store.latest, store.saved}, NEW i \in DOMAIN ms,
                      NEW k \in DOMAIN ms[i].text
               PROVE  ms[i].text[k][1] \in {0, ms[i].req} \/ fate[ms[i].text[k][1]] = "overwritten"
    BY DEF OnlyOwnText
  <2>1. OwnText(ms, Lost)
    BY DEF PageOK, ListsOK, Good
  <2>2. ms[i].text[k][1] \in Authors(ms[i].text)
    BY DEF Authors
  <2>3. ms[i].text[k][1] \in {0, ms[i].req} \cup Lost
    BY <2>1, <2>2 DEF OwnText
  <2> QED BY <2>3 DEF Lost
<1> QED BY <1>1, PageInvariant, PTL

(* A message that shows the spinner is the last one, and a request is      *)
(* under way for it or an update that ends it is queued.                   *)
THEOREM SpinnerIsServed == Spec => []SpinnerHasRequest
<1>1. RefsOK /\ PageOK => SpinnerHasRequest
  <2> SUFFICES ASSUME RefsOK, PageOK, NEW i \in DOMAIN messages, isAssistantMessagePending(messages[i]),
                      fate[messages[i].req] # "overwritten"
               PROVE  i = Len(messages) /\ (Generating(next) \/ queue # <<>>)
    BY DEF SpinnerHasRequest
  <2>1. messages[i].req \notin Lost
    BY DEF Lost
  <2>2. i = Len(messages)
    BY <2>1 DEF PageOK, ListsOK, Good, SpinLast
  <2>3. shown.req
    BY <2>1 DEF PageOK, FlagsOK, Calm
  <2>4. next.req \/ queue # <<>>
    BY <2>3 DEF PageOK, FlagsOK, Terminated
  <2> QED BY <2>2, <2>4 DEF Generating
<1> QED BY <1>1, PageInvariant, PTL

-----------------------------------------------------------------------------
(* The text.  Deltas a+1..b of request r, in order.                        *)
Run(r, a, b) == [k \in 1..(b - a) |-> <<r, a + k>>]
Letters(r) == {r} \X Nat

(* A run of deltas is a sequence of letters.                               *)
LEMMA RunFacts ==
  ASSUME NEW r, NEW a \in Nat, NEW b \in Nat, a <= b
  PROVE  /\ Run(r, a, b) \in Seq(Letters(r)) /\ Len(Run(r, a, b)) = b - a
         /\ \A k \in 1..(b - a) : Run(r, a, b)[k] = <<r, a + k>>
         /\ Run(r, a, b) = <<>> <=> a = b
<1>1. b - a \in Nat
  OBVIOUS
<1>2. \A k \in 1..(b - a) : <<r, a + k>> \in Letters(r)
  BY DEF Letters
<1>3. Run(r, a, b) \in [1..(b - a) -> Letters(r)]
  BY <1>2 DEF Run
<1>4. Run(r, a, b) \in Seq(Letters(r))
  BY <1>1, <1>3
<1>5. Len(Run(r, a, b)) = b - a
  BY <1>1 DEF Run
<1>6. \A k \in 1..(b - a) : Run(r, a, b)[k] = <<r, a + k>>
  BY DEF Run
<1>7. Run(r, a, b) = <<>> <=> a = b
  BY <1>4, <1>5
<1> QED BY <1>4, <1>5, <1>6, <1>7

(* One delta.                                                              *)
LEMMA RunOne ==
  ASSUME NEW r, NEW a \in Nat, NEW b \in Nat, b = a + 1
  PROVE  Run(r, a, b) = <<<<r, b>>>>
<1> DEFINE t == <<<<r, b>>>>
           s == Run(r, a, b)
<1>1. t \in Seq(Letters(r)) /\ Len(t) = 1 /\ t[1] = <<r, b>>
  BY DEF Letters
<1>2. a <= b /\ b - a = 1
  OBVIOUS
<1>3. s = [k \in 1..1 |-> <<r, a + k>>]
  BY <1>2 DEF Run
<1>4. s \in Seq(Letters(r)) /\ Len(s) = 1 /\ s[1] = <<r, b>>
  <2> HIDE DEF s
  <2>1. s[1] = <<r, b>> /\ Len(s) = 1
    BY <1>3
  <2>2. s \in [1..1 -> Letters(r)]
    BY <1>3 DEF Letters
  <2> QED BY <2>1, <2>2, SMTT(60)
<1> HIDE DEF s, t
<1>5. s = t
  BY <1>1, <1>4, SeqEqual
<1> QED BY <1>5 DEF s, t

(* Consecutive runs are appended: the test for a chunk that repeats the    *)
(* text so far does not take one for the other.                            *)
LEMMA RunAppended ==
  ASSUME NEW r, NEW a \in Nat, NEW b \in Nat, NEW c \in Nat, a <= b, b <= c
  PROVE  AppendChunk(Run(r, a, b), Run(r, b, c)) = Run(r, a, c)
<1> DEFINE s == Run(r, a, b)
           t == Run(r, b, c)
           u == Run(r, a, c)
           T == Letters(r)
<1>1. /\ s \in Seq(T) /\ Len(s) = b - a /\ (s = <<>> <=> a = b) /\ \A k \in 1..(b - a) : s[k] = <<r, a + k>>
  <2>1. a <= b
    OBVIOUS
  <2>2. /\ Run(r, a, b) \in Seq(Letters(r)) /\ Len(Run(r, a, b)) = b - a
        /\ \A k \in 1..(b - a) : Run(r, a, b)[k] = <<r, a + k>>
        /\ Run(r, a, b) = <<>> <=> a = b
    BY <2>1, RunFacts, ZenonT(60)
  <2> QED BY <2>2, Zenon
<1>2. /\ t \in Seq(T) /\ Len(t) = c - b /\ (t = <<>> <=> b = c) /\ \A k \in 1..(c - b) : t[k] = <<r, b + k>>
  <2>1. b <= c
    OBVIOUS
  <2>2. /\ Run(r, b, c) \in Seq(Letters(r)) /\ Len(Run(r, b, c)) = c - b
        /\ \A k \in 1..(c - b) : Run(r, b, c)[k] = <<r, b + k>>
        /\ Run(r, b, c) = <<>> <=> b = c
    BY <2>1, RunFacts, ZenonT(60)
  <2> QED BY <2>2, Zenon
<1>3. /\ u \in Seq(T) /\ Len(u) = c - a /\ (u = <<>> <=> a = c) /\ \A k \in 1..(c - a) : u[k] = <<r, a + k>>
  <2>1. a <= c
    OBVIOUS
  <2>2. /\ Run(r, a, c) \in Seq(Letters(r)) /\ Len(Run(r, a, c)) = c - a
        /\ \A k \in 1..(c - a) : Run(r, a, c)[k] = <<r, a + k>>
        /\ Run(r, a, c) = <<>> <=> a = c
    BY <2>1, RunFacts, ZenonT(60)
  <2> QED BY <2>2, Zenon
<1> HIDE DEF s, t, u, T
<1>4. s # <<>> => ~IsPrefix(s, t)
  <2> SUFFICES ASSUME s # <<>>, IsPrefix(s, t) PROVE FALSE
    OBVIOUS
  <2>1. b - a >= 1 /\ Len(s) <= Len(t) /\ SubSeq(s, 1, Len(s)) = SubSeq(t, 1, Len(s))
    BY <1>1 DEF IsPrefix
  <2>2. SubSeq(s, 1, Len(s))[1] = s[1] /\ SubSeq(t, 1, Len(s))[1] = t[1]
    BY <1>1, <1>2, <2>1
  <2>3. s[1] = <<r, a + 1>> /\ t[1] = <<r, b + 1>>
    BY <1>1, <1>2, <2>1
  <2>4. <<r, a + 1>> = <<r, b + 1>>
    BY <2>1, <2>2, <2>3
  <2> QED BY <2>1, <2>4
<1>5. AppendChunk(s, t) = s \o t
  BY <1>4 DEF AppendChunk
<1>6. s \o t \in Seq(T) /\ Len(s \o t) = c - a
  <2>1. s \o t \in Seq(T) /\ Len(s \o t) = Len(s) + Len(t)
    BY <1>1, <1>2, ConcatProperties, ZenonT(60)
  <2> QED BY <1>1, <1>2, <2>1
<1>7. ASSUME NEW k \in 1..(c - a) PROVE (s \o t)[k] = u[k]
  <2>1. CASE k <= b - a
    <3>1. k \in 1..(b - a) /\ k \in 1..Len(s)
      BY <1>1, <2>1
    <3>2. (s \o t)[k] = s[k]
      BY <1>1, <1>2, <3>1, ConcatProperties
    <3> QED BY <1>1, <1>3, <3>1, <3>2
  <2>2. CASE k > b - a
    <3>1. k - (b - a) \in 1..(c - b) /\ b + (k - (b - a)) = a + k
      BY <2>2
    <3>2. (s \o t)[k] = t[k - (b - a)]
      BY <1>1, <1>2, <2>2
    <3> QED BY <1>2, <1>3, <3>1, <3>2
  <2>3. k <= b - a \/ k > b - a
    OBVIOUS
  <2> QED BY <2>1, <2>2, <2>3
<1>8. s \o t = u
  BY <1>3, <1>6, <1>7, SeqEqual
<1> QED BY <1>5, <1>8 DEF s, t, u

-----------------------------------------------------------------------------
(* The list that a render of this moment would show.                       *)
Now == Rendered(messages, queue, chat.gen)
KnownLists ==
  {messages, store.latest, store.saved, Now} \cup {queue[i].msgs : i \in {j \in DOMAIN queue : IsSet(queue[j])}}
(* The answer under way, unless the editor saved over it.                  *)
UnderWay == IF next.req /\ fate[count.sends] = "whole" THEN {count.sends} ELSE {}

(* A complete answer is not one of those under way, and is all that was    *)
(* sent.                                                                   *)
Honest(ms, f, s, open) ==
  \A i \in DOMAIN ms :
    ms[i].status = "complete" =>
      /\ ms[i].req \notin open
      /\ f[ms[i].req] = "whole" /\ ms[i].text # EditedText => ms[i].text = Run(ms[i].req, 0, s[ms[i].req])

(* Of s deltas of request n, the answer has the first ones, the chat       *)
(* handler the rest.                                                       *)
Delivered(ms, n, s, rest) ==
  Answering(ms, n) /\ ~isAssistantMessageFinal(Last(ms)) =>
    \E a \in 0..s : Last(ms).text = Run(n, 0, a) /\ rest = Run(n, a, s)

(* The editor is not open on the answer under way, nor on a later one.     *)
EditorOK ==
  /\ next.req => editing # <<"assistant", count.sends>>
  /\ \A r \in Requests : r > count.sends => editing # <<"assistant", r>>
NothingYet == \A r \in Requests : r > count.sends => sent[r] = 0

TextOK ==
  /\ \A ms \in KnownLists : Honest(ms, fate, sent, UnderWay)
  /\ \A n \in UnderWay : Delivered(Now, n, sent[n], chat.text)
  /\ EditorOK /\ NothingYet

(* The list of this moment is a good one, and ends with the answer that is *)
(* under way.                                                              *)
LEMMA NowFacts ==
  ASSUME RefsOK, PageOK
  PROVE  /\ Good(Now, Lost, count.sends) /\ Now \in Messages
         /\ next.req => AtLast(Now, count.sends, Lost)
         /\ HasSet => Answering(Now, count.sends)
         /\ queue = <<>> => Now = messages
<1>1. queue \in Seq(SetUpdate \cup CallUpdate) /\ chat.gen \in Nat /\ chat.gen <= chat.gen
  BY DEF RefsOK, RefTypes, PageOK, QueueOK
<1>2. DOMAIN queue = 1..Len(queue) /\ Len(queue) \in Nat /\ Len(queue) <= Len(queue)
  BY <1>1
<1>3. PICK tr : Walk(tr, messages, queue, chat.gen)
  BY <1>2, RenderWalks
<1> DEFINE y == tr[Len(queue)]
<1>4. y = Now
  BY <1>3 DEF Walk, Now
<1>5. /\ Good(y, Lost, count.sends) /\ (queue # <<>> => AtLast(y, count.sends, Lost))
      /\ HasSet => Answering(y, count.sends)
      /\ queue = <<>> => y = messages
  BY <1>1, <1>2, <1>3, PendingRender
<1> HIDE DEF y
<1>6. ASSUME next.req, queue = <<>> PROVE AtLast(y, count.sends, Lost)
  <2>1. ~HasSet
    BY <1>6 DEF HasSet
  <2> QED BY <1>5, <1>6, <2>1 DEF PageOK, FlagsOK
<1> QED BY <1>4, <1>5, <1>6 DEF Good

(* The request under way.                                                  *)
LEMMA UnderWayFacts ==
  ASSUME RefsOK
  PROVE  /\ next.req => count.sends \in Requests
         /\ UnderWay \subseteq {count.sends} /\ \A n \in UnderWay : next.req /\ n = count.sends /\ n \in Requests /\ fate[n] = "whole"
<1>1. next.req => count.sends \in Requests
  BY DEF RefsOK, RefTypes, RefsAgree, Live, Request
<1> QED BY <1>1 DEF UnderWay

(* Every known list is a good one.                                         *)
LEMMA KnownGood ==
  ASSUME RefsOK, PageOK, NEW ms \in KnownLists
  PROVE  Good(ms, Lost, count.sends)
<1>1. Good(messages, Lost, count.sends) /\ Good(store.latest, Lost, count.sends) /\ Good(store.saved, Lost, count.sends)
  BY DEF PageOK, ListsOK
<1>2. Good(Now, Lost, count.sends)
  BY NowFacts
<1>3. \A i \in DOMAIN queue : IsSet(queue[i]) => Good(queue[i].msgs, Lost, count.sends)
  BY DEF PageOK, QueueOK, SetOK
<1> QED BY <1>1, <1>2, <1>3 DEF KnownLists

(* An honest list stays so when requests are given up and when deltas come *)
(* for the answers under way.                                              *)
LEMMA StaysHonest ==
  ASSUME NEW ms \in Messages, NEW f, NEW s, NEW open, Honest(ms, f, s, open), NEW f2, NEW s2, NEW open2,
         \A r \in Requests : f2[r] = "whole" => f[r] = "whole" /\ (s2[r] = s[r] \/ r \in open),
         \A i \in DOMAIN ms : ms[i].req \in open2 => ms[i].req \in open
  PROVE  Honest(ms, f2, s2, open2)
<1>1. \A i \in DOMAIN ms : ms[i].req \in Requests
  BY ListFacts DEF MessageRow
<1> SUFFICES ASSUME NEW i \in DOMAIN ms, ms[i].status = "complete"
             PROVE  /\ ms[i].req \notin open2
                    /\ f2[ms[i].req] = "whole" /\ ms[i].text # EditedText => ms[i].text = Run(ms[i].req, 0, s2[ms[i].req])
  BY DEF Honest
<1>2. /\ ms[i].req \notin open
      /\ f[ms[i].req] = "whole" /\ ms[i].text # EditedText => ms[i].text = Run(ms[i].req, 0, s[ms[i].req])
  BY DEF Honest
<1> QED BY <1>1, <1>2

(* What is kept of a step: the known lists are old ones or honest.         *)
Kept(X) ==
  /\ KnownLists' \subseteq KnownLists \cup X
  /\ \A x \in X : Honest(x, fate', sent', UnderWay')
  /\ \A r \in Requests : fate'[r] = "whole" => fate[r] = "whole" /\ (sent'[r] = sent[r] \/ r \in UnderWay)
  /\ UnderWay' \subseteq UnderWay \cup {r \in Requests : r > count.sends}

(* Then what was said of the texts still holds.                            *)
LEMMA TextKept ==
  ASSUME RefsOK, PageOK, TextOK, NEW X, Kept(X), \A n \in UnderWay' : Delivered(Now', n, sent'[n], chat'.text),
         EditorOK', NothingYet'
  PROVE  TextOK'
<1>1. ASSUME NEW ms \in KnownLists PROVE Honest(ms, fate', sent', UnderWay')
  <2>1. Good(ms, Lost, count.sends) /\ Honest(ms, fate, sent, UnderWay)
    BY KnownGood DEF TextOK
  <2>2. ms \in Messages /\ \A i \in DOMAIN ms : ms[i].req <= count.sends
    BY <2>1 DEF Good, Upto
  <2>3. count.sends \in Nat /\ \A r \in Requests : r \in Nat
    BY ChatAssumption DEF RefsOK, RefTypes, Counts, Requests
  <2>4. \A i \in DOMAIN ms : ms[i].req \in UnderWay' => ms[i].req \in UnderWay
    <3> SUFFICES ASSUME NEW i \in DOMAIN ms, ms[i].req \in UnderWay', ms[i].req \notin UnderWay PROVE FALSE
      OBVIOUS
    <3>1. ms[i].req \in Requests /\ ms[i].req > count.sends
      BY DEF Kept
    <3> QED BY <2>2, <2>3, <3>1
  <2>5. \A r \in Requests : fate'[r] = "whole" => fate[r] = "whole" /\ (sent'[r] = sent[r] \/ r \in UnderWay)
    BY DEF Kept
  <2> DEFINE f2 == fate'
             s2 == sent'
             o2 == UnderWay'
  <2> HIDE DEF f2, s2, o2
  <2>6. Honest(ms, f2, s2, o2)
    BY <2>1, <2>2, <2>4, <2>5, StaysHonest DEF f2, s2, o2
  <2> QED BY <2>6 DEF f2, s2, o2
<1>2. \A ms \in KnownLists' : Honest(ms, fate', sent', UnderWay')
  BY <1>1 DEF Kept
<1> QED BY <1>2 DEF TextOK

-----------------------------------------------------------------------------
(* A list whose last message is replaced by an honest one.                 *)
LEMMA ReplacedHonest ==
  ASSUME NEW ms \in Messages, ms # <<>>, NEW m \in MessageRow, NEW x, Replaced(x, ms, m),
         NEW f, NEW s, NEW open, Honest(ms, f, s, open), NEW o2, o2 \subseteq open,
         m.status = "complete" =>
           m.req \notin o2 /\ (f[m.req] = "whole" /\ m.text # EditedText => m.text = Run(m.req, 0, s[m.req]))
  PROVE  Honest(x, f, s, o2)
<1>1. DOMAIN x = DOMAIN ms /\ \A i \in DOMAIN x : x[i] = IF i = Len(x) THEN m ELSE ms[i]
  BY LastReplaced
<1> SUFFICES ASSUME NEW i \in DOMAIN x, x[i].status = "complete"
             PROVE  /\ x[i].req \notin o2
                    /\ f[x[i].req] = "whole" /\ x[i].text # EditedText => x[i].text = Run(x[i].req, 0, s[x[i].req])
  BY DEF Honest
<1>2. CASE i = Len(x)
  BY <1>1, <1>2
<1>3. CASE i # Len(x)
  BY <1>1, <1>3 DEF Honest
<1> QED BY <1>2, <1>3

(* The parts of the message that a reply leaves.                           *)
LEMMA ReplyParts ==
  ASSUME NEW m \in MessageRow, NEW u
  PROVE  /\ NewMessage(m, u).req = m.req
         /\ u.op = "chunk" => IF m.status = "error" THEN NewMessage(m, u) = m
              ELSE NewMessage(m, u).status = "streaming" /\ NewMessage(m, u).text = AppendChunk(m.text, u.text)
         /\ u.op = "error" => NewMessage(m, u).status = "error"
         /\ u.op = "complete" => IF isAssistantMessageFinal(m) THEN NewMessage(m, u) = m ELSE NewMessage(m, u).text = m.text
         /\ u.op = "answer" => NewMessage(m, u).text = u.text
BY DEF NewMessage, MessageRow, applyStreamingChunk, completeAssistantMessage, applyChatCompletionResponse

(* A reply of the request under way leaves an honest list: a complete      *)
(* answer has all that was sent.                                           *)
LEMMA ReplyHonest ==
  ASSUME NEW ms \in Messages, NEW u, u.op \in Replies, u.text \in Texts, NEW gen, ~Stale(u, gen),
         NEW f, NEW s, NEW open, Honest(ms, f, s, open), NEW n, s[n] \in Nat, NEW lost, AtLast(ms, n, lost),
         \A r \in lost : f[r] # "whole", NEW x, x = RunUpdater(ms, u, gen)
  PROVE  /\ u.op \in {"chunk", "error"} => Honest(x, f, s, open)
         /\ u.op = "complete" /\ (f[n] = "whole" => Delivered(ms, n, s[n], <<>>)) => Honest(x, f, s, {})
         /\ u.op = "answer" /\ u.text = Run(n, 0, s[n]) => Honest(x, f, s, {})
<1>0. Honest(ms, f, s, {}) /\ u.op \in Replies \cup {"stop"}
  BY DEF Honest
<1>1. CASE ms = <<>> \/ Last(ms).from # "assistant"
  <2>1. x = ms
    BY <1>0, <1>1, ReplyResult
  <2> QED BY <1>0, <2>1
<1>2. CASE ~(ms = <<>> \/ Last(ms).from # "assistant")
  <2> DEFINE l == Last(ms)
             m == NewMessage(l, u)
  <2>1. Replaced(x, ms, m) /\ ms # <<>>
    BY <1>0, <1>2, ReplyResult DEF Replaced
  <2>2. l \in MessageRow /\ l = ms[Len(ms)] /\ Len(ms) \in DOMAIN ms
    BY <2>1, ListFacts
  <2>3. /\ l.status = "complete" =>
             l.req \notin open /\ (f[l.req] = "whole" /\ l.text # EditedText => l.text = Run(l.req, 0, s[l.req]))
    BY <2>2 DEF Honest
  <2>4. f[l.req] = "whole" => l.req = n
    BY <1>2 DEF AtLast
  <2> HIDE DEF l
  <2>5. m \in MessageRow
    BY <1>0, <2>2, NewMessageFacts
  <2>6. /\ m.req = l.req
        /\ u.op = "chunk" => IF l.status = "error" THEN m = l
             ELSE m.status = "streaming" /\ m.text = AppendChunk(l.text, u.text)
        /\ u.op = "error" => m.status = "error"
        /\ u.op = "complete" => IF isAssistantMessageFinal(l) THEN m = l ELSE m.text = l.text
        /\ u.op = "answer" => m.text = u.text
    BY <2>2, ReplyParts
  <2> HIDE DEF m
  <2>7. ASSUME u.op \in {"chunk", "error"} PROVE Honest(x, f, s, open)
    <3>1. m.status # "complete"
      BY <2>6, <2>7
    <3> QED BY <2>1, <2>5, <3>1, ReplacedHonest
  <2>8. ASSUME u.op = "complete", f[n] = "whole" => Delivered(ms, n, s[n], <<>>) PROVE Honest(x, f, s, {})
    <3>1. CASE isAssistantMessageFinal(l)
      <4>1. m = l
        BY <2>6, <2>8, <3>1
      <4> QED BY <1>0, <2>1, <2>3, <2>5, <4>1, ReplacedHonest
    <3>2. CASE ~isAssistantMessageFinal(l)
      <4>1. ASSUME f[m.req] = "whole" PROVE m.text = Run(m.req, 0, s[m.req])
        <5>1. l.req = n /\ m.req = n
          BY <2>4, <2>6, <4>1
        <5>2. Answering(ms, n)
          BY <1>2, <5>1 DEF Answering, l
        <5>3. PICK a \in 0..s[n] : l.text = Run(n, 0, a) /\ <<>> = Run(n, a, s[n])
          BY <2>8, <3>2, <4>1, <5>1, <5>2 DEF Delivered, l
        <5>4. a \in Nat /\ a <= s[n]
          BY <5>3
        <5>5. a = s[n]
          <6>1. Run(n, a, s[n]) = <<>> <=> a = s[n]
            BY <5>4, RunFacts
          <6> QED BY <5>3, <6>1
        <5> QED BY <2>6, <2>8, <3>2, <5>1, <5>3, <5>5
      <4> QED BY <1>0, <2>1, <2>5, <4>1, ReplacedHonest
    <3> QED BY <3>1, <3>2
  <2>9. ASSUME u.op = "answer", u.text = Run(n, 0, s[n]) PROVE Honest(x, f, s, {})
    <3>1. f[m.req] = "whole" => m.text = Run(m.req, 0, s[m.req])
      BY <2>4, <2>6, <2>9
    <3> QED BY <1>0, <2>1, <2>5, <3>1, ReplacedHonest
  <2> QED BY <2>7, <2>8, <2>9
<1> QED BY <1>1, <1>2

(* A chunk brings the answer up to date.                                   *)
LEMMA ChunkDelivered ==
  ASSUME NEW ms \in Messages, NEW u, u.op = "chunk", u.text \in Texts, NEW gen, ~Stale(u, gen),
         NEW f, NEW s, NEW open, Honest(ms, f, s, open), NEW n \in open, s[n] \in Nat, Delivered(ms, n, s[n], u.text),
         NEW x, x = RunUpdater(ms, u, gen)
  PROVE  Delivered(x, n, s[n], <<>>)
<1>0. u.op \in Replies \cup {"stop"}
  BY DEF Replies
<1> SUFFICES ASSUME Answering(x, n), ~isAssistantMessageFinal(Last(x))
             PROVE  \E a \in 0..s[n] : Last(x).text = Run(n, 0, a) /\ <<>> = Run(n, a, s[n])
  BY DEF Delivered
<1>1. /\ (x = <<>> <=> ms = <<>>)
      /\ ms # <<>> => Last(x).from = Last(ms).from /\ Last(x).req = Last(ms).req
  BY <1>0, ReplyKeepsLast
<1>2. Answering(ms, n)
  BY <1>1 DEF Answering
<1> DEFINE l == Last(ms)
           m == NewMessage(l, u)
<1>3. Replaced(x, ms, m) /\ ms # <<>>
  BY <1>0, <1>2, ReplyResult DEF Replaced, Answering
<1>4. l \in MessageRow /\ l = ms[Len(ms)] /\ Len(ms) \in DOMAIN ms /\ l.req = n
  BY <1>2, <1>3, ListFacts DEF Answering
<1>5. l.status # "complete"
  BY <1>4 DEF Honest
<1>6. m \in MessageRow
  BY <1>0, <1>4, NewMessageFacts
<1>7. Last(x) = m
  <2> HIDE DEF m
  <2> QED BY <1>3, <1>6, LastReplaced
<1>8. IF l.status = "error" THEN m = l ELSE m.text = AppendChunk(l.text, u.text)
  <2> HIDE DEF l
  <2> QED BY <1>4, ReplyParts
<1>9. l.status # "error" /\ ~isAssistantMessageFinal(l)
  BY <1>5, <1>7, <1>8 DEF isAssistantMessageFinal
<1>10. PICK a \in 0..s[n] : l.text = Run(n, 0, a) /\ u.text = Run(n, a, s[n])
  BY <1>2, <1>9 DEF Delivered
<1>11. a \in Nat /\ 0 <= a /\ a <= s[n] /\ s[n] <= s[n] /\ s[n] \in 0..s[n]
  BY <1>10
<1>12. AppendChunk(Run(n, 0, a), Run(n, a, s[n])) = Run(n, 0, s[n])
  BY <1>11, RunAppended
<1>13. Run(n, s[n], s[n]) = <<>>
  BY <1>11, RunFacts, ZenonT(60)
<1>14. Last(x).text = Run(n, 0, s[n])
  BY <1>7, <1>8, <1>9, <1>10, <1>12
<1> QED BY <1>11, <1>13, <1>14

(* No delta, no letter.                                                    *)
LEMMA RunNothing ==
  ASSUME NEW r
  PROVE  Run(r, 0, 0) = <<>>
<1>1. 0 \in Nat /\ 0 <= 0
  OBVIOUS
<1> QED BY <1>1, RunFacts

(* After a render, the list of the moment is the one that is shown.        *)
LEMMA KnownRendered ==
  ASSUME PageOK, queue' = <<>>, store' = store \/ store' = Persist(messages')
  PROVE  Now' = messages' /\ KnownLists' \subseteq KnownLists \cup {messages'}
<1>1. Now' = messages'
  BY RenderNothing DEF Now
<1>2. store'.latest \in {store.latest, messages'} /\ store'.saved = store.saved
  BY DEF PageOK, Store, Persist
<1>3. {queue'[i].msgs : i \in {j \in DOMAIN queue' : IsSet(queue'[j])}} = {}
  <2>1. DOMAIN queue' = {}
    OBVIOUS
  <2> QED BY <2>1
<1> QED BY <1>1, <1>2, <1>3 DEF KnownLists

(* A render keeps what is said of the texts when the list it shows is an   *)
(* honest one.                                                             *)
LEMMA RenderedText ==
  ASSUME RefsOK, PageOK, TextOK, queue' = <<>>, store' = store \/ store' = Persist(messages'), sent' = sent,
         Honest(messages', fate', sent, UnderWay'), \A r \in Requests : fate'[r] = "whole" => fate[r] = "whole",
         UnderWay' \subseteq UnderWay \cup {r \in Requests : r > count.sends},
         \A n \in UnderWay' : Delivered(messages', n, sent[n], chat'.text), EditorOK', NothingYet'
  PROVE  TextOK'
<1>1. Now' = messages' /\ KnownLists' \subseteq KnownLists \cup {messages'}
  BY KnownRendered
<1>2. Kept({messages'})
  BY <1>1 DEF Kept
<1>3. \A n \in UnderWay' : Delivered(Now', n, sent'[n], chat'.text)
  BY <1>1
<1> QED BY <1>2, <1>3, TextKept

(* A mark takes requests away from the whole ones.                         *)
LEMMA MarkFate ==
  ASSUME NEW rs, NEW f, f # "whole", fate' = Mark(rs, f)
  PROVE  \A r \in Requests : fate'[r] = "whole" => fate[r] = "whole" /\ r \notin rs
BY DEF Mark

(* Messages taken from an honest list make an honest list.                 *)
LEMMA HonestFrom ==
  ASSUME NEW ms, NEW f, NEW s, NEW open, Honest(ms, f, s, open), NEW x,
         \A k \in DOMAIN x : \E i \in DOMAIN ms : x[k] = ms[i]
  PROVE  Honest(x, f, s, open)
BY DEF Honest

(* So does one more message that is not complete.                          *)
LEMMA AppendedHonest ==
  ASSUME NEW p \in Messages, NEW m \in MessageRow, m.status # "complete", NEW x, Extended(x, p, m),
         NEW f, NEW s, NEW open, Honest(p, f, s, open)
  PROVE  Honest(x, f, s, open)
<1>1. \A i \in DOMAIN x : IF i = Len(x) THEN x[i] = m ELSE i \in DOMAIN p /\ x[i] = p[i]
  BY Appended
<1> SUFFICES ASSUME NEW i \in DOMAIN x, x[i].status = "complete"
             PROVE  /\ x[i].req \notin open
                    /\ f[x[i].req] = "whole" /\ x[i].text # EditedText => x[i].text = Run(x[i].req, 0, s[x[i].req])
  BY DEF Honest
<1>2. i \in DOMAIN p /\ x[i] = p[i]
  BY <1>1
<1> QED BY <1>2 DEF Honest

(* And the user's edit of one message.                                     *)
LEMMA EditedHonest ==
  ASSUME NEW ms \in Messages, NEW i \in DOMAIN ms, NEW x, x = [ms EXCEPT ![i].text = EditedText],
         NEW f, NEW s, NEW open, Honest(ms, f, s, open)
  PROVE  /\ Honest(x, f, s, open) /\ DOMAIN x = DOMAIN ms
         /\ \A j \in DOMAIN x : x[j].req = ms[j].req /\ x[j].status = ms[j].status /\ (j # i => x[j] = ms[j])
<1>1. DOMAIN x = DOMAIN ms /\ \A j \in DOMAIN x : j # i => x[j] = ms[j]
  OBVIOUS
<1>2. ms[i] \in MessageRow
  BY ListFacts
<1>3. x[i] = [ms[i] EXCEPT !.text = EditedText]
  OBVIOUS
<1>4. x[i].req = ms[i].req /\ x[i].status = ms[i].status /\ x[i].text = EditedText
  BY <1>2, <1>3 DEF MessageRow
<1>5. ASSUME NEW j \in DOMAIN x PROVE x[j].req = ms[j].req /\ x[j].status = ms[j].status /\ (j = i => x[j].text = EditedText)
  BY <1>1, <1>4
<1> HIDE DEF EditedText
<1>6. Honest(x, f, s, open)
  BY <1>1, <1>5 DEF Honest
<1> QED BY <1>1, <1>5, <1>6

(* A render of the queue alone.                                            *)
LEMMA RenderKeepsText ==
  ASSUME RefsOK, PageOK, TextOK, ClickRenders(<<>>, chat.gen), UNCHANGED <<next, chat, sent, fate>>,
         count'.sends = count.sends, EditorOK'
  PROVE  TextOK'
<1>0. chat.gen \in Nat /\ chat.gen <= chat.gen /\ <<>> \in Seq(Updates) /\ Len(<<>>) = 0
  BY DEF RefsOK, RefTypes
<1>1. queue' = <<>> /\ (store' = store \/ store' = Persist(messages'))
  BY <1>0, ClickWalks
<1>2. messages' = Now
  <2>1. PICK vs, tr : messages' = tr[Len(<<>>)] /\ tr[0] = Rendered(messages, queue, chat.gen)
    BY <1>0, ClickWalks, ZenonT(60)
  <2> QED BY <1>0, <2>1 DEF Now
<1>3. UnderWay' = UnderWay /\ NothingYet'
  BY DEF UnderWay, TextOK, NothingYet
<1>4. Now \in KnownLists
  BY DEF KnownLists
<1>5. Honest(messages', fate', sent, UnderWay') /\ \A n \in UnderWay' : Delivered(messages', n, sent[n], chat'.text)
  BY <1>2, <1>3, <1>4 DEF TextOK
<1> QED BY <1>1, <1>3, <1>5, RenderedText

(* The user opens the editor, which is possible on what is shown only.     *)
LEMMA EditorText ==
  ASSUME RefsOK, PageOK, TextOK, NEW i \in DOMAIN messages, handleEditMessage(i)
  PROVE  TextOK'
<1>1. /\ ClickRenders(<<>>, chat.gen) /\ UNCHANGED <<next, chat, sent, fate>> /\ ~shown.req
      /\ editing' = Key(messages[i]) /\ CountEdit
  BY DEF handleEditMessage, Generating
<1>2. count \in Counts /\ count.sends \in Nat
  BY DEF RefsOK, RefTypes, Counts
<1>3. count'.sends = count.sends
  BY <1>1, <1>2 DEF CountEdit, Counts
<1>4. messages[i].req <= count.sends /\ messages[i].req \in Requests
  <2>1. Good(messages, Lost, count.sends)
    BY DEF PageOK, ListsOK
  <2>2. messages \in Messages /\ messages[i].req <= count.sends
    BY <2>1 DEF Good, Upto
  <2> QED BY <2>2, ListFacts DEF MessageRow
<1>5. next.req => messages[i].req < count.sends
  BY <1>1 DEF PageOK, FlagsOK
<1>6. EditorOK'
  <2>1. next'.req => editing' # <<"assistant", count'.sends>>
    BY <1>1, <1>2, <1>3, <1>4, <1>5 DEF Key, Requests
  <2>2. ASSUME NEW r \in Requests, r > count.sends PROVE editing' # <<"assistant", r>>
    BY <1>1, <1>2, <1>4, <2>2, ChatAssumption DEF Key, Requests
  <2> QED BY <1>3, <2>1, <2>2 DEF EditorOK
<1> QED BY <1>1, <1>3, <1>6, RenderKeepsText

(* A new request starts with nothing.                                      *)
LEMMA NewAnswer ==
  ASSUME RefsOK, TextOK, CanSend, sendChat, UNCHANGED <<fate, sent>>, editing' \in {editing, NoKey}
  PROVE  /\ count.sends + 1 \in Requests /\ count.sends \in Nat /\ sent[count.sends + 1] = 0 /\ chat'.text = <<>>
         /\ UnderWay' \subseteq {count.sends + 1} /\ UnderWay' \subseteq {r \in Requests : r > count.sends}
         /\ EditorOK' /\ NothingYet'
         /\ \A x, n : n \in UnderWay' /\ (x = <<>> \/ Last(x) = LoadingMessage(n)) => Delivered(x, n, sent[n], chat'.text)
<1> DEFINE n == count.sends
<1>1. n \in Nat /\ n + 1 \in Requests /\ count'.sends = n + 1 /\ next'.req /\ \A r \in Requests : r \in Nat
  BY SendCounts, ChatAssumption DEF Requests
<1>2. chat'.text = <<>>
  BY SendRefs
<1>3. sent[n + 1] = 0
  BY <1>1 DEF TextOK, NothingYet
<1>4. UnderWay' \subseteq {n + 1} /\ UnderWay' \subseteq {r \in Requests : r > n}
  BY <1>1 DEF UnderWay
<1>5. EditorOK'
  <2>1. \A r \in Requests : r > n => editing' # <<"assistant", r>>
    BY DEF TextOK, EditorOK, NoKey
  <2> QED BY <1>1, <2>1 DEF EditorOK
<1>6. NothingYet'
  BY <1>1 DEF TextOK, NothingYet
<1>7. ASSUME NEW x, NEW k \in UnderWay', x = <<>> \/ Last(x) = LoadingMessage(k) PROVE Delivered(x, k, sent[k], chat'.text)
  <2>1. k = n + 1 /\ sent[k] = 0
    BY <1>3, <1>4
  <2>2. Answering(x, k) => Last(x).text = <<>>
    BY <1>7 DEF Answering, LoadingMessage
  <2>3. Run(k, 0, 0) = <<>>
    BY RunNothing
  <2> QED BY <1>2, <2>1, <2>2, <2>3 DEF Delivered
<1> QED BY <1>1, <1>2, <1>3, <1>4, <1>5, <1>6, <1>7

(* The user sends again.                                                   *)
LEMMA ClickSendsText ==
  ASSUME RefsOK, PageOK, TextOK, CanSend, sendChat, UNCHANGED <<fate, sent>>, editing' \in {editing, NoKey},
         NEW p, CalmList(p, Lost, count.sends), Honest(p, fate, sent, UnderWay),
         ClickRenders(<<SetMessages(p \o <<LoadingMessage(count.sends + 1)>>)>>, chat.gen + 1)
  PROVE  TextOK'
<1> DEFINE n == count.sends
           m == LoadingMessage(n + 1)
           x == p \o <<m>>
<1>1. n \in Nat /\ n + 1 \in Requests /\ chat.gen \in Nat /\ chat.gen + 1 \in Nat /\ chat.gen <= chat.gen + 1
  BY SendCounts
<1>2. Good(x, Lost, n + 1) /\ Last(x) = m
  BY <1>1, LoadingGood
<1>3. x \in Messages /\ p \in Messages /\ Upto(p, n)
  BY <1>2 DEF Good, CalmList
<1>4. messages' = x /\ queue' = <<>> /\ (store' = store \/ store' = Persist(messages'))
  BY <1>1, <1>3, ClickSets
<1>5. /\ UnderWay' \subseteq {n + 1} /\ UnderWay' \subseteq {r \in Requests : r > n} /\ EditorOK' /\ NothingYet'
      /\ \A y, k : k \in UnderWay' /\ (y = <<>> \/ Last(y) = LoadingMessage(k)) => Delivered(y, k, sent[k], chat'.text)
  BY NewAnswer
<1>6. \A k \in UnderWay' : Delivered(x, k, sent[k], chat'.text)
  BY <1>2, <1>5
<1>7. Honest(p, fate, sent, UnderWay')
  <2> DEFINE o2 == UnderWay'
  <2>1. \A i \in DOMAIN p : p[i].req \notin o2
    <3>1. \A i \in DOMAIN p : p[i].req \in Nat /\ p[i].req <= n
      BY <1>3, ListFacts, ChatAssumption DEF Upto, MessageRow, Requests
    <3> QED BY <1>1, <1>5, <3>1
  <2> HIDE DEF o2
  <2>2. Honest(p, fate, sent, o2)
    BY <1>3, <2>1, StaysHonest
  <2> QED BY <2>2 DEF o2
<1>8. Honest(x, fate, sent, UnderWay')
  <2>1. m \in MessageRow /\ m.status # "complete" /\ Extended(x, p, m)
    BY <1>1, NewMessages DEF LoadingMessage, Extended
  <2> HIDE DEF x, m
  <2> QED BY <1>3, <1>7, <2>1, AppendedHonest
<1> HIDE DEF x
<1> QED BY <1>4, <1>5, <1>6, <1>8, RenderedText

(* The user asks for a new answer.                                         *)
LEMMA RegenerateText ==
  ASSUME RefsOK, PageOK, TextOK, NEW i \in DOMAIN messages, handleRegenerateMessage(i)
  PROVE  TextOK'
<1> DEFINE k == IF messages[i].from = "user" THEN i ELSE i - 1
           p == SubSeq(messages, 1, k)
<1>1. CanSend /\ sendChat /\ UNCHANGED <<fate, sent, editing>> /\ ~shown.req /\ count.sends \in Nat
      /\ ClickRenders(<<SetMessages(p \o <<LoadingMessage(count.sends + 1)>>)>>, chat.gen + 1)
  BY DEF handleRegenerateMessage, Regenerated, Generating, RefsOK, RefTypes, Counts
<1>2. Good(messages, Lost, count.sends) /\ Calm(messages, Lost)
  BY <1>1 DEF PageOK, ListsOK, FlagsOK
<1>3. k \in 0..Len(messages)
  BY <1>2, ListFacts DEF Good
<1>4. CutAfter(p, messages, k)
  BY DEF CutAfter
<1> HIDE DEF p, k
<1>5. CalmList(p, Lost, count.sends) /\ \A j \in DOMAIN p : j \in DOMAIN messages /\ p[j] = messages[j]
  BY <1>1, <1>2, <1>3, <1>4, PrefixGood DEF CalmList
<1>6. Honest(messages, fate, sent, UnderWay)
  BY DEF TextOK, KnownLists
<1>7. Honest(p, fate, sent, UnderWay)
  BY <1>5, <1>6, HonestFrom
<1> QED BY <1>1, <1>5, <1>7, ClickSendsText

(* The user saves an edited message, and may send the conversation.        *)
LEMMA EditText ==
  ASSUME RefsOK, PageOK, TextOK, NEW i \in DOMAIN messages, NEW submit \in BOOLEAN, applyEdit(i, submit)
  PROVE  TextOK'
<1> DEFINE n == count.sends
           e == Edited(i)
<1>0. n \in Nat /\ chat.gen \in Nat /\ chat.gen <= chat.gen
  BY DEF RefsOK, RefTypes, Counts
<1>1. Good(messages, Lost, n) /\ messages \in Messages /\ Honest(messages, fate, sent, UnderWay)
  BY DEF PageOK, ListsOK, Good, TextOK, KnownLists
<1>2. Good(e, Lost, n) /\ Len(e) = Len(messages) /\ e # <<>> /\ messages # <<>>
  BY <1>0, <1>1, EditedGood DEF Edited
<1>3. /\ Honest(e, fate, sent, UnderWay) /\ DOMAIN e = DOMAIN messages
      /\ \A j \in DOMAIN e : e[j].req = messages[j].req /\ e[j].status = messages[j].status /\ (j # i => e[j] = messages[j])
  BY <1>1, EditedHonest DEF Edited
<1>4. /\ DOMAIN messages = 1..Len(messages) /\ Len(messages) \in Nat /\ Len(messages) \in DOMAIN messages
      /\ Last(messages) = messages[Len(messages)]
  BY <1>1, <1>2, ListFacts
<1>5. e \in Messages /\ Last(e) = e[Len(messages)]
  BY <1>2, ListFacts DEF Good
<1> HIDE DEF e
<1>6. CASE submit /\ messages[i].from = "user"
  <2> DEFINE p == SubSeq(e, 1, i)
  <2>1. CanSend /\ sendChat /\ UNCHANGED <<fate, sent>> /\ editing' = NoKey
        /\ ClickRenders(<<SetMessages(p \o <<LoadingMessage(n + 1)>>)>>, chat.gen + 1)
    BY <1>6 DEF applyEdit, e
  <2>2. i \in 0..Len(e)
    BY <1>2, <1>4
  <2>3. /\ p \in Messages /\ Len(p) = i /\ Good(p, Lost, n)
        /\ \A j \in DOMAIN p : j \in DOMAIN e /\ p[j] = e[j]
    <3>1. CutAfter(p, e, i)
      BY DEF CutAfter
    <3> HIDE DEF p
    <3> QED BY <1>0, <1>2, <2>2, <3>1, PrefixGood
  <2>4. Settled(p)
    <3>1. p # <<>> => Last(p) = p[i] /\ i \in DOMAIN p
      BY <2>3, ListFacts
    <3>2. e[i].from = "user"
      <4>1. messages[i] \in MessageRow
        BY <1>1, ListFacts
      <4>2. e[i] = [messages[i] EXCEPT !.text = EditedText]
        BY DEF e, Edited
      <4> QED BY <1>6, <4>1, <4>2 DEF MessageRow
    <3> QED BY <2>3, <3>1, <3>2 DEF Settled, isAssistantMessagePending
  <2>5. CalmList(p, Lost, n)
    BY <1>0, <2>3, <2>4, SettledIsCalm DEF CalmList
  <2> HIDE DEF p
  <2>6. Honest(p, fate, sent, UnderWay)
    BY <1>3, <2>3, HonestFrom
  <2> QED BY <2>1, <2>5, <2>6, ClickSendsText
<1>7. CASE ~(submit /\ messages[i].from = "user")
  <2> DEFINE rs == IF queue = <<>> THEN {} ELSE {n, Last(messages).req}
  <2>1. /\ next' = next /\ ClickRenders(<<SetMessages(e)>>, chat.gen) /\ fate' = Mark(rs, "overwritten")
        /\ UNCHANGED <<count, chat, sent>> /\ editing' = NoKey /\ Key(messages[i]) = editing
    BY <1>7 DEF applyEdit, e
  <2>2. messages' = e /\ queue' = <<>> /\ (store' = store \/ store' = Persist(messages'))
    BY <1>0, <1>5, <2>1, ClickSets
  <2>3. \A r \in Requests : fate'[r] = "whole" => fate[r] = "whole" /\ r \notin rs
    BY <2>1, MarkFate
  <2>4. UnderWay' \subseteq UnderWay /\ \A k \in UnderWay' : k = n /\ next.req /\ queue = <<>>
    <3>1. next.req => n \in Requests
      BY UnderWayFacts
    <3> QED BY <2>1, <2>3, <3>1 DEF UnderWay
  <2>5. Honest(e, fate', sent, UnderWay')
    <3> DEFINE f2 == fate'
               o2 == UnderWay'
    <3>1. /\ \A r \in Requests : f2[r] = "whole" => fate[r] = "whole" /\ (sent[r] = sent[r] \/ r \in UnderWay)
          /\ \A j \in DOMAIN e : e[j].req \in o2 => e[j].req \in UnderWay
      BY <2>3, <2>4
    <3> HIDE DEF f2, o2
    <3>2. Honest(e, f2, sent, o2)
      BY <1>3, <1>5, <3>1, StaysHonest
    <3> QED BY <3>2 DEF f2, o2
  <2>6. ASSUME NEW k \in UnderWay' PROVE Delivered(e, k, sent[k], chat'.text)
    <3>1. k = n /\ next.req /\ Now = messages /\ k \in UnderWay
      BY <2>4, NowFacts
    <3>2. Delivered(messages, k, sent[k], chat.text)
      BY <3>1 DEF TextOK
    <3>3. CASE i = Len(messages)
      <4>1. Key(Last(messages)) # <<"assistant", k>>
        BY <1>4, <2>1, <3>1, <3>3 DEF TextOK, EditorOK
      <4>2. messages[i] \in MessageRow
        BY <1>1, ListFacts
      <4>3. e[i] = [messages[i] EXCEPT !.text = EditedText]
        BY DEF e, Edited
      <4>4. Last(e).from = Last(messages).from /\ Last(e).req = Last(messages).req
        BY <1>4, <1>5, <3>3, <4>2, <4>3 DEF MessageRow
      <4> QED BY <4>1, <4>4 DEF Delivered, Answering, Key
    <3>4. CASE i # Len(messages)
      <4>1. Last(e) = Last(messages)
        BY <1>3, <1>4, <1>5, <3>4
      <4> QED BY <1>2, <2>1, <3>2, <4>1 DEF Delivered, Answering
    <3> QED BY <3>3, <3>4
  <2>7. EditorOK' /\ NothingYet'
    BY <2>1 DEF EditorOK, NoKey, TextOK, NothingYet
  <2>8. UnderWay' \subseteq UnderWay \cup {r \in Requests : r > count.sends}
    BY <2>4
  <2> QED BY <2>1, <2>2, <2>3, <2>5, <2>6, <2>7, <2>8, RenderedText
<1> QED BY <1>6, <1>7

(* The user clears the conversation.                                       *)
LEMMA ClearText ==
  ASSUME RefsOK, PageOK, TextOK, handleClearMessages
  PROVE  TextOK'
<1>0. count \in Counts /\ chat.gen \in Nat /\ chat.gen <= chat.gen
  BY DEF RefsOK, RefTypes, Counts
<1>1. /\ next' = next /\ ClickRenders(<<SetMessages(<<>>)>>, chat.gen) /\ UNCHANGED <<fate, sent, chat>> /\ CountEdit
      /\ editing' = NoKey
  BY DEF handleClearMessages
<1>2. count'.sends = count.sends
  BY <1>0, <1>1 DEF CountEdit, Counts
<1>3. <<>> \in Messages /\ DOMAIN <<>> = {}
  BY DEF Messages
<1>4. messages' = <<>> /\ queue' = <<>> /\ (store' = store \/ store' = Persist(messages'))
  BY <1>0, <1>1, <1>3, ClickSets
<1>5. UnderWay' = UnderWay /\ EditorOK' /\ NothingYet'
  BY <1>1, <1>2 DEF UnderWay, EditorOK, NoKey, TextOK, NothingYet
<1>6. Honest(messages', fate', sent, UnderWay') /\ \A n \in UnderWay' : Delivered(messages', n, sent[n], chat'.text)
  BY <1>3, <1>4 DEF Honest, Delivered, Answering
<1> QED BY <1>1, <1>4, <1>5, <1>6, RenderedText

(* The user deletes a message of the last render, which is not the answer  *)
(* under way.                                                              *)
LEMMA DeleteText ==
  ASSUME RefsOK, PageOK, TextOK, NEW i \in DOMAIN messages, handleDeleteMessage(i)
  PROVE  TextOK'
<1> DEFINE key == Key(messages[i])
           u == [op |-> "delete", key |-> key, ran |-> FALSE]
           n == count.sends
<1>0. n \in Nat /\ chat.gen \in Nat /\ chat.gen <= chat.gen
  BY DEF RefsOK, RefTypes, Counts
<1>1. ~shown.req /\ next' = next /\ ClickRenders(<<u>>, chat.gen) /\ count'.sends = n /\ UNCHANGED <<fate, sent, chat, editing>>
  <2>1. count \in Counts /\ ~shown.req /\ next' = next /\ ClickRenders(<<u>>, chat.gen) /\ CountEdit
        /\ UNCHANGED <<fate, sent, chat, editing>>
    BY DEF RefsOK, RefTypes, handleDeleteMessage, Generating
  <2> HIDE DEF u
  <2>2. count'.sends = n
    BY <2>1 DEF CountEdit, Counts
  <2> QED BY <2>1, <2>2
<1>2. Good(messages, Lost, n) /\ messages \in Messages
  BY DEF PageOK, ListsOK, Good
<1>3. messages[i] \in MessageRow
  BY <1>2, ListFacts
<1>4. u \in Updates /\ u.op = "delete" /\ u.key = key
  BY <1>3 DEF Updates, DeleteUpdate, Key, MessageRow
<1> HIDE DEF u, key
<1>5. <<u>> \in Seq(Updates) /\ Len(<<u>>) = 1 /\ <<u>>[1] = u
  BY <1>4
<1>6. PICK vs, tr :
        /\ Pending(tr[0], chat.gen) /\ messages' = tr[Len(<<u>>)]
        /\ \A k \in 1..Len(<<u>>) : tr[k] = RunUpdater(tr[k - 1], vs[k], chat.gen)
        /\ \A k \in 1..Len(<<u>>) : Marked(vs[k], <<u>>[k]) /\ (vs[k].ran => k = 1 /\ queue = <<>> /\ next = shown)
        /\ tr[0] = Rendered(messages, queue, chat.gen)
  BY <1>0, <1>1, <1>5, ClickWalks
<1>7. queue' = <<>> /\ (store' = store \/ store' = Persist(messages'))
  BY <1>0, <1>1, <1>5, ClickWalks
<1> DEFINE v == vs[1]
<1>8. Marked(v, u) /\ messages' = RunUpdater(Now, v, chat.gen)
  BY <1>5, <1>6 DEF Now
<1>9. v.op = "delete" /\ v.key = key
  BY <1>4, <1>8, MarkedUpdate
<1> HIDE DEF v
<1>10. messages' = removeMessageByKey(Now, key)
  BY <1>8, <1>9, PageUpdate
<1>11. Good(Now, Lost, n) /\ (HasSet => Answering(Now, n))
  BY NowFacts
<1>12. /\ Now # <<>> /\ Key(Last(Now)) # key => messages' # <<>> /\ Last(messages') = Last(Now)
       /\ \A k \in DOMAIN messages' : \E j \in DOMAIN Now : messages'[k] = Now[j]
  <2> DEFINE y == messages'
  <2>1. y = removeMessageByKey(Now, key)
    BY <1>10
  <2> HIDE DEF y
  <2>2. /\ Now # <<>> /\ Key(Last(Now)) # key => y # <<>> /\ Last(y) = Last(Now)
        /\ \A k \in DOMAIN y : \E j \in DOMAIN Now : y[k] = Now[j]
    BY <1>0, <1>11, <2>1, RemoveGood
  <2> QED BY <2>2 DEF y
<1>13. UnderWay' = UnderWay /\ EditorOK' /\ NothingYet'
  BY <1>1 DEF UnderWay, EditorOK, TextOK, NothingYet
<1>14. Honest(messages', fate', sent, UnderWay')
  <2> DEFINE y == messages'
  <2>1. \A k \in DOMAIN y : \E j \in DOMAIN Now : y[k] = Now[j]
    BY <1>12
  <2>2. Honest(Now, fate, sent, UnderWay)
    BY DEF TextOK, KnownLists
  <2> HIDE DEF y
  <2>3. Honest(y, fate, sent, UnderWay)
    BY <2>1, <2>2, HonestFrom
  <2> QED BY <1>1, <1>13, <2>3 DEF y
<1>15. ASSUME NEW k \in UnderWay' PROVE Delivered(messages', k, sent[k], chat'.text)
  <2>1. k \in UnderWay /\ k = n /\ next.req
    BY <1>13, UnderWayFacts
  <2>2. HasSet
    BY <1>1, <2>1 DEF PageOK, FlagsOK
  <2>3. messages[i].req < n /\ Answering(Now, n)
    BY <1>11, <2>2 DEF PageOK, FlagsOK
  <2>4. Key(Last(Now)) # key
    BY <1>0, <2>3 DEF Key, key, Answering
  <2>5. messages' # <<>> /\ Last(messages') = Last(Now)
    BY <1>12, <2>3, <2>4 DEF Answering
  <2>6. Delivered(Now, k, sent[k], chat.text)
    BY <2>1 DEF TextOK
  <2> QED BY <1>1, <2>3, <2>5, <2>6 DEF Delivered, Answering
<1> QED BY <1>1, <1>7, <1>13, <1>14, <1>15, RenderedText

(* What is queued writes nothing more in a later generation, but for the   *)
(* updater that React ran when it was queued.                              *)
LEMMA LateRender ==
  ASSUME RefsOK, PageOK, TextOK, NEW gen \in Nat, gen > chat.gen
  PROVE  Honest(Rendered(messages, queue, gen), fate, sent, {})
<1>0. ASSUME NEW ms \in KnownLists PROVE Honest(ms, fate, sent, {})
  BY DEF TextOK, Honest
<1>1. /\ queue \in Seq(SetUpdate \cup CallUpdate) /\ chat.gen \in Nat /\ \A i \in DOMAIN queue : queue[i].ran => i = 1
      /\ \A i \in DOMAIN queue : ~IsSet(queue[i]) => CallOK(queue[i], queue, i, chat.gen, count.sends)
  BY DEF RefsOK, RefTypes, PageOK, QueueOK
<1>2. /\ DOMAIN queue = 1..Len(queue) /\ Len(queue) \in Nat
      /\ \A i \in DOMAIN queue : queue[i] \in SetUpdate \cup CallUpdate
  BY <1>1
<1>3. PICK tr : Walk(tr, messages, queue, gen)
  BY <1>2, RenderWalks
<1> DEFINE H == {ms \in {tr[j] : j \in 0..Len(queue)} : Honest(ms, fate, sent, {})}
           S == [j \in 0..Len(queue) |-> H]
<1>4. tr[0] \in S[0]
  <2>1. tr[0] = messages /\ messages \in KnownLists /\ 0 \in 0..Len(queue)
    BY <1>2, <1>3 DEF Walk, KnownLists
  <2> QED BY <1>0, <2>1
<1>5. ASSUME NEW j \in 1..Len(queue), tr[j - 1] \in S[j - 1] PROVE tr[j] \in S[j]
  <2> DEFINE u == queue[j]
  <2>1. j \in 0..Len(queue) /\ j - 1 \in 0..Len(queue) /\ j \in DOMAIN queue /\ u \in SetUpdate \cup CallUpdate
    BY <1>2
  <2>2. Honest(tr[j - 1], fate, sent, {}) /\ tr[j] = RunUpdater(tr[j - 1], u, gen)
    BY <1>3, <1>5, <2>1 DEF Walk
  <2>3. CASE IsSet(u)
    <3>1. tr[j] = u.msgs
      BY <2>2, <2>3, PageUpdate DEF IsSet
    <3>2. u.msgs \in KnownLists
      BY <2>1, <2>3 DEF KnownLists
    <3> QED BY <1>0, <2>1, <3>1, <3>2
  <2>4. CASE ~IsSet(u) /\ u.ran
    <3>1. j = 1 /\ tr[0] = messages /\ queue # <<>>
      BY <1>1, <1>2, <1>3, <2>1, <2>4 DEF Walk
    <3>2. RunUpdater(messages, u, chat.gen) = store.latest
      BY <2>4, <3>1 DEF PageOK, FlagsOK
    <3>3. tr[j] = store.latest
      BY <2>1, <2>2, <2>4, <3>1, <3>2, RanUpdate
    <3>4. store.latest \in KnownLists
      BY DEF KnownLists
    <3> QED BY <1>0, <2>1, <3>3, <3>4
  <2>5. CASE ~IsSet(u) /\ ~u.ran
    <3>1. u \in CallUpdate /\ u.gen <= chat.gen
      BY <1>1, <2>1, <2>5 DEF IsSet, SetUpdate, CallOK
    <3>2. Stale(u, gen)
      BY <1>1, <2>5, <3>1 DEF Stale, CallUpdate, Replies
    <3>3. tr[j] = tr[j - 1]
      BY <2>2, <3>2 DEF RunUpdater
    <3> QED BY <2>1, <2>2, <3>3
  <2> QED BY <2>3, <2>4, <2>5
<1> HIDE DEF S
<1>6. \A j \in 0..Len(queue) : tr[j] \in S[j]
  BY <1>2, <1>4, <1>5, WalkInduction
<1>7. tr[Len(queue)] \in S[Len(queue)] /\ Len(queue) \in 0..Len(queue)
  BY <1>2, <1>6
<1> QED BY <1>3, <1>7 DEF S, Walk

(* An answer that is stopped completes with what it has.                   *)
LEMMA StopHonest ==
  ASSUME NEW ms \in Messages, NEW u, u.op = "stop", u.text \in Texts, NEW gen,
         NEW f, NEW s, Honest(ms, f, s, {}), NEW n, NEW lost, AtLast(ms, n, lost),
         \A r \in lost : f[r] # "whole", n \in Requests => f[n] # "whole", NEW x, x = RunUpdater(ms, u, gen)
  PROVE  Honest(x, f, s, {})
<1>0. u.op \in Replies \cup {"stop"}
  OBVIOUS
<1>1. CASE Stale(u, gen) \/ ms = <<>> \/ Last(ms).from # "assistant"
  <2>1. x = ms
    BY <1>0, <1>1, ReplyResult
  <2> QED BY <2>1
<1>2. CASE ~(Stale(u, gen) \/ ms = <<>> \/ Last(ms).from # "assistant")
  <2> DEFINE l == Last(ms)
             m == NewMessage(l, u)
  <2>1. Replaced(x, ms, m) /\ ms # <<>>
    BY <1>0, <1>2, ReplyResult DEF Replaced
  <2>2. l \in MessageRow /\ l = ms[Len(ms)] /\ Len(ms) \in DOMAIN ms
    BY <2>1, ListFacts
  <2>3. f[l.req] # "whole"
    BY <1>2, <2>2 DEF AtLast, MessageRow
  <2> HIDE DEF l
  <2>4. m \in MessageRow /\ m.req = l.req
    BY <1>0, <2>2, NewMessageFacts
  <2> HIDE DEF m
  <2> QED BY <2>1, <2>3, <2>4, ReplacedHonest
<1> QED BY <1>1, <1>2

(* The user stops the answer.                                              *)
LEMMA StopText ==
  ASSUME RefsOK, PageOK, TextOK, stopGeneration
  PROVE  TextOK'
<1> DEFINE n == count.sends
           g == chat.gen + 1
           chunk == Update("chunk", chat.gen, chat.text)
           stop == Update("stop", g, <<>>)
           us == FlushUpdates(chat.gen) \o <<stop>>
           f2 == fate'
<1>0. n \in Nat /\ chat.gen \in Nat /\ g \in Nat /\ chat.gen <= g /\ g > chat.gen /\ chat.text \in Texts
  BY DEF RefsOK, RefTypes, RefsAgree, Counts
<1>1. /\ shown.req /\ ClickRenders(us, g) /\ UNCHANGED <<count, sent, editing>> /\ next' = Idle /\ fate' = Mark({n}, "cut")
  BY DEF stopGeneration, RefsOK, RefsAgree, Generating
<1>2. UnderWay' = {} /\ EditorOK' /\ NothingYet'
  BY <1>1 DEF Idle, UnderWay, TextOK, EditorOK, NothingYet
<1>3. chunk \in Updates /\ chunk.op = "chunk" /\ chunk.gen = chat.gen /\ chunk.text = chat.text
  BY <1>0, CallUpdates DEF Replies
<1>4. stop \in Updates /\ stop.op = "stop" /\ stop.gen = g /\ stop.text = <<>>
  <2>1. <<>> \in Texts /\ "stop" \in Replies \cup {"stop"}
    BY NewTexts
  <2> HIDE DEF g
  <2> QED BY <1>0, <2>1 DEF Update, Updates, ReplyUpdate
<1>5. us = IF chat.text # <<>> THEN <<chunk, stop>> ELSE <<stop>>
  <2>1. FlushUpdates(chat.gen) = IF chat.text # <<>> THEN <<chunk>> ELSE <<>>
    BY DEF FlushUpdates
  <2> HIDE DEF chunk, stop
  <2>2. <<chunk>> \o <<stop>> = <<chunk, stop>> /\ <<>> \o <<stop>> = <<stop>>
    BY TwoInARow
  <2> QED BY <2>1, <2>2
<1> HIDE DEF chunk, stop, us, g
<1>6. us \in Seq(Updates)
  BY <1>3, <1>4, <1>5
<1>7. PICK vs, tr :
        /\ Pending(tr[0], g) /\ messages' = tr[Len(us)]
        /\ \A k \in 1..Len(us) : tr[k] = RunUpdater(tr[k - 1], vs[k], g)
        /\ \A k \in 1..Len(us) : Marked(vs[k], us[k]) /\ (vs[k].ran => k = 1 /\ queue = <<>> /\ next = shown)
        /\ tr[0] = Rendered(messages, queue, g)
  BY <1>0, <1>1, <1>6, ClickWalks
<1>8. queue' = <<>> /\ (store' = store \/ store' = Persist(messages'))
  BY <1>0, <1>1, <1>6, ClickWalks
<1>9. tr[0] \in Messages /\ AtLast(tr[0], n, Lost)
  <2>1. CASE queue = <<>>
    <3>1. ~HasSet /\ tr[0] = messages
      BY <1>7, <2>1 DEF Pending, HasSet
    <3> QED BY <1>1, <3>1 DEF PageOK, FlagsOK, ListsOK, Good
  <2>2. CASE queue # <<>>
    BY <1>7, <2>2 DEF Pending, Good
  <2> QED BY <2>1, <2>2
<1>10. \A r \in Requests : f2[r] = "whole" => fate[r] = "whole" /\ r # n
  BY <1>1, MarkFate
<1>11. (\A r \in Lost : f2[r] # "whole") /\ (n \in Requests => f2[n] # "whole")
  BY <1>10 DEF Lost
<1> HIDE DEF f2
<1>12. Honest(tr[0], f2, sent, {})
  <2>1. Honest(tr[0], fate, sent, {})
    BY <1>0, <1>7, LateRender
  <2> QED BY <1>9, <1>10, <2>1, StaysHonest
<1>13. ASSUME NEW x \in Messages, NEW v, AtLast(x, n, Lost), Honest(x, f2, sent, {}), Marked(v, stop), NEW y, y = RunUpdater(x, v, g)
       PROVE  Honest(y, f2, sent, {})
  <2>1. v.op = "stop" /\ v.text = <<>>
    BY <1>4, <1>13, MarkedUpdate
  <2>2. v.text \in Texts
    BY <2>1, NewTexts
  <2> QED BY <1>11, <1>13, <2>1, <2>2, StopHonest
<1>14. Honest(messages', f2, sent, {})
  <2>1. CASE chat.text = <<>>
    <3>1. us = <<stop>>
      BY <1>5, <2>1
    <3>2. Len(us) = 1 /\ us[1] = stop
      BY <3>1
    <3>3. Marked(vs[1], stop) /\ messages' = RunUpdater(tr[0], vs[1], g)
      BY <1>7, <3>2
    <3> QED BY <1>9, <1>12, <1>13, <3>3
  <2>2. CASE chat.text # <<>>
    <3>1. us = <<chunk, stop>>
      BY <1>5, <2>2
    <3>2. Len(us) = 2 /\ us[1] = chunk /\ us[2] = stop
      BY <3>1
    <3> DEFINE x == tr[1]
               v == vs[1]
    <3>3. /\ Marked(v, chunk) /\ x = RunUpdater(tr[0], v, g)
          /\ Marked(vs[2], stop) /\ messages' = RunUpdater(x, vs[2], g)
      BY <1>7, <3>2
    <3> HIDE DEF x, v
    <3>4. v.op = "chunk" /\ v.text = chat.text /\ v.op \in Replies
      BY <1>3, <3>3, MarkedUpdate DEF Replies
    <3>5. /\ x \in Messages /\ (x = <<>> <=> tr[0] = <<>>)
          /\ tr[0] # <<>> => Last(x).from = Last(tr[0]).from /\ Last(x).req = Last(tr[0]).req
      <4>1. v.text \in Texts /\ v.op \in Replies \cup {"stop"}
        BY <1>0, <3>4 DEF Good
      <4> QED BY <1>9, <3>3, <4>1, ReplyKeepsLast
    <3>6. AtLast(x, n, Lost)
      BY <1>9, <3>5 DEF AtLast
    <3>7. sent[n] \in Nat
      <4>1. next.req
        BY <2>2 DEF RefsOK, RefsAgree, Streaming
      <4>2. n \in Requests
        BY <4>1, UnderWayFacts
      <4> QED BY <4>2 DEF RefsOK, RefTypes
    <3>8. Honest(x, f2, sent, {})
      <4>1. CASE Stale(v, g)
        <5>1. x = tr[0]
          BY <3>3, <4>1 DEF RunUpdater
        <5> QED BY <1>12, <5>1
      <4>2. CASE ~Stale(v, g)
        <5>1. v.text \in Texts
          BY <1>0, <3>4
        <5> QED BY <1>9, <1>11, <1>12, <3>3, <3>4, <3>7, <4>2, <5>1, ReplyHonest
      <4> QED BY <4>1, <4>2
    <3> QED BY <1>13, <3>3, <3>5, <3>6, <3>8
  <2> QED BY <2>1, <2>2
<1>15. Honest(messages', fate', sent, UnderWay')
  BY <1>2, <1>14 DEF f2
<1>16. \A r \in Requests : fate'[r] = "whole" => fate[r] = "whole"
  BY <1>10 DEF f2
<1> QED BY <1>1, <1>2, <1>8, <1>15, <1>16, RenderedText

(* Updates that wait: the list of the moment is the one they leave.        *)
LEMMA QueueGrows ==
  ASSUME PageOK, NEW us \in Seq(Updates), us # <<>>, updateMessages(us), messages' = messages
  PROVE  \E vs, tr :
           /\ tr[0] = Rendered(messages, queue, chat'.gen) /\ Now' = tr[Len(us)]
           /\ \A i \in 1..Len(us) : tr[i] = RunUpdater(tr[i - 1], vs[i], chat'.gen)
           /\ \A i \in 1..Len(us) : Marked(vs[i], us[i])
           /\ KnownLists' \subseteq KnownLists \cup {Now'} \cup {vs[i].msgs : i \in {j \in 1..Len(us) : IsSet(vs[j])}}
                               \cup {x \in {RunUpdater(messages, vs[1], chat.gen)} : queue = <<>>}
<1> DEFINE gen == chat'.gen
<1>1. PICK now \in MayRunNow(us) :
        /\ queue' = Queued(us, now)
        /\ store' = IF now THEN Persist(RunUpdater(messages, queue'[1], chat.gen)) ELSE store
  BY DEF updateMessages
<1> DEFINE q == Queued(us, now)
           k == Len(queue)
<1>2. /\ now \in BOOLEAN /\ (now => us # <<>> /\ queue = <<>> /\ next = shown)
      /\ Len(q) \in Nat /\ DOMAIN q = 1..Len(q) /\ Len(q) = k + Len(us) /\ k \in Nat /\ Len(us) \in Nat
      /\ \A i \in 1..k : q[i] = queue[i]
      /\ \A i \in 1..Len(us) : Marked(q[k + i], us[i]) /\ (q[k + i].ran => i = 1 /\ now)
  BY QueuedFacts
<1> HIDE DEF q
<1>3. queue' = q
  BY <1>1 DEF q
<1>4. PICK tr : Walk(tr, messages, q, gen)
  BY <1>2, RenderWalks
<1> DEFINE t == [i \in 0..Len(us) |-> tr[k + i]]
           vs == [i \in 1..Len(us) |-> q[k + i]]
<1>5. Now' = tr[Len(q)] /\ \A j \in 1..Len(q) : tr[j] = RunUpdater(tr[j - 1], q[j], gen)
  <2>1. Now' = Rendered(messages, q, gen)
    BY <1>3 DEF Now
  <2> QED BY <1>4, <2>1 DEF Walk
<1>6. t[Len(us)] = Now' /\ t[0] = Rendered(messages, queue, gen)
  <2>1. t[0] = tr[k] /\ t[Len(us)] = Now'
    BY <1>2, <1>5
  <2>2. DOMAIN queue = 1..Len(queue) /\ Len(queue) <= Len(q)
    BY <1>2 DEF PageOK, QueueOK
  <2> HIDE DEF gen
  <2>3. Rendered(messages, queue, gen) = tr[k]
    BY <1>2, <1>4, <2>2, RenderPrefix, ZenonT(60)
  <2> QED BY <2>1, <2>3
<1>7. ASSUME NEW i \in 1..Len(us) PROVE t[i] = RunUpdater(t[i - 1], vs[i], gen) /\ Marked(vs[i], us[i])
  <2>1. k + i \in 1..Len(q) /\ (k + i) - 1 = k + (i - 1) /\ i \in 0..Len(us) /\ i - 1 \in 0..Len(us)
    BY <1>2
  <2>2. tr[k + i] = RunUpdater(tr[k + (i - 1)], q[k + i], gen)
    BY <1>2, <1>5, <2>1
  <2> QED BY <1>2, <2>1, <2>2
<1>8. store'.latest \in {store.latest} \cup {x \in {RunUpdater(messages, vs[1], chat.gen)} : queue = <<>>} /\ store'.saved = store.saved
  <2>1. CASE now
    <3>1. queue = <<>> /\ k = 0 /\ 1 \in 1..Len(us) /\ vs[1] = q[1]
      BY <1>2, <2>1
    <3> DEFINE y == RunUpdater(messages, vs[1], chat.gen)
    <3>2. store' = [store EXCEPT !.latest = y, !.timer = TRUE]
      BY <1>1, <1>3, <2>1, <3>1 DEF Persist
    <3> HIDE DEF y
    <3>3. store'.latest = y /\ store'.saved = store.saved
      BY <3>2 DEF PageOK, Store
    <3> QED BY <3>1, <3>3 DEF y
  <2>2. CASE ~now
    BY <1>1, <2>2
  <2> QED BY <1>2, <2>1, <2>2
<1>9. ASSUME NEW i \in DOMAIN q, IsSet(q[i])
      PROVE  q[i].msgs \in KnownLists \cup {vs[j].msgs : j \in {l \in 1..Len(us) : IsSet(vs[l])}}
  <2>1. CASE i <= k
    <3>1. i \in DOMAIN queue /\ q[i] = queue[i]
      BY <1>2, <2>1 DEF PageOK, QueueOK
    <3> QED BY <1>9, <3>1 DEF KnownLists
  <2>2. CASE i > k
    <3>1. i - k \in 1..Len(us) /\ k + (i - k) = i
      BY <1>2, <2>2
    <3>2. vs[i - k] = q[i]
      BY <3>1
    <3> QED BY <1>9, <3>1, <3>2
  <2>3. i <= k \/ i > k
    BY <1>2
  <2> QED BY <2>1, <2>2, <2>3
<1>10. KnownLists' \subseteq KnownLists \cup {Now'} \cup {vs[i].msgs : i \in {j \in 1..Len(us) : IsSet(vs[j])}}
                               \cup {x \in {RunUpdater(messages, vs[1], chat.gen)} : queue = <<>>}
  <2> HIDE DEF vs
  <2>1. \A ms \in KnownLists' : \/ ms \in {messages, store'.latest, store'.saved, Now'}
                                \/ \E i \in DOMAIN q : IsSet(q[i]) /\ ms = q[i].msgs
    BY <1>3 DEF KnownLists
  <2>2. messages \in KnownLists /\ store.latest \in KnownLists /\ store.saved \in KnownLists
    BY DEF KnownLists
  <2> QED BY <1>8, <1>9, <2>1, <2>2
<1> HIDE DEF t, vs
<1> QED BY <1>6, <1>7, <1>10

(* The updates of the callbacks.                                           *)
LEMMA QueueCalls ==
  ASSUME PageOK, NEW us \in Seq(Updates), us # <<>>, updateMessages(us), messages' = messages, chat'.gen = chat.gen,
         \A i \in DOMAIN us : us[i].op \in Replies /\ us[i].gen = chat.gen
  PROVE  \E vs, tr :
           /\ tr[0] = Now /\ Now' = tr[Len(us)]
           /\ \A i \in 1..Len(us) : tr[i] = RunUpdater(tr[i - 1], vs[i], chat.gen)
           /\ \A i \in 1..Len(us) : vs[i].op = us[i].op /\ vs[i].text = us[i].text /\ ~Stale(vs[i], chat.gen)
           /\ KnownLists' \subseteq KnownLists \cup {tr[1], tr[Len(us)]}
<1>1. PICK vs, tr :
        /\ tr[0] = Rendered(messages, queue, chat'.gen) /\ Now' = tr[Len(us)]
        /\ \A i \in 1..Len(us) : tr[i] = RunUpdater(tr[i - 1], vs[i], chat'.gen)
        /\ \A i \in 1..Len(us) : Marked(vs[i], us[i])
        /\ KnownLists' \subseteq KnownLists \cup {Now'} \cup {vs[i].msgs : i \in {j \in 1..Len(us) : IsSet(vs[j])}}
                               \cup {x \in {RunUpdater(messages, vs[1], chat.gen)} : queue = <<>>}
  BY QueueGrows
<1>2. tr[0] = Now /\ \A i \in 1..Len(us) : tr[i] = RunUpdater(tr[i - 1], vs[i], chat.gen)
  BY <1>1 DEF Now
<1>3. ASSUME NEW i \in 1..Len(us)
      PROVE  vs[i].op = us[i].op /\ vs[i].text = us[i].text /\ ~Stale(vs[i], chat.gen) /\ ~IsSet(vs[i])
  <2> DEFINE u == us[i]
             v == vs[i]
  <2>1. u \in Updates /\ u.op \in Replies /\ u.gen = chat.gen /\ Marked(v, u)
    BY <1>1
  <2> HIDE DEF u, v
  <2>2. v.op = u.op /\ v.text = u.text /\ v.gen = u.gen
    BY <2>1, MarkedUpdate
  <2>3. ~Stale(v, chat.gen) /\ ~IsSet(v)
    BY <2>1, <2>2 DEF Stale, IsSet, Replies
  <2> QED BY <2>2, <2>3 DEF u, v
<1>4. KnownLists' \subseteq KnownLists \cup {tr[1], tr[Len(us)]}
  <2>1. queue = <<>> => RunUpdater(messages, vs[1], chat.gen) = tr[1]
    <3>1. queue = <<>> => tr[0] = messages
      BY <1>2, RenderNothing DEF Now
    <3>2. 1 \in 1..Len(us) /\ 1 - 1 = 0
      OBVIOUS
    <3> QED BY <1>2, <3>1, <3>2
  <2>2. {vs[i].msgs : i \in {j \in 1..Len(us) : IsSet(vs[j])}} = {}
    BY <1>3
  <2> QED BY <1>1, <2>1, <2>2
<1> QED BY <1>1, <1>2, <1>3, <1>4

(* A step that touches neither the lists nor the text on its way.          *)
LEMMA QuietText ==
  ASSUME TextOK, UNCHANGED <<messages, queue, store, count, fate, sent, editing>>,
         next'.req <=> next.req, chat'.gen = chat.gen, chat'.text = chat.text
  PROVE  TextOK'
<1>1. Now' = Now
  BY DEF Now
<1>2. KnownLists' = KnownLists /\ UnderWay' = UnderWay
  BY <1>1 DEF KnownLists, UnderWay
<1>3. EditorOK' /\ NothingYet'
  BY DEF TextOK, EditorOK, NothingYet
<1> QED BY <1>1, <1>2, <1>3 DEF TextOK

(* The request under way, and the list its callbacks find.                 *)
LEMMA CallFinds ==
  ASSUME RefsOK, PageOK, TextOK, next.req
  PROVE  /\ count.sends \in Requests /\ sent[count.sends] \in Nat /\ chat.gen \in Nat /\ chat.text \in Texts
         /\ Now \in Messages /\ AtLast(Now, count.sends, Lost) /\ Honest(Now, fate, sent, UnderWay)
         /\ \A r \in Lost : fate[r] # "whole"
         /\ fate[count.sends] = "whole" => count.sends \in UnderWay /\ Delivered(Now, count.sends, sent[count.sends], chat.text)
<1>1. count.sends \in Requests
  BY UnderWayFacts
<1>2. sent[count.sends] \in Nat /\ chat.gen \in Nat /\ chat.text \in Texts
  BY <1>1 DEF RefsOK, RefTypes
<1>3. Now \in Messages /\ AtLast(Now, count.sends, Lost)
  BY NowFacts
<1>4. Honest(Now, fate, sent, UnderWay) /\ \A r \in Lost : fate[r] # "whole"
  BY DEF TextOK, KnownLists, Lost
<1>5. fate[count.sends] = "whole" => count.sends \in UnderWay /\ Delivered(Now, count.sends, sent[count.sends], chat.text)
  BY DEF UnderWay, TextOK
<1> QED BY <1>1, <1>2, <1>3, <1>4, <1>5

(* The pending chunk is applied to the list of the moment.                 *)
LEMMA ChunkText ==
  ASSUME RefsOK, PageOK, TextOK, next.req, NEW v, v.op = "chunk", v.text = chat.text, ~Stale(v, chat.gen),
         NEW x, x = RunUpdater(Now, v, chat.gen)
  PROVE  /\ x \in Messages /\ AtLast(x, count.sends, Lost) /\ Honest(x, fate, sent, UnderWay)
         /\ fate[count.sends] = "whole" => Delivered(x, count.sends, sent[count.sends], <<>>)
<1> DEFINE n == count.sends
<1>1. /\ sent[n] \in Nat /\ chat.text \in Texts
      /\ Now \in Messages /\ AtLast(Now, n, Lost) /\ Honest(Now, fate, sent, UnderWay)
      /\ \A r \in Lost : fate[r] # "whole"
      /\ fate[n] = "whole" => n \in UnderWay /\ Delivered(Now, n, sent[n], chat.text)
  BY CallFinds
<1>2. v.op \in Replies /\ v.op \in Replies \cup {"stop"} /\ v.text \in Texts
  BY <1>1 DEF Replies
<1>3. /\ x \in Messages /\ (x = <<>> <=> Now = <<>>)
      /\ Now # <<>> => Last(x).from = Last(Now).from /\ Last(x).req = Last(Now).req
  BY <1>1, <1>2, ReplyKeepsLast
<1>4. AtLast(x, n, Lost)
  BY <1>1, <1>3 DEF AtLast
<1>5. Honest(x, fate, sent, UnderWay)
  BY <1>1, <1>2, ReplyHonest
<1>6. fate[n] = "whole" => Delivered(x, n, sent[n], <<>>)
  BY <1>1, <1>2, ChunkDelivered
<1> QED BY <1>3, <1>4, <1>5, <1>6

(* The flush timer queues the pending chunk.                               *)
LEMMA FlushText ==
  ASSUME RefsOK, PageOK, TextOK, FlushTimer
  PROVE  TextOK'
<1>0. chat \in [gen: Nat, text: Texts, timer: BOOLEAN]
  BY DEF RefsOK, RefTypes
<1>1. /\ chat' = [chat EXCEPT !.text = <<>>, !.timer = FALSE] /\ updateMessages(FlushUpdates(chat.gen))
      /\ UNCHANGED <<messages, count, fate, next, sent, editing>>
  BY DEF FlushTimer, Flushed
<1>2. chat'.gen = chat.gen /\ chat'.text = <<>>
  BY <1>0, <1>1
<1>3. CASE chat.text = <<>>
  <2>1. FlushUpdates(chat.gen) = <<>>
    BY <1>3 DEF FlushUpdates
  <2>2. \E now \in {FALSE} : queue' = Queued(<<>>, now) /\ store' = IF now THEN Persist(RunUpdater(messages, queue'[1], chat.gen)) ELSE store
    BY <1>1, <2>1, NothingQueued DEF updateMessages
  <2>3. queue' = queue /\ store' = store
    BY <2>2, NothingQueued
  <2> QED BY <1>1, <1>2, <1>3, <2>3, QuietText
<1>4. CASE chat.text # <<>>
  <2> DEFINE u == Update("chunk", chat.gen, chat.text)
             us == <<u>>
  <2>1. updateMessages(us)
    BY <1>1, <1>4 DEF FlushUpdates
  <2>2. next.req
    BY <1>4 DEF RefsOK, RefsAgree, Streaming
  <2>3. u \in Updates /\ u.op = "chunk" /\ u.gen = chat.gen /\ u.text = chat.text
    BY <1>0, CallUpdates DEF Replies
  <2> HIDE DEF u
  <2>4. /\ us \in Seq(Updates) /\ us # <<>> /\ Len(us) = 1 /\ us[1] = u
        /\ \A i \in DOMAIN us : us[i].op \in Replies /\ us[i].gen = chat.gen
    BY <2>2, <2>3 DEF Replies
  <2> HIDE DEF us
  <2>5. PICK vs, tr :
           /\ tr[0] = Now /\ Now' = tr[Len(us)]
           /\ \A i \in 1..Len(us) : tr[i] = RunUpdater(tr[i - 1], vs[i], chat.gen)
           /\ \A i \in 1..Len(us) : vs[i].op = us[i].op /\ vs[i].text = us[i].text /\ ~Stale(vs[i], chat.gen)
           /\ KnownLists' \subseteq KnownLists \cup {tr[1], tr[Len(us)]}
    BY <1>1, <1>2, <2>1, <2>4, QueueCalls
  <2> DEFINE v == vs[1]
             x == tr[1]
  <2>6. /\ v.op = "chunk" /\ v.text = chat.text /\ ~Stale(v, chat.gen) /\ x = RunUpdater(Now, v, chat.gen)
        /\ Now' = x /\ KnownLists' \subseteq KnownLists \cup {x}
    BY <2>3, <2>4, <2>5
  <2> HIDE DEF v, x
  <2>7. Honest(x, fate, sent, UnderWay) /\ (fate[count.sends] = "whole" => Delivered(x, count.sends, sent[count.sends], <<>>))
    BY <2>2, <2>6, ChunkText
  <2>8. UnderWay' = UnderWay /\ EditorOK' /\ NothingYet'
    BY <1>1 DEF UnderWay, TextOK, EditorOK, NothingYet
  <2>9. Kept({x})
    BY <1>1, <2>6, <2>7, <2>8 DEF Kept
  <2>10. \A n \in UnderWay' : Delivered(Now', n, sent'[n], chat'.text)
    BY <1>1, <1>2, <2>6, <2>7, <2>8, UnderWayFacts
  <2> QED BY <2>8, <2>9, <2>10, TextKept
<1> QED BY <1>3, <1>4

(* The stream ends: the pending chunk comes before the end.                *)
LEMMA EndText ==
  ASSUME RefsOK, PageOK, TextOK, next.req, ~next'.req, NEW op \in {"complete", "error"},
         updateMessages(FlushUpdates(chat.gen) \o <<Update(op, chat.gen, <<>>)>>), chat'.gen = chat.gen,
         UNCHANGED <<messages, count, fate, sent, editing>>
  PROVE  TextOK'
<1> DEFINE n == count.sends
           c == Update("chunk", chat.gen, chat.text)
           u == Update(op, chat.gen, <<>>)
           us == FlushUpdates(chat.gen) \o <<u>>
<1>1. /\ sent[n] \in Nat /\ chat.text \in Texts /\ chat.gen \in Nat
      /\ Now \in Messages /\ AtLast(Now, n, Lost) /\ Honest(Now, fate, sent, UnderWay)
      /\ \A r \in Lost : fate[r] # "whole"
      /\ fate[n] = "whole" => n \in UnderWay /\ Delivered(Now, n, sent[n], chat.text)
  BY CallFinds
<1>2. UnderWay' = {} /\ EditorOK' /\ NothingYet'
  BY DEF UnderWay, TextOK, EditorOK, NothingYet
<1>3. <<>> \in Texts /\ Authors(<<>>) \subseteq {count.sends}
  BY NewTexts
<1>4. u \in Updates /\ u.op = op /\ u.gen = chat.gen /\ u.text = <<>>
  BY <1>1, <1>3 DEF Update, Updates, ReplyUpdate, Replies
<1>5. u.op \in Replies /\ Authors(u.text) \subseteq {count.sends}
  BY <1>3, <1>4 DEF Replies
<1>6. c.op = "chunk" /\ c.text = chat.text
  BY DEF Update
<1>7. us = IF chat.text # <<>> THEN <<c, u>> ELSE <<u>>
  <2>1. FlushUpdates(chat.gen) = IF chat.text # <<>> THEN <<c>> ELSE <<>>
    BY DEF FlushUpdates
  <2> HIDE DEF c, u
  <2>2. <<c>> \o <<u>> = <<c, u>> /\ <<>> \o <<u>> = <<u>>
    BY TwoInARow
  <2> QED BY <2>1, <2>2
<1> HIDE DEF c, u
<1>8. /\ us \in Seq(Updates) /\ us # <<>> /\ us[Len(us)] = u
      /\ \A i \in DOMAIN us : us[i].op \in Replies /\ us[i].gen = chat.gen /\ Authors(us[i].text) \subseteq {count.sends}
  BY <1>3, <1>4, <1>5, EndingUpdates
<1>9. updateMessages(us)
  BY DEF u
<1> HIDE DEF us
<1>10. PICK vs, tr :
           /\ tr[0] = Now /\ Now' = tr[Len(us)]
           /\ \A i \in 1..Len(us) : tr[i] = RunUpdater(tr[i - 1], vs[i], chat.gen)
           /\ \A i \in 1..Len(us) : vs[i].op = us[i].op /\ vs[i].text = us[i].text /\ ~Stale(vs[i], chat.gen)
           /\ KnownLists' \subseteq KnownLists \cup {tr[1], tr[Len(us)]}
  BY <1>8, <1>9, QueueCalls
<1>11. ASSUME NEW x \in Messages, AtLast(x, n, Lost), Honest(x, fate, sent, UnderWay),
              fate[n] = "whole" => Delivered(x, n, sent[n], <<>>),
              NEW v, v.op = op, v.text = <<>>, ~Stale(v, chat.gen), NEW y, y = RunUpdater(x, v, chat.gen)
       PROVE  Honest(y, fate, sent, {})
  <2>1. v.op \in Replies /\ v.text \in Texts
    BY <1>3, <1>11 DEF Replies
  <2>2. /\ v.op \in {"chunk", "error"} => Honest(y, fate, sent, UnderWay)
        /\ v.op = "complete" /\ (fate[n] = "whole" => Delivered(x, n, sent[n], <<>>)) => Honest(y, fate, sent, {})
    BY <1>1, <1>11, <2>1, ReplyHonest
  <2>3. Honest(y, fate, sent, UnderWay) => Honest(y, fate, sent, {})
    BY DEF Honest
  <2> QED BY <1>11, <2>2, <2>3
<1>12. Honest(tr[1], fate, sent, {}) /\ Honest(tr[Len(us)], fate, sent, {})
  <2>1. CASE chat.text = <<>>
    <3>1. us = <<u>>
      BY <1>7, <2>1
    <3>2. Len(us) = 1 /\ us[1] = u
      BY <3>1
    <3> DEFINE v == vs[1]
               y == tr[1]
    <3>3. v.op = op /\ v.text = <<>> /\ ~Stale(v, chat.gen) /\ y = RunUpdater(Now, v, chat.gen)
      BY <1>4, <1>10, <3>2
    <3> HIDE DEF v, y
    <3>4. Honest(y, fate, sent, {})
      BY <1>1, <1>11, <2>1, <3>3
    <3> QED BY <3>2, <3>4 DEF y
  <2>2. CASE chat.text # <<>>
    <3>0. <<c, u>>[1] = c /\ <<c, u>>[2] = u /\ Len(<<c, u>>) = 2
      OBVIOUS
    <3>1. us = <<c, u>>
      BY <1>7, <2>2
    <3>2. Len(us) = 2 /\ us[1] = c /\ us[2] = u
      BY <3>0, <3>1, Zenon
    <3> DEFINE v == vs[1]
               x == tr[1]
               w == vs[2]
               y == tr[2]
    <3>3. /\ v.op = "chunk" /\ v.text = chat.text /\ ~Stale(v, chat.gen) /\ x = RunUpdater(Now, v, chat.gen)
          /\ w.op = op /\ w.text = <<>> /\ ~Stale(w, chat.gen) /\ y = RunUpdater(x, w, chat.gen)
      BY <1>4, <1>6, <1>10, <3>2
    <3> HIDE DEF v, x, w, y
    <3>4. /\ x \in Messages /\ AtLast(x, n, Lost) /\ Honest(x, fate, sent, UnderWay)
          /\ fate[n] = "whole" => Delivered(x, n, sent[n], <<>>)
      BY <3>3, ChunkText
    <3>5. Honest(y, fate, sent, {})
      BY <1>11, <3>3, <3>4
    <3>6. Honest(x, fate, sent, {})
      BY <3>4 DEF Honest
    <3> QED BY <3>2, <3>5, <3>6 DEF x, y
  <2> QED BY <2>1, <2>2
<1>13. Kept({tr[1], tr[Len(us)]})
  BY <1>2, <1>10, <1>12 DEF Kept
<1>14. \A k \in UnderWay' : Delivered(Now', k, sent'[k], chat'.text)
  BY <1>2
<1> QED BY <1>2, <1>13, <1>14, TextKept

(* The end of a stream, and its errors.                                    *)
LEMMA EndOfRequestText ==
  ASSUME RefsOK, PageOK, TextOK, NEW r \in net, r.gen = chat.gen, NEW op \in {"complete", "error"},
         EndOfRequest(r, Update(op, r.gen, <<>>)), UNCHANGED <<messages, count, fate, sent, editing>>
  PROVE  TextOK'
<1>1. chat \in [gen: Nat, text: Texts, timer: BOOLEAN] /\ next.req
  BY DEF RefsOK, RefTypes, RefsAgree
<1>2. /\ chat' = [chat EXCEPT !.text = <<>>, !.timer = FALSE] /\ next' = [req |-> next.req /\ r.gen # chat.gen, str |-> FALSE]
      /\ updateMessages(FlushUpdates(chat.gen) \o <<Update(op, chat.gen, <<>>)>>)
  BY DEF EndOfRequest, Flushed, EndUpdates, EndedFlags
<1>3. chat'.gen = chat.gen /\ ~next'.req
  BY <1>1, <1>2
<1> QED BY <1>1, <1>2, <1>3, EndText

(* The answer to a request that does not stream.                           *)
LEMMA PlainText ==
  ASSUME RefsOK, PageOK, TextOK, ~RepeatedDeltas, NEW r \in net, NEW ok \in BOOLEAN, onPlainResponse(r, ok)
  PROVE  TextOK'
<1> DEFINE n == count.sends
<1>0. UNCHANGED <<messages, count, fate, editing>>
  BY DEF onPlainResponse
<1>1. CASE r.gen # chat.gen
  BY <1>1, QuietText DEF onPlainResponse
<1>2. CASE r.gen = chat.gen
  <2>1. /\ chat \in [gen: Nat, text: Texts, timer: BOOLEAN] /\ next.req /\ r.req = n /\ r.req \in Requests
        /\ next \in Flag /\ sent \in [Requests -> 0..MaxChunks]
    BY <1>2 DEF RefsOK, RefTypes, RefsAgree, Request
  <2>2. /\ next' = [next EXCEPT !.req = FALSE]
        /\ chat' = IF ok THEN chat ELSE [chat EXCEPT !.text = <<>>, !.timer = FALSE]
    BY <1>2 DEF onPlainResponse, Flushed
  <2>3. chat'.gen = chat.gen /\ ~next'.req
    BY <2>1, <2>2 DEF Flag
  <2>4. CASE ok
    <3> DEFINE t == <<Letter(r.req, 1)>>
               u == Update("answer", chat.gen, t)
               s2 == sent'
    <3>1. updateMessages(<<u>>) /\ sent' = [sent EXCEPT ![r.req] = 1]
      BY <1>2, <2>4 DEF onPlainResponse
    <3>2. s2[n] = 1 /\ \A q \in Requests : q # n => s2[q] = sent[q]
      BY <2>1, <3>1
    <3>3. t \in Texts /\ t = Run(n, 0, s2[n])
      <4>1. 1 \in 1..MaxChunks /\ 1 = 0 + 1
        BY ChatAssumption
      <4>2. t \in Texts
        BY <2>1, <4>1, NewTexts
      <4>3. Letter(r.req, 1) = <<n, 1>>
        BY <2>1 DEF Letter
      <4>4. Run(n, 0, 1) = <<<<n, 1>>>>
        BY RunOne
      <4> QED BY <3>2, <4>2, <4>3, <4>4
    <3> HIDE DEF t
    <3>4. u \in Updates /\ u.op = "answer" /\ u.gen = chat.gen /\ u.text = t
      BY <2>1, <3>3, CallUpdates DEF Replies
    <3> HIDE DEF u
    <3> DEFINE us == <<u>>
    <3>5. /\ us \in Seq(Updates) /\ us # <<>> /\ Len(us) = 1 /\ us[1] = u
          /\ \A i \in DOMAIN us : us[i].op \in Replies /\ us[i].gen = chat.gen
      BY <3>4 DEF Replies
    <3>6. updateMessages(us)
      BY <3>1
    <3> HIDE DEF us
    <3>7. PICK vs, tr :
           /\ tr[0] = Now /\ Now' = tr[Len(us)]
           /\ \A i \in 1..Len(us) : tr[i] = RunUpdater(tr[i - 1], vs[i], chat.gen)
           /\ \A i \in 1..Len(us) : vs[i].op = us[i].op /\ vs[i].text = us[i].text /\ ~Stale(vs[i], chat.gen)
           /\ KnownLists' \subseteq KnownLists \cup {tr[1], tr[Len(us)]}
      BY <1>0, <2>3, <3>5, <3>6, QueueCalls
    <3> DEFINE v == vs[1]
               x == tr[1]
    <3>8. /\ v.op = "answer" /\ v.text = t /\ ~Stale(v, chat.gen) /\ x = RunUpdater(Now, v, chat.gen)
          /\ Now' = x /\ KnownLists' \subseteq KnownLists \cup {x}
      BY <3>4, <3>5, <3>7
    <3> HIDE DEF v, x, s2
    <3>9. /\ Now \in Messages /\ AtLast(Now, n, Lost) /\ Honest(Now, fate, sent, UnderWay)
          /\ \A q \in Lost : fate[q] # "whole"
          /\ fate[n] = "whole" => n \in UnderWay
      BY <2>1, CallFinds
    <3>10. \A q \in Requests : s2[q] = sent[q] \/ q = n
      BY <3>2
    <3>11. Honest(Now, fate, s2, UnderWay)
      BY <3>9, <3>10, StaysHonest
    <3>12. Honest(x, fate, s2, {})
      <4>1. v.op \in Replies /\ v.text \in Texts /\ s2[n] \in Nat /\ v.text = Run(n, 0, s2[n])
        BY <3>2, <3>3, <3>8 DEF Replies
      <4> QED BY <3>8, <3>9, <3>11, <4>1, ReplyHonest
    <3>13. UnderWay' = {} /\ EditorOK' /\ NothingYet'
      <4>1. \A q \in Requests : q > n => s2[q] = 0
        <5>1. n \in Nat /\ \A q \in Requests : q \in Nat
          BY <2>1, ChatAssumption DEF Requests
        <5>2. \A q \in Requests : q > n => q # n
          BY <5>1
        <5> QED BY <3>2, <5>2 DEF TextOK, NothingYet
      <4> QED BY <1>0, <2>3, <4>1 DEF UnderWay, TextOK, EditorOK, NothingYet, s2
    <3>14. Kept({x})
      BY <1>0, <3>8, <3>9, <3>10, <3>12, <3>13 DEF Kept, s2
    <3>15. \A k \in UnderWay' : Delivered(Now', k, sent'[k], chat'.text)
      BY <3>13
    <3> QED BY <3>13, <3>14, <3>15, TextKept
  <2>5. CASE ~ok
    <3>1. updateMessages(FlushUpdates(chat.gen) \o <<Update("error", chat.gen, <<>>)>>) /\ sent' = sent
      BY <1>2, <2>5 DEF onPlainResponse
    <3> QED BY <1>0, <2>1, <2>3, <3>1, EndText
  <2> QED BY <2>4, <2>5
<1> QED BY <1>1, <1>2

(* A delta goes to the end of the text that waits.                         *)
LEMMA DeltaText ==
  ASSUME RefsOK, PageOK, TextOK, ~RepeatedDeltas, NEW r \in net, onDelta(r)
  PROVE  TextOK'
<1> DEFINE n == count.sends
           b == sent[n]
           c == b + 1
<1>0. UNCHANGED <<messages, queue, store, count, fate, editing, next>>
  BY DEF onDelta
<1>1. /\ chat \in [gen: Nat, text: Texts, timer: BOOLEAN] /\ next.req /\ r.req = n /\ n \in Requests
      /\ sent \in [Requests -> 0..MaxChunks]
  BY DEF onDelta, RefsOK, RefTypes, RefsAgree, Request
<1>2. b \in Nat /\ c \in Nat /\ b <= c
  BY <1>1
<1>3. sent' = [sent EXCEPT ![n] = c]
  BY <1>1 DEF onDelta
<1>4. sent'[n] = c /\ \A q \in Requests : q # n => sent'[q] = sent[q]
  BY <1>1, <1>3
<1>5. chat'.gen = chat.gen /\ chat'.text = AppendChunk(chat.text, <<Letter(n, c)>>)
  BY <1>1 DEF onDelta
<1>6. <<Letter(n, c)>> = Run(n, b, c)
  <2>1. Letter(n, c) = <<n, c>>
    BY DEF Letter
  <2>2. Run(n, b, c) = <<<<n, c>>>>
    BY <1>2, RunOne
  <2> QED BY <2>1, <2>2
<1>7. Now' = Now
  BY <1>0, <1>5 DEF Now
<1>8. KnownLists' = KnownLists /\ UnderWay' = UnderWay
  BY <1>0, <1>7 DEF KnownLists, UnderWay
<1>9. EditorOK' /\ NothingYet'
  <2>1. n \in Nat /\ \A q \in Requests : q \in Nat
    BY <1>1, ChatAssumption DEF Requests
  <2>2. \A q \in Requests : q > n => q # n
    BY <2>1
  <2> QED BY <1>0, <1>4, <2>2 DEF TextOK, EditorOK, NothingYet
<1>10. Kept({})
  <2>1. fate[n] = "whole" => n \in UnderWay
    BY <1>1 DEF UnderWay
  <2> QED BY <1>0, <1>4, <1>8, <2>1 DEF Kept
<1> HIDE DEF c, b
<1>11. ASSUME NEW k \in UnderWay' PROVE Delivered(Now', k, sent'[k], chat'.text)
  <2>1. k = n /\ Delivered(Now, n, b, chat.text)
    BY <1>8, UnderWayFacts DEF TextOK, b
  <2>2. ASSUME NEW a \in 0..b, chat.text = Run(n, a, b) PROVE a \in 0..c /\ chat'.text = Run(n, a, c)
    <3>1. a \in Nat /\ a <= b /\ a \in 0..c
      BY <1>2
    <3>2. AppendChunk(Run(n, a, b), Run(n, b, c)) = Run(n, a, c)
      BY <1>2, <3>1, RunAppended
    <3> QED BY <1>5, <1>6, <2>2, <3>1, <3>2
  <2> QED BY <1>4, <1>7, <2>1, <2>2 DEF Delivered
<1> QED BY <1>9, <1>10, <1>11, TextKept

(* What the server sends.                                                  *)
LEMMA AnswerText ==
  ASSUME RefsOK, PageOK, TextOK, ~RepeatedDeltas, NEW r \in net, Answered(r) \/ onDelta(r)
  PROVE  TextOK'
<1>0. chat \in [gen: Nat, text: Texts, timer: BOOLEAN] /\ next \in Flag /\ r.sgen = r.gen /\ stream.gen = chat.gen
  BY DEF RefsOK, RefTypes, RefsAgree
<1>1. ASSUME NEW ok \in BOOLEAN, getHeaders(r, ok) PROVE TextOK'
  <2>0. UNCHANGED <<messages, count, fate, sent, editing>>
    BY <1>1 DEF getHeaders
  <2>1. CASE stream.gen # r.sgen
    <3>1. UNCHANGED <<chat, next, queue, store>>
      BY <1>1, <2>1 DEF getHeaders, Ignore
    <3> QED BY <2>0, <3>1, QuietText
  <2>2. CASE stream.gen = r.sgen /\ ~ok
    <3>1. EndOfRequest(r, Update("error", r.gen, <<>>))
      BY <1>1, <2>2 DEF getHeaders
    <3> QED BY <1>0, <2>0, <2>2, <3>1, EndOfRequestText
  <2>3. CASE stream.gen = r.sgen /\ ok
    <3>1. next' = [next EXCEPT !.str = TRUE] /\ UNCHANGED <<chat, queue, store>>
      BY <1>1, <2>3 DEF getHeaders
    <3>2. (next'.req <=> next.req) /\ chat'.gen = chat.gen /\ chat'.text = chat.text
      BY <1>0, <3>1 DEF Flag
    <3> QED BY <2>0, <3>1, <3>2, QuietText
  <2> QED BY <2>1, <2>2, <2>3
<1>2. ASSUME NEW ok \in BOOLEAN, onStreamEnd(r, ok) PROVE TextOK'
  <2>0. UNCHANGED <<messages, count, fate, sent, editing>>
    BY <1>2 DEF onStreamEnd
  <2>1. CASE ~isCurrent(r)
    <3>1. UNCHANGED <<chat, next, queue, store>>
      BY <1>2, <2>1 DEF onStreamEnd, Ignore
    <3> QED BY <2>0, <3>1, QuietText
  <2>2. CASE isCurrent(r)
    <3>1. r.gen = chat.gen
      BY <1>0, <2>2 DEF isCurrent
    <3>2. \E op \in {"complete", "error"} : EndOfRequest(r, Update(op, r.gen, <<>>))
      BY <1>2, <2>2 DEF onStreamEnd
    <3> QED BY <2>0, <3>1, <3>2, EndOfRequestText
  <2> QED BY <2>1, <2>2
<1>3. ASSUME onStreamEof(r) PROVE TextOK'
  BY <1>3, QuietText DEF onStreamEof
<1> QED BY <1>1, <1>2, <1>3, PlainText, DeltaText DEF Answered

(* The two messages of a new request leave the others as they are.         *)
LEMMA PairHonest ==
  ASSUME NEW ms \in Messages, NEW r \in Requests, NEW f, NEW t, NEW o, Honest(ms, f, t, o)
  PROVE  /\ appendUserMessagePair(ms, r) \in Messages /\ Last(appendUserMessagePair(ms, r)) = LoadingMessage(r)
         /\ Honest(appendUserMessagePair(ms, r), f, t, o)
<1> DEFINE m == UserMessage(r)
           l == LoadingMessage(r)
           x == appendUserMessagePair(ms, r)
<1>1. m \in MessageRow /\ m.status # "complete" /\ l \in MessageRow /\ l.status # "complete"
  BY NewMessages DEF UserMessage, LoadingMessage
<1>2. PICK p : Extended(p, ms, m) /\ Extended(x, p, l)
  BY PairList
<1> HIDE DEF m, l, x
<1>3. p \in Messages
  BY <1>1, <1>2, Appended
<1>4. x \in Messages /\ Last(x) = l
  BY <1>1, <1>2, <1>3, Appended
<1>5. Honest(p, f, t, o)
  BY <1>1, <1>2, AppendedHonest
<1>6. Honest(x, f, t, o)
  BY <1>1, <1>2, <1>3, <1>5, AppendedHonest
<1> QED BY <1>4, <1>6 DEF l, x

(* A prompt of the empty conversation is sent.                             *)
LEMMA SelectPromptText ==
  ASSUME RefsOK, PageOK, TextOK, onSelectPrompt
  PROVE  TextOK'
<1> DEFINE n == count.sends
           x == appendUserMessagePair(messages, n + 1)
<1>0. CanSend /\ sendChat /\ UNCHANGED <<fate, sent, editing>> /\ messages = <<>> /\ ClickRenders(<<SetMessages(x)>>, chat.gen + 1)
  BY DEF onSelectPrompt
<1>1. n \in Nat /\ n + 1 \in Requests /\ chat.gen \in Nat /\ chat.gen + 1 \in Nat /\ chat.gen <= chat.gen + 1
  BY <1>0, SendCounts
<1>2. /\ UnderWay' \subseteq {n + 1} /\ UnderWay' \subseteq {r \in Requests : r > n} /\ EditorOK' /\ NothingYet'
      /\ \A y, k : k \in UnderWay' /\ (y = <<>> \/ Last(y) = LoadingMessage(k)) => Delivered(y, k, sent[k], chat'.text)
  BY <1>0, NewAnswer
<1>3. messages \in Messages
  BY DEF PageOK, ListsOK, Good
<1>4. x \in Messages /\ Last(x) = LoadingMessage(n + 1) /\ Honest(x, fate, sent, UnderWay')
  <2> DEFINE o2 == UnderWay'
  <2>1. Honest(messages, fate, sent, o2)
    BY <1>0 DEF Honest
  <2> HIDE DEF o2, x
  <2>2. x \in Messages /\ Last(x) = LoadingMessage(n + 1) /\ Honest(x, fate, sent, o2)
    BY <1>1, <1>3, <2>1, PairHonest DEF x
  <2> QED BY <2>2 DEF o2
<1>5. messages' = x /\ queue' = <<>> /\ (store' = store \/ store' = Persist(messages'))
  <2> HIDE DEF x
  <2> QED BY <1>0, <1>1, <1>4, ClickSets
<1>6. \A k \in UnderWay' : Delivered(x, k, sent[k], chat'.text)
  BY <1>2, <1>4
<1> HIDE DEF x
<1> QED BY <1>0, <1>2, <1>4, <1>5, <1>6, RenderedText

(* The user sends a message: the list waits in the queue.                  *)
LEMMA SendText ==
  ASSUME RefsOK, PageOK, TextOK, handleSendMessage
  PROVE  TextOK'
<1> DEFINE n == count.sends
           m == UserMessage(n + 1)
           l == LoadingMessage(n + 1)
           x == appendUserMessagePair(messages, n + 1)
           us == <<SetMessages(x)>>
<1>0. CanSend /\ sendChat /\ updateMessages(us) /\ UNCHANGED <<messages, fate, sent, editing>>
  BY DEF handleSendMessage
<1>1. n \in Nat /\ n + 1 \in Requests
  BY <1>0, SendCounts
<1>2. /\ UnderWay' \subseteq {n + 1} /\ UnderWay' \subseteq {r \in Requests : r > n} /\ EditorOK' /\ NothingYet'
      /\ \A y, k : k \in UnderWay' /\ (y = <<>> \/ Last(y) = LoadingMessage(k)) => Delivered(y, k, sent[k], chat'.text)
  BY <1>0, NewAnswer
<1>3. messages \in Messages /\ Upto(messages, n) /\ Honest(messages, fate, sent, UnderWay)
  BY DEF PageOK, ListsOK, Good, TextOK, KnownLists
<1>4. Honest(messages, fate, sent, UnderWay')
  <2> DEFINE o2 == UnderWay'
  <2>1. \A i \in DOMAIN messages : messages[i].req \notin o2
    <3>1. \A i \in DOMAIN messages : messages[i].req \in Nat /\ messages[i].req <= n
      BY <1>3, ListFacts, ChatAssumption DEF Upto, MessageRow, Requests
    <3> QED BY <1>1, <1>2, <3>1
  <2> HIDE DEF o2
  <2>2. Honest(messages, fate, sent, o2)
    BY <1>3, <2>1, StaysHonest
  <2> QED BY <2>2 DEF o2
<1>5. x \in Messages /\ Last(x) = l /\ Honest(x, fate, sent, UnderWay')
  <2> DEFINE o2 == UnderWay'
  <2>1. Honest(messages, fate, sent, o2)
    BY <1>4
  <2> HIDE DEF o2, x
  <2>2. x \in Messages /\ Last(x) = l /\ Honest(x, fate, sent, o2)
    BY <1>1, <1>3, <2>1, PairHonest DEF x
  <2> QED BY <2>2 DEF o2
<1> HIDE DEF x
<1>6. us \in Seq(Updates) /\ us # <<>> /\ Len(us) = 1 /\ us[1] = SetMessages(x) /\ SetMessages(x) \in Updates
      /\ SetMessages(x).op = "set" /\ SetMessages(x).msgs = x
  BY <1>5 DEF SetMessages, Updates, SetUpdate
<1> HIDE DEF us
<1>7. PICK vs, tr :
           /\ tr[0] = Rendered(messages, queue, chat'.gen) /\ Now' = tr[Len(us)]
           /\ \A i \in 1..Len(us) : tr[i] = RunUpdater(tr[i - 1], vs[i], chat'.gen)
           /\ \A i \in 1..Len(us) : Marked(vs[i], us[i])
           /\ KnownLists' \subseteq KnownLists \cup {Now'} \cup {vs[i].msgs : i \in {j \in 1..Len(us) : IsSet(vs[j])}}
                               \cup {y \in {RunUpdater(messages, vs[1], chat.gen)} : queue = <<>>}
  BY <1>0, <1>6, QueueGrows
<1> DEFINE v == vs[1]
<1>8. Marked(v, SetMessages(x)) /\ Now' = RunUpdater(tr[0], v, chat'.gen)
  BY <1>6, <1>7
<1>9. v.op = "set" /\ v.msgs = x
  <2> HIDE DEF v
  <2> QED BY <1>6, <1>8, MarkedUpdate
<1>10. Now' = x /\ RunUpdater(messages, v, chat.gen) = x
  BY <1>8, <1>9, PageUpdate
<1>11. KnownLists' \subseteq KnownLists \cup {x}
  BY <1>6, <1>7, <1>9, <1>10
<1>12. Kept({x})
  BY <1>0, <1>2, <1>5, <1>11 DEF Kept
<1>13. \A k \in UnderWay' : Delivered(Now', k, sent'[k], chat'.text)
  <2>1. \A k \in UnderWay' : k = n + 1
    BY <1>2
  <2> QED BY <1>0, <1>2, <1>5, <1>10, <2>1
<1> QED BY <1>2, <1>12, <1>13, TextKept

(* The last messages of a list are messages of it.                         *)
LEMMA LastOfList ==
  ASSUME NEW ms \in Messages, NEW kept \in Nat \ {0}
  PROVE  LastOf(ms, kept) \in Messages /\ \A k \in DOMAIN LastOf(ms, kept) : \E j \in DOMAIN ms : LastOf(ms, kept)[k] = ms[j]
<1> DEFINE a == IF Len(ms) > kept THEN Len(ms) - kept + 1 ELSE 1
           t == LastOf(ms, kept)
<1>0. ms \in Seq(MessageRow) /\ DOMAIN ms = 1..Len(ms) /\ Len(ms) \in Nat
  BY ListFacts DEF Messages, MessageRow
<1>1. a \in Nat /\ a >= 1 /\ a <= Len(ms) + 1
  BY <1>0
<1>2. t = SubSeq(ms, a, Len(ms))
  BY DEF LastOf
<1> HIDE DEF a, t
<1>3. t \in Seq(MessageRow) /\ Len(t) = Len(ms) - a + 1 /\ \A k \in 1..Len(t) : t[k] = ms[a + k - 1]
  BY <1>0, <1>1, <1>2
<1>4. \A k \in DOMAIN t : a + k - 1 \in DOMAIN ms /\ t[k] = ms[a + k - 1]
  BY <1>0, <1>1, <1>3
<1>5. t \in Messages
  BY <1>3 DEF Messages, MessageRow
<1> QED BY <1>4, <1>5 DEF t

(* A complete answer that is read back was saved so, or comes back cut.    *)
LEMMA LoadedMessage ==
  ASSUME NEW saved, NEW lost, NEW n \in Nat, Good(saved, lost, n), NEW short, NEW kept \in Nat \ {0},
         NEW i \in DOMAIN loadMessages(saved, short, kept),
         loadMessages(saved, short, kept)[i].status = "complete"
  PROVE  \E j \in DOMAIN saved :
           \/ loadMessages(saved, short, kept)[i] = saved[j]
           \/ loadMessages(saved, short, kept)[i].req = saved[j].req /\ saved[j].req \in CutOnLoad(saved, short)
<1> DEFINE norm == [j \in DOMAIN saved |-> normalizeStoredMessageForLoad(saved[j], LoadedText(saved, short, j))]
           t == LastOf(trimMessages(norm), kept)
           y == loadMessages(saved, short, kept)
<1>1. saved \in Messages /\ DOMAIN saved = 1..Len(saved) /\ Len(saved) \in Nat /\ \A j \in DOMAIN saved : saved[j] \in MessageRow
  BY ListFacts DEF Good
<1>2. ASSUME NEW j \in DOMAIN saved
      PROVE  norm[j] \in MessageRow /\ norm[j].req = saved[j].req /\ (norm[j] = saved[j] \/ saved[j].req \in CutOnLoad(saved, short))
  <2> DEFINE text == LoadedText(saved, short, j)
  <2>1. saved[j] \in MessageRow /\ norm[j] = normalizeStoredMessageForLoad(saved[j], text) /\ text \in Texts
    BY <1>1, LoadedTexts
  <2>2. isAssistantMessagePending(saved[j]) \/ text # saved[j].text => saved[j].req \in CutOnLoad(saved, short)
    BY DEF CutOnLoad
  <2> HIDE DEF norm, text
  <2> QED BY <2>1, <2>2, NormalizedMessage
<1>3. norm \in Messages /\ Len(norm) = Len(saved) /\ DOMAIN norm = DOMAIN saved
  <2>1. norm \in [1..Len(saved) -> MessageRow]
    BY <1>1, <1>2
  <2> QED BY <1>1, <2>1 DEF Messages, MessageRow
<1> HIDE DEF norm
<1>4. t \in Messages /\ \A k \in DOMAIN t : \E j \in DOMAIN norm : t[k] = norm[j]
  <2> DEFINE w == trimMessages(norm)
  <2>1. w \in Messages /\ \A k \in DOMAIN w : \E j \in DOMAIN norm : w[k] = norm[j]
    BY <1>3, LastOfList, ChatAssumption DEF trimMessages
  <2> HIDE DEF w
  <2>2. LastOf(w, kept) \in Messages /\ \A k \in DOMAIN LastOf(w, kept) : \E j \in DOMAIN w : LastOf(w, kept)[k] = w[j]
    BY <2>1, LastOfList
  <2>3. t = LastOf(w, kept)
    BY DEF w
  <2> HIDE DEF t
  <2> QED BY <2>1, <2>2, <2>3
<1>5. y = sanitizeMessagesOnLoad(t)
  BY DEF loadMessages, norm
<1> HIDE DEF t
<1> DEFINE pending == {k \in DOMAIN t: isAssistantMessagePending(t[k])}
           target == CHOOSE k \in pending: \A j \in pending: j <= k
<1>6. y = IF pending = {} THEN t ELSE [t EXCEPT ![target].status = "error", ![target].text = ErrorText]
  BY <1>5 DEF sanitizeMessagesOnLoad
<1>7. DOMAIN y = DOMAIN t
  BY <1>6
<1>8. t[i] \in MessageRow /\ i \in DOMAIN t
  BY <1>4, <1>7, ListFacts
<1>9. y[i] = t[i]
  <2>1. CASE pending = {} \/ i # target
    BY <1>6, <1>8, <2>1
  <2>2. CASE pending # {} /\ i = target
    <3>1. t[target] \in MessageRow /\ target \in DOMAIN t
      BY <1>8, <2>2
    <3> HIDE DEF target
    <3>2. y[i] = [t[target] EXCEPT !.status = "error", !.text = ErrorText]
      BY <1>6, <2>2, <3>1
    <3>3. y[i].status = "error"
      BY <3>1, <3>2 DEF MessageRow
    <3> QED BY <3>3
  <2> QED BY <2>1, <2>2
<1> QED BY <1>2, <1>3, <1>4, <1>8, <1>9

(* The storage: the history is saved, given up with the page, and loaded.  *)
LEMMA StorageText ==
  ASSUME RefsOK, PageOK, TextOK, PageStep
  PROVE  TextOK'
<1> DEFINE n == count.sends
           t == trimMessages(store.latest)
<1>0. /\ n \in Nat /\ store \in Store /\ Good(store.latest, Lost, n) /\ Good(store.saved, Lost, n)
      /\ Honest(store.latest, fate, sent, UnderWay) /\ Honest(store.saved, fate, sent, UnderWay)
  BY DEF RefsOK, RefTypes, Counts, PageOK, ListsOK, TextOK, KnownLists
<1>1. Honest(t, fate, sent, UnderWay)
  <2>1. \A i \in DOMAIN t : \E j \in DOMAIN store.latest : t[i] = store.latest[j]
    BY <1>0, SuffixGood
  <2> HIDE DEF t
  <2> QED BY <1>0, <2>1, HonestFrom
<1> HIDE DEF t
<1>2. ASSUME SaveTimer PROVE TextOK'
  <2>1. /\ store' = [store EXCEPT !.timer = FALSE, !.saved = t]
        /\ UNCHANGED <<messages, queue, next, chat, count, fate, sent, editing>>
    BY <1>2 DEF SaveTimer, t
  <2>2. store'.latest = store.latest /\ store'.saved = t
    BY <1>0, <2>1 DEF Store
  <2>3. Now' = Now /\ UnderWay' = UnderWay /\ EditorOK' /\ NothingYet'
    BY <2>1 DEF Now, UnderWay, TextOK, EditorOK, NothingYet
  <2>4. KnownLists' \subseteq KnownLists \cup {t}
    BY <2>1, <2>2, <2>3 DEF KnownLists
  <2>5. Kept({t})
    BY <1>1, <2>1, <2>3, <2>4 DEF Kept
  <2>6. \A k \in UnderWay' : Delivered(Now', k, sent'[k], chat'.text)
    BY <2>1, <2>3 DEF TextOK
  <2> QED BY <2>3, <2>5, <2>6, TextKept
<1>3. ASSUME queue' = <<>>, next' = Idle, sent' = sent, count'.sends = n, editing' \in {editing, NoKey},
             NEW X, messages' \in X, store'.latest \in X, store'.saved \in X, \A x \in X : Honest(x, fate', sent, {}),
             \A r \in Requests : fate'[r] = "whole" => fate[r] = "whole"
      PROVE  TextOK'
  <2>1. Now' = messages'
    BY <1>3, RenderNothing DEF Now
  <2>2. {queue'[i].msgs : i \in {j \in DOMAIN queue' : IsSet(queue'[j])}} = {}
    <3>1. DOMAIN queue' = {}
      BY <1>3
    <3> QED BY <3>1
  <2>3. KnownLists' \subseteq KnownLists \cup X
    BY <1>3, <2>1, <2>2 DEF KnownLists
  <2>4. UnderWay' = {} /\ EditorOK' /\ NothingYet'
    BY <1>3 DEF Idle, UnderWay, TextOK, EditorOK, NothingYet, NoKey
  <2>5. Kept(X)
    BY <1>3, <2>3, <2>4 DEF Kept
  <2>6. \A k \in UnderWay' : Delivered(Now', k, sent'[k], chat'.text)
    BY <2>4
  <2> QED BY <2>4, <2>5, <2>6, TextKept
<1>4. ASSUME Unmount \/ CloseTab PROVE TextOK'
  <2>1. messages' = <<>> /\ queue' = <<>> /\ next' = Idle /\ editing' = NoKey /\ UNCHANGED <<count, fate, sent>>
    BY <1>4 DEF Unmount, CloseTab, Closed
  <2>2. PICK y \in {t, store.saved} : store' = [latest |-> <<>>, timer |-> FALSE, saved |-> y]
    BY <1>4 DEF Unmount, CloseTab, t
  <2>3. store'.latest = <<>> /\ store'.saved = y
    BY <2>2
  <2>4. Honest(<<>>, fate', sent, {}) /\ Honest(y, fate', sent, {})
    <3>1. DOMAIN <<>> = {}
      OBVIOUS
    <3> QED BY <1>0, <1>1, <2>1, <2>2, <3>1 DEF Honest
  <2> DEFINE X == {<<>>, y}
  <2>5. messages' \in X /\ store'.latest \in X /\ store'.saved \in X /\ \A x \in X : Honest(x, fate', sent, {})
    BY <2>1, <2>3, <2>4
  <2> HIDE DEF X
  <2> QED BY <1>3, <2>1, <2>5
<1>5. ASSUME Mount PROVE TextOK'
  <2> DEFINE x == messages'
             f2 == fate'
  <2>1. /\ phase = "closed" /\ store' = [latest |-> x, timer |-> FALSE, saved |-> x]
        /\ count' = [count EXCEPT !.mounts = @ + 1] /\ UNCHANGED <<queue, next, sent, editing>>
    BY <1>5 DEF Mount
  <2>2. queue' = <<>> /\ next' = Idle
    BY <2>1 DEF RefsOK, RefsAgree
  <2>3. count'.sends = n
    BY <2>1 DEF RefsOK, RefTypes, Counts
  <2>4. Honest(x, f2, sent, {}) /\ \A r \in Requests : f2[r] = "whole" => fate[r] = "whole"
    <3>1. \/ x = <<>> /\ f2 = fate
          \/ \E short, kept : /\ kept \in 1..MaxStored /\ x = loadMessages(store.saved, short, kept)
                              /\ f2 = Mark(CutOnLoad(store.saved, short), "cut")
      BY <1>5 DEF Mount, DropHistory
    <3> HIDE DEF x, f2
    <3>2. CASE x = <<>> /\ f2 = fate
      BY <3>2 DEF Honest
    <3>3. ASSUME NEW short, NEW kept \in 1..MaxStored, x = loadMessages(store.saved, short, kept),
                 f2 = Mark(CutOnLoad(store.saved, short), "cut")
          PROVE  Honest(x, f2, sent, {}) /\ \A r \in Requests : f2[r] = "whole" => fate[r] = "whole"
      <4> DEFINE rs == CutOnLoad(store.saved, short)
      <4>1. kept \in Nat \ {0} /\ store.saved \in Messages
        BY <1>0, ChatAssumption DEF Good
      <4> HIDE DEF rs
      <4>2. \A r \in Requests : f2[r] = "whole" => fate[r] = "whole" /\ r \notin rs
        <5>1. f2 = Mark(rs, "cut")
          BY <3>3 DEF rs
        <5> QED BY <5>1 DEF Mark
      <4>3. ASSUME NEW i \in DOMAIN x, x[i].status = "complete", f2[x[i].req] = "whole", x[i].text # EditedText
            PROVE  x[i].text = Run(x[i].req, 0, sent[x[i].req])
        <5>1. PICK j \in DOMAIN store.saved : \/ x[i] = store.saved[j]
                                              \/ x[i].req = store.saved[j].req /\ store.saved[j].req \in rs
          BY <1>0, <3>3, <4>1, <4>3, LoadedMessage DEF rs
        <5>2. store.saved[j] \in MessageRow /\ store.saved[j].req \in Requests
          BY <4>1, ListFacts DEF MessageRow
        <5>3. CASE x[i] = store.saved[j]
          <6>1. fate[store.saved[j].req] = "whole"
            BY <4>2, <4>3, <5>2, <5>3
          <6> QED BY <1>0, <4>3, <5>3, <6>1 DEF Honest
        <5>4. CASE x[i].req = store.saved[j].req /\ store.saved[j].req \in rs
          BY <4>2, <4>3, <5>2, <5>4
        <5> QED BY <5>1, <5>3, <5>4
      <4> QED BY <4>2, <4>3 DEF Honest
    <3> QED BY <3>1, <3>2, <3>3
  <2> DEFINE X == {x}
  <2>5. messages' \in X /\ store'.latest \in X /\ store'.saved \in X /\ \A y \in X : Honest(y, fate', sent, {})
    BY <2>1, <2>4
  <2>6. \A r \in Requests : fate'[r] = "whole" => fate[r] = "whole"
    BY <2>4
  <2> HIDE DEF X, x, f2
  <2> QED BY <1>3, <2>1, <2>2, <2>3, <2>5, <2>6
<1> QED BY <1>2, <1>4, <1>5 DEF PageStep

(* Every step keeps what is said of the texts.                             *)
LEMMA TextStays ==
  ASSUME ~RepeatedDeltas, RefsOK, PageOK, TextOK, [Next]_vars
  PROVE  TextOK'
<1>0. count \in Counts
  BY DEF RefsOK, RefTypes
<1>1. CASE UNCHANGED vars
  BY <1>1, QuietText DEF vars
<1>2. ASSUME Render PROVE TextOK'
  <2>1. RenderAll(queue, chat.gen) /\ UNCHANGED <<next, chat, sent, fate, count, editing>>
    BY <1>2 DEF Render
  <2>2. \E now \in MayRunNow(<<>>) : RenderAll(Queued(<<>>, now), chat.gen)
    BY <2>1, NothingQueued
  <2>3. ClickRenders(<<>>, chat.gen)
    BY <2>2 DEF ClickRenders
  <2>4. EditorOK'
    BY <2>1 DEF TextOK, EditorOK
  <2> QED BY <2>1, <2>3, <2>4, RenderKeepsText
<1>3. ASSUME cancelEdit PROVE TextOK'
  <2>1. ClickRenders(<<>>, chat.gen) /\ UNCHANGED <<next, chat, sent, fate, count>> /\ editing' = NoKey
    BY <1>3 DEF cancelEdit
  <2>2. EditorOK'
    BY <2>1 DEF EditorOK, NoKey
  <2> QED BY <2>1, <2>2, RenderKeepsText
<1>4. CASE UserStep
  BY <1>3, <1>4, SendText, SelectPromptText, StopText, ClearText, RegenerateText, EditorText, DeleteText, EditText DEF UserStep
<1>5. CASE ServerStep
  BY <1>5, AnswerText DEF ServerStep
<1> QED BY <1>1, <1>2, <1>4, <1>5, FlushText, StorageText DEF Next

(* An answer that is shown as complete, and was neither stopped, edited    *)
(* nor interrupted, nor shortened when a history was loaded (loadMessages  *)
(* collapses and truncates finished answers too), is the text the server   *)
(* sent, as long as no delta repeats the text before it: the chunks that   *)
(* are pending when the stream ends are flushed before the message         *)
(* completes, none is applied twice, and an answer that was loaded with    *)
(* the text it was saved with is still whole.                              *)
THEOREM WholeAnswers ==
  ASSUME ~RepeatedDeltas
  PROVE  Spec => []CompleteAnswerIsWhole
<1>1. Init => TextOK
  <2> SUFFICES ASSUME Init PROVE TextOK
    OBVIOUS
  <2>1. /\ messages = <<>> /\ queue = <<>> /\ next = Idle /\ editing = NoKey /\ sent = [r \in Requests |-> 0]
        /\ store = [latest |-> <<>>, timer |-> FALSE, saved |-> <<>>]
    BY DEF Init
  <2>2. Now = <<>> /\ DOMAIN <<>> = {}
    BY <2>1, RenderNothing DEF Now
  <2>3. KnownLists = {<<>>} /\ UnderWay = {}
    BY <2>1, <2>2 DEF KnownLists, UnderWay, Idle
  <2>4. Honest(<<>>, fate, sent, UnderWay)
    BY <2>2 DEF Honest
  <2>5. EditorOK /\ NothingYet
    BY <2>1 DEF EditorOK, NothingYet, NoKey
  <2> QED BY <2>3, <2>4, <2>5 DEF TextOK
<1>2. RefsOK /\ PageOK /\ TextOK /\ [Next]_vars => TextOK'
  BY TextStays
<1>3. RefsOK /\ PageOK /\ TextOK => CompleteAnswerIsWhole
  <2> SUFFICES ASSUME RefsOK, PageOK, TextOK, NEW i \in DOMAIN messages, messages[i].status = "complete",
                      fate[messages[i].req] = "whole", messages[i].text # EditedText
               PROVE  messages[i].text = [k \in 1..sent[messages[i].req] |-> Letter(messages[i].req, k)]
    BY DEF CompleteAnswerIsWhole
  <2> DEFINE r == messages[i].req
  <2>1. messages \in Messages /\ Honest(messages, fate, sent, UnderWay)
    BY DEF PageOK, ListsOK, Good, TextOK, KnownLists
  <2>2. r \in Requests
    BY <2>1, ListFacts DEF MessageRow
  <2>3. sent[r] \in Nat
    BY <2>2 DEF RefsOK, RefTypes
  <2>4. messages[i].text = Run(r, 0, sent[r])
    BY <2>1 DEF Honest
  <2> HIDE DEF r
  <2>5. Run(r, 0, sent[r]) = [k \in 1..sent[r] |-> Letter(r, k)]
    <3>1. sent[r] - 0 = sent[r] /\ \A k \in 1..sent[r] : 0 + k = k
      BY <2>3
    <3> QED BY <3>1 DEF Run, Letter
  <2> QED BY <2>4, <2>5 DEF r
<1> QED BY <1>1, <1>2, <1>3, PageInvariant, PTL DEF Spec
=============================================================================
