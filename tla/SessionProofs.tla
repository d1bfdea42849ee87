---------------------------- MODULE SessionProofs ----------------------------
(***************************************************************************)
(* Proofs about SessionStore, for any number of writers, messages, storage *)
(* epochs and metadata values.                                             *)
(***************************************************************************)
EXTENDS SessionStore, SequenceFacts, SequenceTheorems

Known(s) == IF s.snap = None THEN {} ELSE Range(s.snap.msgs)

\* The messages a Session object holds that no save of its has written.
Own(s) == Range(s.msgs) \ Known(s)

\* The elements of a have in b the order they have in a.
InOrder(a, b) ==
  \A i, j \in DOMAIN a, p, q \in DOMAIN b :
    i < j /\ b[p] = a[i] /\ b[q] = a[j] => p < q

\* What a Session object of the current epoch takes to be saved is in the file.
StoredView(s) ==
  s.snap # None /\ s.epoch = Epoch =>
    Range(s.snap.msgs) \subseteq Range(OldMsgs) /\ InOrder(s.snap.msgs, OldMsgs)

\* The types, with the numbers of the messages left open, and the bound on
\* these.
Shape ==
  /\ file \in FileRecord(Nat) \cup {None}
  /\ epoch \in 0..MaxEpoch \cup {None} /\ known \in BOOLEAN /\ count \in 0..MaxMsg
  /\ session \in [Writer -> SessionRecord(Nat) \cup {None}]

Numbered ==
  /\ acked \subseteq 1..count /\ gone \subseteq 1..count /\ Range(OldMsgs) \subseteq 1..count
  /\ \A w \in Writer : session[w] # None =>
       Range(session[w].msgs) \subseteq 1..count /\ Known(session[w]) \subseteq 1..count

\* A Session object is sound: it repeats no message, it is not ahead of the
\* epoch, and it is persisted exactly when it has a snapshot.
SoundSession(s) ==
  /\ IsInjective(s.msgs) /\ s.epoch <= Epoch
  /\ s.persisted <=> s.snap # None
  /\ StoredView(s)

Sound == \A w \in Writer : session[w] # None => SoundSession(session[w])

\* A message that was not saved is known to its writer only.
Private ==
  \A w \in Writer : session[w] # None =>
    /\ Own(session[w]) \cap (Range(OldMsgs) \cup gone) = {}
    /\ \A v \in Writer \ {w} : session[v] # None =>
         Own(session[w]) \cap (Range(session[v].msgs) \cup Known(session[v])) = {}

\* The inductive invariant.
StoreInv ==
  Shape /\ Numbered /\ Sound /\ Private /\ NoDuplicates /\ SavedTurnsSurvive /\ NoResurrection

-----------------------------------------------------------------------------
(* Sequences of messages. *)

\* Range and ToSet are the same set.
LEMMA RangeIsToSet == \A s : Range(s) = ToSet(s)
BY DEF Range, ToSet

\* New elements after b do not disturb the order of what b has.
LEMMA OrderKept ==
  ASSUME NEW a \in Seq(Nat), NEW b \in Seq(Nat), NEW x \in Seq(Nat),
         Range(a) \subseteq Range(b), InOrder(a, b), Range(b) \cap Range(x) = {}
  PROVE  InOrder(a, b \o x)
<1> DEFINE c == b \o x
<1>1. /\ DOMAIN c = 1 .. Len(b) + Len(x) /\ DOMAIN b = 1 .. Len(b) /\ DOMAIN x = 1 .. Len(x)
      /\ Len(b) \in Nat /\ Len(x) \in Nat
      /\ \A i \in 1 .. Len(b) : c[i] = b[i]
      /\ \A i \in 1 .. Len(x) : c[Len(b) + i] = x[i]
  BY ConcatIndex
<1> HIDE DEF c
<1>2. ASSUME NEW p \in DOMAIN c, NEW i \in DOMAIN a, c[p] = a[i]  PROVE p \in DOMAIN b
  <2>1. a[i] \in Range(b)
    BY DEF Range
  <2>2. ~(p > Len(b))
    <3> SUFFICES ASSUME p > Len(b) PROVE FALSE
      OBVIOUS
    <3>1. p - Len(b) \in 1 .. Len(x) /\ c[p] = x[p - Len(b)]
      BY <1>1
    <3>2. a[i] \in Range(x)
      BY <1>1, <1>2, <3>1 DEF Range
    <3> QED
      BY <2>1, <3>2
  <2> QED
    BY <1>1, <2>2
<1>3. ASSUME NEW i \in DOMAIN a, NEW j \in DOMAIN a, NEW p \in DOMAIN c, NEW q \in DOMAIN c,
             i < j, c[p] = a[i], c[q] = a[j]
      PROVE  p < q
  <2>1. p \in DOMAIN b /\ q \in DOMAIN b
    BY <1>2, <1>3
  <2>2. b[p] = a[i] /\ b[q] = a[j]
    BY <1>1, <1>3, <2>1
  <2> QED
    BY <1>3, <2>1, <2>2 DEF InOrder
<1> QED
  BY <1>3 DEF InOrder, c

\* A writer that adds x to what it has in b, and to b, has it in order.
LEMMA OrderExtended ==
  ASSUME NEW a \in Seq(Nat), NEW b \in Seq(Nat), NEW x \in Seq(Nat), NEW n \in Nat,
         n <= Len(a), Len(x) = Len(a) - n,
         \A i \in 1 .. Len(x) : x[i] = a[n + i],
         IsInjective(x), Range(b) \cap Range(x) = {},
         \A i \in 1 .. n : a[i] \in Range(b),
         \A i, j \in 1 .. n, p, q \in DOMAIN b : i < j /\ b[p] = a[i] /\ b[q] = a[j] => p < q
  PROVE  Range(a) \subseteq Range(b \o x) /\ InOrder(a, b \o x)
<1> DEFINE c == b \o x
<1>0. /\ DOMAIN a = 1 .. Len(a) /\ DOMAIN b = 1 .. Len(b) /\ DOMAIN x = 1 .. Len(x)
      /\ Len(a) \in Nat /\ Len(b) \in Nat /\ Len(x) \in Nat
  OBVIOUS
<1>1. /\ DOMAIN c = 1 .. Len(b) + Len(x) /\ DOMAIN b = 1 .. Len(b) /\ DOMAIN x = 1 .. Len(x)
      /\ DOMAIN a = 1 .. Len(a) /\ Len(a) \in Nat
      /\ Len(b) \in Nat /\ Len(x) \in Nat
      /\ \A i \in 1 .. Len(b) : c[i] = b[i]
      /\ \A i \in 1 .. Len(x) : c[Len(b) + i] = x[i]
  <2>1. /\ DOMAIN (b \o x) = 1 .. Len(b) + Len(x)
        /\ \A i \in 1 .. Len(b) : (b \o x)[i] = b[i]
        /\ \A i \in 1 .. Len(x) : (b \o x)[Len(b) + i] = x[i]
    <3>1. b \in Seq(Nat) /\ x \in Seq(Nat)
      OBVIOUS
    <3> QED
      BY ONLY <3>1, ConcatIndex
  <2> QED
    BY <1>0, <2>1, Zenon
<1>2. Range(c) = Range(b) \cup Range(x)
  BY ConcatSet, RangeIsToSet
<1> HIDE DEF c
<1>3. ASSUME NEW i \in DOMAIN a, i > n  PROVE i - n \in DOMAIN x /\ x[i - n] = a[i] /\ a[i] \in Range(x)
  <2>1. i - n \in DOMAIN x /\ x[i - n] = a[i]
    BY <1>1, <1>3
  <2> QED
    BY <2>1 DEF Range
<1>4. Range(a) \subseteq Range(c)
  <2> SUFFICES ASSUME NEW i \in DOMAIN a PROVE a[i] \in Range(c)
    BY DEF Range
  <2>1. CASE i <= n
    BY <1>1, <1>2, <2>1
  <2>2. CASE i > n
    BY <1>2, <1>3, <2>2
  <2> QED
    BY <1>1, <2>1, <2>2
<1>5. ASSUME NEW i \in DOMAIN a, NEW p \in DOMAIN c, c[p] = a[i]
      PROVE  /\ i <= n => p \in DOMAIN b /\ b[p] = a[i]
             /\ i > n => p = Len(b) + (i - n)
  <2>1. CASE p <= Len(b)
    <3>1. p \in DOMAIN b /\ b[p] = a[i] /\ a[i] \in Range(b)
      BY <1>1, <1>5, <2>1 DEF Range
    <3>2. ~(i > n)
      BY <1>3, <3>1
    <3> QED
      BY <3>1, <3>2
  <2>2. CASE p > Len(b)
    <3>1. p - Len(b) \in DOMAIN x /\ x[p - Len(b)] = a[i]
      BY <1>1, <1>5, <2>2
    <3>2. a[i] \in Range(x)
      BY <3>1 DEF Range
    <3>3. ~(i <= n)
      BY <1>1, <3>2
    <3>4. i - n \in DOMAIN x /\ x[i - n] = a[i]
      BY <1>1, <1>3, <3>3
    <3>5. p - Len(b) = i - n
      BY <3>1, <3>4 DEF IsInjective
    <3> QED
      BY <1>1, <3>3, <3>5
  <2> QED
    BY <1>1, <2>1, <2>2
<1>6. ASSUME NEW i \in DOMAIN a, NEW j \in DOMAIN a, NEW p \in DOMAIN c, NEW q \in DOMAIN c,
             i < j, c[p] = a[i], c[q] = a[j]
      PROVE  p < q
  <2>0. /\ i <= n => p \in DOMAIN b /\ b[p] = a[i]
        /\ i > n => p = Len(b) + (i - n)
        /\ j <= n => q \in DOMAIN b /\ b[q] = a[j]
        /\ j > n => q = Len(b) + (j - n)
    BY <1>5, <1>6
  <2>1. i \in Nat /\ j \in Nat /\ p \in Nat /\ q \in Nat
    BY <1>1
  <2>2. CASE j <= n
    BY <1>1, <1>6, <2>0, <2>1, <2>2
  <2>3. CASE j > n /\ i <= n
    <3>1. p <= Len(b) /\ q = Len(b) + (j - n)
      BY <1>1, <2>0, <2>3
    <3> QED
      BY <1>1, <2>1, <2>3, <3>1
  <2>4. CASE j > n /\ i > n
    <3>1. p = Len(b) + (i - n) /\ q = Len(b) + (j - n)
      BY <2>0, <2>4
    <3> QED
      BY <1>1, <1>6, <2>1, <3>1
  <2> QED
    BY <2>1, <2>2, <2>3, <2>4
<1> QED
  BY <1>4, <1>6 DEF InOrder, c

\* A sequence of distinct elements is in its own order.
LEMMA OrderOfItself ==
  ASSUME NEW a \in Seq(Nat), IsInjective(a)
  PROVE  InOrder(a, a)
BY DEF InOrder, IsInjective

-----------------------------------------------------------------------------
(* The store. *)

\* None is no record, so what is on disk or in memory says whether it is there.
LEMMA RecordsAreSomething ==
  /\ \A r \in FileRecord(Nat) : r # None
  /\ \A r \in Snapshot(Nat) : r # None
  /\ \A r \in SessionRecord(Nat) : r # None
BY SessionAssumption

\* The journal is a sequence of messages and its epoch a number.
LEMMA DiskFacts ==
  ASSUME Shape
  PROVE  /\ OldMsgs \in Seq(Nat) /\ Epoch \in Nat /\ Epoch <= MaxEpoch
         /\ \A w \in Writer : session[w] # None => session[w] \in SessionRecord(Nat)
BY SessionAssumption DEF Shape, OldMsgs, Epoch, FileRecord

\* The messages a save by append writes: the writer's own, after the saved
\* part of its history.
LEMMA UnsavedFacts ==
  ASSUME NEW s \in SessionRecord(Nat), IsInjective(s.msgs), s.persisted <=> s.snap # None,
         ~MustRewrite(s)
  PROVE  /\ Unsaved(s) \in Seq(Nat) /\ IsInjective(Unsaved(s))
         /\ Range(Unsaved(s)) \subseteq Own(s)
         /\ \E n \in Nat :
              /\ n <= Len(s.msgs) /\ Len(Unsaved(s)) = Len(s.msgs) - n
              /\ \A i \in 1 .. Len(Unsaved(s)) : Unsaved(s)[i] = s.msgs[n + i]
              /\ s.snap = None => n = 0
              /\ s.snap # None =>
                   n = Len(s.snap.msgs) /\ \A i \in 1 .. n : s.msgs[i] = s.snap.msgs[i]
<1>0. s.msgs \in Seq(Nat) /\ Len(s.msgs) \in Nat
  BY DEF SessionRecord
<1>1. CASE s.snap = None
  <2>1. Unsaved(s) = s.msgs /\ Own(s) = Range(s.msgs)
    BY <1>1 DEF Unsaved, Own, Known
  <2> QED
    BY <1>0, <1>1, <2>1
<1>2. CASE s.snap # None
  <2> DEFINE n == Len(s.snap.msgs)
             r == SubSeq(s.msgs, n + 1, Len(s.msgs))
             f == SubSeq(s.msgs, 1, n)
  <2>1. s.snap.msgs \in Seq(Nat) /\ n \in Nat
    BY <1>2 DEF SessionRecord, Snapshot
  <2>2. n <= Len(s.msgs) /\ SubSeq(s.snap.msgs, 1, n) = f
    BY <1>2 DEF MustRewrite, AppendOnly, IsPrefix
  <2>3. n \in 0 .. Len(s.msgs) /\ n \in 0 .. Len(s.snap.msgs)
    BY <1>0, <2>1, <2>2
  <2>4. /\ r \in Seq(Nat) /\ Len(r) = Len(s.msgs) - n
        /\ \A i \in 1 .. Len(r) : r[i] = s.msgs[n + i]
        /\ ToSet(s.msgs) = ToSet(f) \cup ToSet(r)
        /\ IsInjective(r) /\ ToSet(f) \cap ToSet(r) = {}
    <3>1. PICK q : q = s.msgs
      OBVIOUS
    <3>2. PICK m : m = n
      OBVIOUS
    <3>3. q \in Seq(Nat) /\ m \in 0 .. Len(q) /\ IsInjective(q)
      BY <1>0, <2>3, <3>1, <3>2
    <3>4. r = SubSeq(q, m + 1, Len(q)) /\ f = SubSeq(q, 1, m)
      BY <3>1, <3>2
    <3> HIDE DEF r, f, n
    <3>5. /\ r \in Seq(Nat) /\ Len(r) = Len(q) - m
          /\ \A i \in 1 .. Len(r) : r[i] = q[m + i]
          /\ ToSet(q) = ToSet(f) \cup ToSet(r)
          /\ IsInjective(r) /\ ToSet(f) \cap ToSet(r) = {}
      <4>1. LET rest == SubSeq(q, m + 1, Len(q))
            IN /\ rest \in Seq(Nat) /\ Len(rest) = Len(q) - m
               /\ \A i \in 1 .. Len(rest) : rest[i] = q[m + i]
               /\ ToSet(q) = ToSet(SubSeq(q, 1, m)) \cup ToSet(rest)
               /\ IsInjective(q) => IsInjective(rest) /\ ToSet(SubSeq(q, 1, m)) \cap ToSet(rest) = {}
        BY ONLY <3>3, RestSet, Zenon
      <4> QED
        BY ONLY <3>3, <3>4, <4>1, Zenon
    <3> QED
      BY <3>1, <3>2, <3>5
  <2>5. /\ \A i \in 1 .. n : f[i] = s.msgs[i]
        /\ \A i \in 1 .. n : f[i] = s.snap.msgs[i]
        /\ f = s.snap.msgs
    <3>1. \A i \in 1 .. n : f[i] = s.msgs[i]
      BY <1>0, <2>3, FrontSet
    <3>2. SubSeq(s.snap.msgs, 1, n) = s.snap.msgs
      BY <2>1
    <3> QED
      BY <2>2, <3>1, <3>2
  <2>6. Unsaved(s) = r
    BY <1>2 DEF Unsaved
  <2>7. Own(s) = ToSet(s.msgs) \ ToSet(f)
    BY <1>2, <2>5, RangeIsToSet DEF Own, Known
  <2> HIDE DEF n, r, f
  <2>8. Range(Unsaved(s)) \subseteq Own(s)
    BY <2>4, <2>6, <2>7, RangeIsToSet
  <2>9. \A i \in 1 .. n : s.msgs[i] = s.snap.msgs[i]
    BY <2>5
  <2> QED
    BY <1>2, <2>1, <2>2, <2>4, <2>6, <2>8, <2>9 DEF n
<1> QED
  BY <1>1, <1>2

\* A step that changes nothing but one Session object, and perhaps the marker
\* of the epoch file.
LEMMA LocalStep ==
  ASSUME StoreInv, NEW w \in Writer, NEW v,
         session' = [session EXCEPT ![w] = v],
         file' = file, Epoch' = Epoch,
         epoch' \in 0..MaxEpoch \cup {None}, known' \in BOOLEAN,
         count' \in {count, count + 1}, count' <= MaxMsg,
         acked' = acked, gone' = gone,
         v # None =>
           /\ v \in SessionRecord(Nat) /\ SoundSession(v)
           /\ Range(v.msgs) \subseteq 1..count' /\ Known(v) \subseteq 1..count'
           /\ session[w] = None =>
                Own(v) = {} /\ Range(v.msgs) \cup Known(v) \subseteq Range(OldMsgs)
           /\ session[w] # None =>
                /\ Own(v) \subseteq Own(session[w]) \cup {count + 1}
                /\ Range(v.msgs) \subseteq Range(session[w].msgs) \cup {count + 1}
                /\ Known(v) \subseteq Known(session[w])
  PROVE  StoreInv'
<1> USE DEF StoreInv
<1>1. OldMsgs' = OldMsgs /\ count \in Nat /\ count' \in 0..MaxMsg /\ 1..count \subseteq 1..count'
      /\ count + 1 \notin 1..count
  BY SessionAssumption DEF OldMsgs, Shape
<1>2. /\ session'[w] = v
      /\ \A u \in Writer \ {w} : session'[u] = session[u]
  BY DEF Shape
<1>3. Shape'
  BY <1>1 DEF Shape
<1>4. Numbered'
  BY <1>1, <1>2 DEF Numbered
<1>5. Sound'
  BY <1>1, <1>2 DEF Sound, SoundSession, StoredView
<1>6. Private'
  <2>1. ASSUME NEW u \in Writer, session'[u] # None
        PROVE  Own(session'[u]) \cap (Range(OldMsgs) \cup gone) = {}
    BY <1>1, <1>2, <2>1 DEF Private, Numbered
  <2>2. ASSUME NEW u \in Writer, NEW x \in Writer \ {u}, session'[u] # None, session'[x] # None
        PROVE  Own(session'[u]) \cap (Range(session'[x].msgs) \cup Known(session'[x])) = {}
    <3>1. CASE u = w
      BY <1>1, <1>2, <2>2, <3>1 DEF Private, Numbered
    <3>2. CASE u # w /\ x = w
      <4>1. session[u] # None /\ session'[u] = session[u] /\ session'[x] = v /\ v # None
        BY <1>2, <2>2, <3>2
      <4>2. Own(session[u]) \subseteq 1..count
        BY <4>1 DEF Numbered, Own
      <4> QED
        BY <1>1, <3>2, <4>1, <4>2 DEF Private
    <3>3. CASE u # w /\ x # w
      BY <1>2, <2>2, <3>3 DEF Private
    <3> QED
      BY <3>1, <3>2, <3>3
  <2> QED
    BY <1>1, <2>1, <2>2 DEF Private
<1>7. NoDuplicates' /\ SavedTurnsSurvive' /\ NoResurrection'
  BY <1>1 DEF NoDuplicates, SavedTurnsSurvive, NoResurrection
<1> QED
  BY <1>3, <1>4, <1>5, <1>6, <1>7

\* Messages x, the writer's own, are added at the end of the file, in a save or
\* in a save that a crash cuts short.  Every other writer's view stays stored.
LEMMA AppendStep ==
  ASSUME StoreInv, NEW w \in Writer, session[w] # None, NEW v, NEW x \in Seq(Nat),
         Range(x) \subseteq Own(session[w]), IsInjective(x),
         file' \in FileRecord(Nat), file'.msgs = OldMsgs \o x, Epoch' = Epoch,
         epoch' \in 0..MaxEpoch \cup {None}, known' \in BOOLEAN, count' = count,
         gone' = gone, acked' \subseteq acked \cup Range(x),
         session' = [session EXCEPT ![w] = v],
         v # None =>
           /\ v \in SessionRecord(Nat) /\ SoundSession(v)'
           /\ Range(v.msgs) \subseteq Range(session[w].msgs) /\ Known(v) = Range(v.msgs)
  PROVE  StoreInv'
<1> USE DEF StoreInv
<1>1. /\ OldMsgs \in Seq(Nat) /\ Epoch \in Nat
      /\ \A u \in Writer : session[u] # None => session[u] \in SessionRecord(Nat)
  BY DiskFacts
<1>2. OldMsgs' = OldMsgs \o x
  BY RecordsAreSomething DEF OldMsgs
<1>3. Range(OldMsgs) \cap Range(x) = {} /\ gone \cap Range(x) = {} /\ Range(x) \subseteq 1..count
  BY DEF Private, Numbered, Own
<1>4. /\ Range(OldMsgs') = Range(OldMsgs) \cup Range(x)
      /\ IsInjective(OldMsgs')
  BY <1>1, <1>2, <1>3, ConcatSet, RangeIsToSet DEF NoDuplicates
<1>5. /\ session'[w] = v
      /\ \A u \in Writer \ {w} : session'[u] = session[u]
  BY DEF Shape
<1>6. Shape'
  BY DEF Shape
<1>7. Numbered'
  BY <1>3, <1>4, <1>5 DEF Numbered
<1>8. Sound'
  <2> SUFFICES ASSUME NEW u \in Writer, session'[u] # None
               PROVE  SoundSession(session[u])'
    BY DEF Sound
  <2>1. CASE u = w
    BY <1>5, <2>1 DEF SoundSession, StoredView
  <2>2. CASE u # w
    <3>1. session'[u] = session[u] /\ session[u] # None /\ SoundSession(session[u])
      BY <1>5, <2>2 DEF Sound
    <3>2. ASSUME session[u].snap # None, session[u].epoch = Epoch
          PROVE  /\ Range(session[u].snap.msgs) \subseteq Range(OldMsgs')
                 /\ InOrder(session[u].snap.msgs, OldMsgs \o x)
      <4>1. session[u].snap.msgs \in Seq(Nat)
        BY <1>1, <3>1, <3>2 DEF SessionRecord, Snapshot
      <4>2. /\ Range(session[u].snap.msgs) \subseteq Range(OldMsgs)
            /\ InOrder(session[u].snap.msgs, OldMsgs)
        BY <3>1, <3>2 DEF SoundSession, StoredView
      <4> QED
        BY <1>1, <1>3, <1>4, <4>1, <4>2, OrderKept
    <3> QED
      BY <1>2, <3>1, <3>2 DEF SoundSession, StoredView
  <2> QED
    BY <2>1, <2>2
<1>9. Private'
  <2>0. v # None => Own(v) = {}
    BY DEF Own
  <2>1. ASSUME NEW u \in Writer, session'[u] # None, u # w
        PROVE  Own(session'[u]) \cap (Range(OldMsgs') \cup gone) = {}
    <3>1. session'[u] = session[u] /\ session[u] # None
      BY <1>5, <2>1
    <3>2. Own(session[w]) \cap Own(session[u]) = {}
      BY <2>1, <3>1 DEF Private, Own
    <3> QED
      BY <1>4, <3>1, <3>2 DEF Private
  <2>2. ASSUME NEW u \in Writer, NEW y \in Writer \ {u}, session'[u] # None, session'[y] # None, u # w
        PROVE  Own(session'[u]) \cap (Range(session'[y].msgs) \cup Known(session'[y])) = {}
    <3>1. session'[u] = session[u] /\ session[u] # None
      BY <1>5, <2>2
    <3>2. CASE y = w
      <4>1. Own(session[u]) \cap Range(session[w].msgs) = {}
        BY <3>1, <3>2 DEF Private
      <4> QED
        BY <1>5, <2>2, <3>1, <3>2, <4>1
    <3>3. CASE y # w
      BY <1>5, <2>2, <3>1, <3>3 DEF Private
    <3> QED
      BY <3>2, <3>3
  <2> QED
    BY <1>5, <2>0, <2>1, <2>2 DEF Private
<1>10. NoDuplicates' /\ SavedTurnsSurvive' /\ NoResurrection'
  BY <1>3, <1>4 DEF NoDuplicates, SavedTurnsSurvive, NoResurrection
<1> QED
  BY <1>6, <1>7, <1>8, <1>9, <1>10

\* The file is replaced or removed under the next epoch: only the writer that
\* does it is of that epoch.  What it drops was in the file, and what it keeps
\* is from the file or its own.
LEMMA FenceStep ==
  ASSUME StoreInv, NEW w \in Writer, NEW v, NEW new,
         file' \in FileRecord(Nat) \cup {None}, OldMsgs' = new,
         new \in Seq(Nat), IsInjective(new),
         epoch' = Epoch + 1, Epoch < MaxEpoch, known' = TRUE, count' = count,
         Range(new) \subseteq Range(OldMsgs) \cup (IF session[w] = None THEN {} ELSE Own(session[w])),
         gone' = gone \cup (Range(OldMsgs) \ Range(new)), acked' \subseteq acked \cup Range(new),
         session' = [session EXCEPT ![w] = v],
         v # None =>
           /\ v \in SessionRecord(Nat) /\ v.epoch = Epoch + 1
           /\ IsInjective(v.msgs) /\ (v.persisted <=> v.snap # None)
           /\ Range(v.msgs) \subseteq Range(new)
           /\ v.snap # None => v.snap.msgs = new
           /\ v.snap = None => v.msgs = <<>>
  PROVE  StoreInv'
<1> USE DEF StoreInv
<1>1. /\ OldMsgs \in Seq(Nat) /\ Epoch \in Nat
      /\ \A u \in Writer : session[u] # None => session[u] \in SessionRecord(Nat)
  BY DiskFacts
<1>2. Epoch' = Epoch + 1 /\ epoch' \in 0..MaxEpoch
  BY <1>1, SessionAssumption DEF Epoch
<1>3. /\ session'[w] = v
      /\ \A u \in Writer \ {w} : session'[u] = session[u]
  BY DEF Shape
<1>4. Shape'
  BY <1>2 DEF Shape
<1>5. Range(new) \subseteq 1..count /\ (v # None => Known(v) \subseteq Range(new) /\ Own(v) = {})
  <2>1. Range(new) \subseteq 1..count
    BY DEF Numbered, Own
  <2>2. ASSUME v # None, v.snap = None  PROVE Known(v) \subseteq Range(new) /\ Own(v) = {}
    BY <2>2, EmptySet, RangeIsToSet DEF Known, Own
  <2>3. ASSUME v # None, v.snap # None  PROVE Known(v) \subseteq Range(new) /\ Own(v) = {}
    BY <2>3 DEF Known, Own
  <2> QED
    BY <2>1, <2>2, <2>3
<1>6. Numbered'
  BY <1>3, <1>5 DEF Numbered
<1>7. Sound'
  <2> SUFFICES ASSUME NEW u \in Writer, session'[u] # None
               PROVE  SoundSession(session[u])'
    BY DEF Sound
  <2>1. CASE u = w
    <3>1. InOrder(new, new)
      BY OrderOfItself
    <3>2. session'[u] = v
      BY <1>3, <2>1
    <3>3. v.epoch <= Epoch'
      BY <1>1, <1>2, <3>2
    <3> QED
      BY <1>2, <3>1, <3>2, <3>3 DEF SoundSession, StoredView
  <2>2. CASE u # w
    <3>1. session'[u] = session[u] /\ session[u] # None /\ SoundSession(session[u])
      BY <1>3, <2>2 DEF Sound
    <3>2. session[u].epoch \in Nat /\ session[u].epoch <= Epoch
      BY <1>1, <3>1 DEF SessionRecord, SoundSession
    <3>3. session[u].epoch <= Epoch' /\ session[u].epoch # Epoch'
      BY <1>1, <1>2, <3>2
    <3> QED
      BY <3>1, <3>3 DEF SoundSession, StoredView
  <2> QED
    BY <2>1, <2>2
<1>8. Private'
  <2>1. ASSUME NEW u \in Writer, session'[u] # None, u # w
        PROVE  Own(session'[u]) \cap (Range(new) \cup gone') = {}
    <3>1. session'[u] = session[u] /\ session[u] # None
      BY <1>3, <2>1
    <3>2. session[w] # None => Own(session[w]) \cap Own(session[u]) = {}
      BY <2>1, <3>1 DEF Private, Own
    <3> QED
      BY <3>1, <3>2 DEF Private
  <2>2. ASSUME NEW u \in Writer, NEW y \in Writer \ {u}, session'[u] # None, session'[y] # None, u # w
        PROVE  Own(session'[u]) \cap (Range(session'[y].msgs) \cup Known(session'[y])) = {}
    <3>1. CASE y = w
      BY <1>3, <1>5, <2>1, <2>2, <3>1
    <3>2. CASE y # w
      BY <1>3, <2>2, <3>2 DEF Private
    <3> QED
      BY <3>1, <3>2
  <2> QED
    BY <1>3, <1>5, <2>1, <2>2 DEF Private
<1>9. NoDuplicates' /\ SavedTurnsSurvive' /\ NoResurrection'
  <2>1. gone \cap Range(new) = {}
    BY DEF Private, NoResurrection
  <2> QED
    BY <2>1 DEF NoDuplicates, SavedTurnsSurvive, NoResurrection
<1> QED
  BY <1>4, <1>6, <1>7, <1>8, <1>9

-----------------------------------------------------------------------------
(* The operations. *)

\* get_or_create hands out the journal as it is, under its epoch.
LEMMA OpenStep ==
  ASSUME StoreInv, NEW w \in Writer, Open(w)
  PROVE  StoreInv'
<1> DEFINE v == IF file = None THEN NewSession(Epoch)
                ELSE [Saved([NewSession(Epoch) EXCEPT !.msgs = file.msgs, !.meta = file.meta], Epoch)
                        EXCEPT !.rewrite = file.partial]
<1> USE DEF StoreInv
<1>1. /\ OldMsgs \in Seq(Nat) /\ Epoch \in Nat /\ <<>> \in Seq(Nat)
      /\ Range(<<>>) = {} /\ IsInjective(<<>>)
  BY DiskFacts, EmptySet, RangeIsToSet
<1>2. /\ session' = [session EXCEPT ![w] = v] /\ session[w] = None
      /\ file' = file /\ epoch' = epoch /\ known' = known
      /\ UNCHANGED <<count, acked, gone>>
  BY DEF Open, disk
<1>3. /\ v \in SessionRecord(Nat) /\ v.epoch = Epoch /\ v.msgs = OldMsgs
      /\ v.persisted <=> v.snap # None
      /\ v.snap # None => v.snap.msgs = OldMsgs
      /\ v.snap = None => v.msgs = <<>>
  <2>1. CASE file = None
    <3>1. v = [msgs |-> <<>>, meta |-> Blank, persisted |-> FALSE, epoch |-> Epoch,
               rewrite |-> FALSE, snap |-> None] /\ OldMsgs = <<>>
      BY <2>1 DEF NewSession, OldMsgs
    <3> HIDE DEF v
    <3> QED
      BY <1>1, <3>1, SessionAssumption DEF SessionRecord
  <2>2. CASE file # None
    <3>0. file.msgs \in Seq(Nat) /\ file.meta \in Meta /\ file.partial \in BOOLEAN
      BY <2>2 DEF Shape, FileRecord
    <3>1. v = [msgs |-> file.msgs, meta |-> file.meta, persisted |-> TRUE, epoch |-> Epoch,
               rewrite |-> file.partial, snap |-> [msgs |-> file.msgs, meta |-> file.meta]]
          /\ OldMsgs = file.msgs
      BY <2>2 DEF NewSession, Saved, Durable, OldMsgs
    <3>2. [msgs |-> file.msgs, meta |-> file.meta] \in Snapshot(Nat)
      BY <3>0 DEF Snapshot
    <3>3. [msgs |-> file.msgs, meta |-> file.meta] # None
      BY <3>2, RecordsAreSomething
    <3> HIDE DEF v
    <3> QED
      BY <1>1, <3>0, <3>1, <3>2, <3>3 DEF SessionRecord
  <2> QED
    BY <2>1, <2>2
<1> HIDE DEF v
<1>4. SoundSession(v)
  <2>1. InOrder(OldMsgs, OldMsgs) /\ IsInjective(OldMsgs)
    BY <1>1, OrderOfItself DEF NoDuplicates
  <2> QED
    BY <1>1, <1>3, <2>1 DEF SoundSession, StoredView
<1>5. Own(v) = {} /\ Known(v) \subseteq Range(OldMsgs)
  BY <1>1, <1>3 DEF Own, Known
<1>6. Epoch' = Epoch /\ Range(OldMsgs) \subseteq 1..count /\ count <= MaxMsg
  BY <1>2, SessionAssumption DEF Epoch, Numbered, Shape
<1>7. epoch' \in 0..MaxEpoch \cup {None} /\ known' \in BOOLEAN
  BY <1>2 DEF Shape
<1> QED
  BY <1>2, <1>3, <1>4, <1>5, <1>6, <1>7, LocalStep

\* A message is recorded, the metadata change, the object is dropped, or /new
\* has cleared it and its save is refused: the disk is left alone.
LEMMA MemoryStep ==
  ASSUME StoreInv, NEW w \in Writer, session[w] # None, NEW v, NEW msgs \in Seq(Nat), NEW m \in Meta,
         session' = [session EXCEPT ![w] = v],
         v \in {None, [session[w] EXCEPT !.msgs = msgs, !.meta = m]},
         \/ msgs = <<>> /\ count' = count
         \/ msgs = session[w].msgs /\ count' = count
         \/ msgs = Append(session[w].msgs, count + 1) /\ count' = count + 1 /\ count < MaxMsg,
         UNCHANGED <<disk, acked, gone>>
  PROVE  StoreInv'
<1> DEFINE s == session[w]
<1> USE DEF StoreInv
<1>1. /\ file' = file /\ epoch' = epoch /\ known' = known /\ Epoch' = Epoch
      /\ acked' = acked /\ gone' = gone
      /\ epoch' \in 0..MaxEpoch \cup {None} /\ known' \in BOOLEAN
  BY DEF disk, Epoch, Shape
<1>2. count \in Nat /\ count <= MaxMsg /\ count' <= MaxMsg /\ count' \in {count, count + 1}
      /\ 1..count \subseteq 1..count' /\ count + 1 \notin 1..count
      /\ (count' = count + 1 => count + 1 \in 1..count')
  BY SessionAssumption DEF Shape
<1>3. s \in SessionRecord(Nat) /\ SoundSession(s) /\ s.msgs \in Seq(Nat)
      /\ Range(s.msgs) \subseteq 1..count /\ Known(s) \subseteq 1..count
  BY DiskFacts DEF Sound, Numbered, SessionRecord
<1>4. /\ IsInjective(msgs)
      /\ Range(msgs) \subseteq Range(s.msgs) \cup {count + 1}
      /\ Range(msgs) \subseteq 1..count'
  <2>1. CASE msgs = <<>>
    BY <2>1, EmptySet, RangeIsToSet
  <2>2. CASE msgs = s.msgs
    BY <1>2, <1>3, <2>2 DEF SoundSession
  <2>3. CASE msgs = Append(s.msgs, count + 1) /\ count' = count + 1
    <3>1. count + 1 \notin Range(s.msgs)
      BY <1>2, <1>3
    <3>2. Range(msgs) = Range(s.msgs) \cup {count + 1} /\ IsInjective(msgs)
      BY <1>2, <1>3, <2>3, <3>1, AppendSet, RangeIsToSet DEF SoundSession
    <3> QED
      BY <1>2, <1>3, <2>3, <3>2
  <2> QED
    BY <2>1, <2>2, <2>3
<1>5. ASSUME v # None
      PROVE  /\ v \in SessionRecord(Nat) /\ v.msgs = msgs
             /\ v.snap = s.snap /\ v.epoch = s.epoch /\ v.persisted = s.persisted
  <2>1. v = [s EXCEPT !.msgs = msgs, !.meta = m]
    BY <1>5
  <2> HIDE DEF s
  <2> QED
    BY <1>3, <2>1 DEF SessionRecord
<1>6. ASSUME v # None
      PROVE  /\ SoundSession(v) /\ Known(v) = Known(s)
             /\ Own(v) \subseteq Own(s) \cup {count + 1}
  BY <1>3, <1>4, <1>5, <1>6 DEF SoundSession, StoredView, Known, Own
<1>7. v # None =>
        /\ v \in SessionRecord(Nat) /\ SoundSession(v)
        /\ Range(v.msgs) \subseteq 1..count' /\ Known(v) \subseteq 1..count'
        /\ Own(v) \subseteq Own(session[w]) \cup {count + 1}
        /\ Range(v.msgs) \subseteq Range(session[w].msgs) \cup {count + 1}
        /\ Known(v) \subseteq Known(session[w])
  BY <1>2, <1>3, <1>4, <1>5, <1>6
<1> QED
  BY <1>1, <1>2, <1>7, LocalStep

\* locked_append, complete: the writer's view is the file's content after it.
LEMMA SaveAppendStep ==
  ASSUME StoreInv, NEW w \in Writer, SaveAppend(w)
  PROVE  StoreInv'
<1> DEFINE s == session[w]
           x == Unsaved(s)
<1> USE DEF StoreInv
<1>0. PICK v : v = Saved(s, Epoch)
  OBVIOUS
<1>1. /\ s # None /\ ~MustRewrite(s) /\ CanAppend(s)
      /\ file' = [msgs |-> OldMsgs \o x, meta |-> s.meta, partial |-> FALSE]
      /\ epoch' = Epoch /\ known' = (known \/ epoch = None)
      /\ session' = [session EXCEPT ![w] = v]
      /\ acked' = acked \cup Range(x) /\ UNCHANGED <<count, gone>>
  BY <1>0 DEF SaveAppend, Appended
<1>2. /\ OldMsgs \in Seq(Nat) /\ Epoch \in Nat /\ Epoch <= MaxEpoch
      /\ s \in SessionRecord(Nat) /\ SoundSession(s)
      /\ s.msgs \in Seq(Nat) /\ s.meta \in Meta /\ s.epoch = Epoch
  BY <1>1, DiskFacts DEF Sound, SessionRecord, CanAppend, SameGeneration
<1>3. /\ x \in Seq(Nat) /\ IsInjective(x) /\ Range(x) \subseteq Own(s)
      /\ \E n \in Nat :
           /\ n <= Len(s.msgs) /\ Len(x) = Len(s.msgs) - n
           /\ \A i \in 1 .. Len(x) : x[i] = s.msgs[n + i]
           /\ s.snap = None => n = 0
           /\ s.snap # None =>
                n = Len(s.snap.msgs) /\ \A i \in 1 .. n : s.msgs[i] = s.snap.msgs[i]
  BY <1>1, <1>2, UnsavedFacts DEF SoundSession
<1>4. Range(OldMsgs) \cap Range(x) = {}
  BY <1>1, <1>3 DEF Private
<1> HIDE DEF x
<1>5. Range(s.msgs) \subseteq Range(OldMsgs \o x) /\ InOrder(s.msgs, OldMsgs \o x)
  <2>1. PICK n \in Nat :
          /\ n <= Len(s.msgs) /\ Len(x) = Len(s.msgs) - n
          /\ \A i \in 1 .. Len(x) : x[i] = s.msgs[n + i]
          /\ s.snap = None => n = 0
          /\ s.snap # None =>
               n = Len(s.snap.msgs) /\ \A i \in 1 .. n : s.msgs[i] = s.snap.msgs[i]
    BY <1>3
  <2>2. /\ \A i \in 1 .. n : s.msgs[i] \in Range(OldMsgs)
        /\ \A i, j \in 1 .. n, p, q \in DOMAIN OldMsgs :
             i < j /\ OldMsgs[p] = s.msgs[i] /\ OldMsgs[q] = s.msgs[j] => p < q
    <3>1. CASE s.snap = None
      BY <2>1, <3>1
    <3>2. CASE s.snap # None
      <4>1. s.snap.msgs \in Seq(Nat) /\ DOMAIN s.snap.msgs = 1 .. n
        BY <1>2, <2>1, <3>2 DEF SessionRecord, Snapshot
      <4>2. /\ Range(s.snap.msgs) \subseteq Range(OldMsgs)
            /\ InOrder(s.snap.msgs, OldMsgs)
        BY <1>2, <3>2 DEF SoundSession, StoredView
      <4>3. \A i \in 1 .. n : s.msgs[i] \in Range(s.snap.msgs)
        BY <2>1, <3>2, <4>1 DEF Range
      <4>4. \A i \in 1 .. n : s.msgs[i] = s.snap.msgs[i]
        BY <2>1, <3>2
      <4> QED
        BY <4>1, <4>2, <4>3, <4>4 DEF InOrder
    <3> QED
      BY <3>1, <3>2
  <2> HIDE DEF s
  <2> QED
    BY <1>2, <1>3, <1>4, <2>1, <2>2, OrderExtended
<1>6. /\ file' \in FileRecord(Nat) /\ file'.msgs = OldMsgs \o x
      /\ OldMsgs' = OldMsgs \o x
  <2>1. OldMsgs \o x \in Seq(Nat)
    BY <1>2, <1>3, ConcatIndex
  <2>2. file' \in FileRecord(Nat) /\ file'.msgs = OldMsgs \o x
    BY <1>1, <1>2, <2>1 DEF FileRecord
  <2> QED
    BY <2>2, RecordsAreSomething DEF OldMsgs
<1>7. /\ Epoch' = Epoch /\ epoch' \in 0..MaxEpoch \cup {None} /\ known' \in BOOLEAN
  <2>1. known' \in BOOLEAN
    BY <1>1
  <2>2. epoch' \in 0..MaxEpoch /\ epoch' # None
    BY <1>1, <1>2, SessionAssumption
  <2>3. Epoch' = Epoch
    BY <1>1, <2>2 DEF Epoch
  <2> QED
    BY <2>1, <2>2, <2>3
<1>8. /\ v \in SessionRecord(Nat) /\ v.msgs = s.msgs /\ v.epoch = Epoch /\ v.persisted = TRUE
      /\ v.snap # None /\ v.snap.msgs = s.msgs
  <2>1. Durable(s) \in Snapshot(Nat) /\ Durable(s) # None /\ Durable(s).msgs = s.msgs
    BY <1>2, RecordsAreSomething DEF Durable, Snapshot
  <2> HIDE DEF s
  <2> QED
    BY <1>0, <1>2, <2>1 DEF Saved, SessionRecord
<1>9. SoundSession(v)'
  BY <1>2, <1>5, <1>6, <1>7, <1>8 DEF SoundSession, StoredView
<1>10. Known(v) = Range(v.msgs)
  BY <1>8 DEF Known
<1> QED
  BY <1>1, <1>3, <1>6, <1>7, <1>8, <1>9, <1>10, AppendStep

\* atomic_replace by a writer whose snapshot is the content of the file: what
\* it drops it had in view.
LEMMA RewriteStep ==
  ASSUME StoreInv, NEW w \in Writer, session[w] # None, NEW s \in SessionRecord(Nat), NEW v,
         s.snap = session[w].snap, s.persisted = session[w].persisted, s.epoch = session[w].epoch,
         IsInjective(s.msgs), Range(s.msgs) \subseteq Range(session[w].msgs),
         CanRewrite(s), Replaced(s), Epoch < MaxEpoch, count' = count,
         v \in {None, Saved(s, Epoch + 1)}, session' = [session EXCEPT ![w] = v],
         gone' = gone \cup Removed(s), acked' \subseteq acked \cup Range(s.msgs)
  PROVE  StoreInv'
<1> DEFINE new == s.msgs
<1> USE DEF StoreInv
<1>1. /\ new \in Seq(Nat) /\ s.meta \in Meta /\ OldMsgs \in Seq(Nat) /\ Epoch \in Nat
      /\ session[w] \in SessionRecord(Nat) /\ SoundSession(session[w])
      /\ s.persisted <=> s.snap # None
  BY DiskFacts DEF SessionRecord, Sound, SoundSession
<1>2. /\ file' = [msgs |-> s.msgs, meta |-> s.meta, partial |-> FALSE]
      /\ epoch' = Epoch + 1 /\ known' = TRUE
  BY DEF Replaced
<1>3. file' \in FileRecord(Nat) /\ OldMsgs' = new
  <2>1. file' \in FileRecord(Nat) /\ file'.msgs = new
    BY <1>1, <1>2 DEF FileRecord
  <2> QED
    BY <2>1, RecordsAreSomething DEF OldMsgs
<1>4. /\ Known(s) = Known(session[w])
      /\ Range(OldMsgs) = Known(s)
      /\ Removed(s) = Range(OldMsgs) \ Range(new)
  <2>1. CASE s.snap = None
    <3>1. file = None /\ OldMsgs = <<>>
      BY <1>1, <2>1 DEF CanRewrite, OldMsgs
    <3>2. Range(OldMsgs) = {}
      BY <3>1, EmptySet, RangeIsToSet
    <3> QED
      BY <2>1, <3>2 DEF Known, Removed
  <2>2. CASE s.snap # None
    <3>1. file # None /\ s.snap = [msgs |-> file.msgs, meta |-> file.meta]
      BY <1>1, <2>2 DEF CanRewrite
    <3>2. s.snap.msgs = OldMsgs
      BY <3>1 DEF OldMsgs
    <3> QED
      BY <2>2, <3>2 DEF Known, Removed
  <2> QED
    BY <2>1, <2>2
<1>5. Range(new) \subseteq Range(OldMsgs) \cup Own(session[w])
  BY <1>4 DEF Own
<1>6. ASSUME v # None
      PROVE  /\ v \in SessionRecord(Nat) /\ v.epoch = Epoch + 1 /\ v.msgs = new
             /\ v.persisted = TRUE /\ v.snap # None /\ v.snap.msgs = new
  <2>1. Durable(s) \in Snapshot(Nat) /\ Durable(s) # None /\ Durable(s).msgs = s.msgs
    BY <1>1, RecordsAreSomething DEF Durable, Snapshot
  <2>2. v = [s EXCEPT !.persisted = TRUE, !.epoch = Epoch + 1, !.rewrite = FALSE,
                     !.snap = Durable(s)]
    BY <1>6 DEF Saved
  <2>3. Epoch + 1 \in Nat
    BY <1>1
  <2> QED
    BY <2>1, <2>2, <2>3 DEF SessionRecord
<1>7. v # None =>
        /\ v \in SessionRecord(Nat) /\ v.epoch = Epoch + 1
        /\ IsInjective(v.msgs) /\ (v.persisted <=> v.snap # None)
        /\ Range(v.msgs) \subseteq Range(new)
        /\ v.snap # None => v.snap.msgs = new
        /\ v.snap = None => v.msgs = <<>>
  BY <1>6
<1> HIDE DEF new
<1>8. IsInjective(new) /\ acked' \subseteq acked \cup Range(new)
  BY DEF new
<1> QED
  BY <1>1, <1>2, <1>3, <1>4, <1>5, <1>7, <1>8, FenceStep

\* save by rewrite.
LEMMA SaveRewriteStep ==
  ASSUME StoreInv, NEW w \in Writer, SaveRewrite(w)
  PROVE  StoreInv'
<1>1. session[w] # None /\ session[w] \in SessionRecord(Nat) /\ IsInjective(session[w].msgs)
  BY DiskFacts DEF SaveRewrite, StoreInv, Sound, SoundSession
<1>2. /\ CanRewrite(session[w]) /\ Replaced(session[w]) /\ Epoch < MaxEpoch /\ count' = count
      /\ session' = [session EXCEPT ![w] = Saved(session[w], Epoch + 1)]
      /\ gone' = gone \cup Removed(session[w])
      /\ acked' = acked \cup Range(session[w].msgs)
  BY DEF SaveRewrite, Replaced
<1> QED
  BY <1>1, <1>2, RewriteStep

\* session.clear and session.undo: a first part of the history is kept.
LEMMA CutHistoryStep ==
  ASSUME StoreInv, NEW w \in Writer, CutHistory(w)
  PROVE  StoreInv'
<1> USE DEF StoreInv
<1>1. PICK n \in 0..MaxMsg, m \in Meta :
        LET s == [session[w] EXCEPT !.msgs = SubSeq(@, 1, n), !.meta = m] IN
        /\ session[w] # None /\ Epoch < MaxEpoch
        /\ n < Len(session[w].msgs) \/ n = 0
        /\ IF s.persisted \/ Dirty(s)
           THEN /\ CanRewrite(s) /\ Replaced(s)
                /\ session' = [session EXCEPT ![w] = Saved(s, epoch')]
                /\ acked' = acked \cup Range(s.msgs)
                /\ gone' = gone \cup Removed(s)
           ELSE /\ SameGeneration(s) /\ file = None
                /\ epoch' = Epoch + 1 /\ known' = TRUE /\ UNCHANGED file
                /\ session' = [session EXCEPT ![w] = [s EXCEPT !.epoch = @ + 1]]
                /\ UNCHANGED <<acked, gone>>
        /\ UNCHANGED count
  BY DEF CutHistory
<1>2. /\ session[w] \in SessionRecord(Nat) /\ SoundSession(session[w])
      /\ session[w].msgs \in Seq(Nat) /\ Epoch \in Nat /\ OldMsgs \in Seq(Nat)
  BY <1>1, DiskFacts DEF Sound, SessionRecord
<1>3. n \in 0 .. Len(session[w].msgs)
  BY <1>1, <1>2
<1>4. PICK s : s = [session[w] EXCEPT !.msgs = SubSeq(@, 1, n), !.meta = m]
  OBVIOUS
<1>5. /\ SubSeq(session[w].msgs, 1, n) \in Seq(Nat)
      /\ Range(SubSeq(session[w].msgs, 1, n)) \subseteq Range(session[w].msgs)
      /\ IsInjective(SubSeq(session[w].msgs, 1, n))
  BY <1>2, <1>3, FrontSet, RangeIsToSet DEF SoundSession
<1>6. /\ s \in SessionRecord(Nat) /\ s.msgs = SubSeq(session[w].msgs, 1, n) /\ s.meta = m
      /\ s.snap = session[w].snap /\ s.persisted = session[w].persisted
      /\ s.epoch = session[w].epoch
  BY <1>2, <1>4, <1>5 DEF SessionRecord
<1>7. CASE s.persisted \/ Dirty(s)
  <2>1. /\ CanRewrite(s) /\ Replaced(s) /\ count' = count /\ Epoch < MaxEpoch
        /\ session' = [session EXCEPT ![w] = Saved(s, Epoch + 1)]
        /\ acked' = acked \cup Range(s.msgs) /\ gone' = gone \cup Removed(s)
    BY <1>1, <1>4, <1>7 DEF Replaced
  <2> QED
    BY <1>1, <1>5, <1>6, <2>1, RewriteStep
<1>8. CASE ~(s.persisted \/ Dirty(s))
  <2>1. /\ s.epoch = Epoch /\ file = None /\ file' = file /\ count' = count /\ Epoch < MaxEpoch
        /\ epoch' = Epoch + 1 /\ known' = TRUE /\ acked' = acked /\ gone' = gone
        /\ session' = [session EXCEPT ![w] = [s EXCEPT !.epoch = @ + 1]]
    BY <1>1, <1>4, <1>8 DEF SameGeneration
  <2>2. s.msgs = <<>> /\ s.snap = None /\ s.persisted = FALSE
    BY <1>2, <1>6, <1>8 DEF Dirty, SoundSession, SessionRecord
  <2>3. PICK v : v = [s EXCEPT !.epoch = @ + 1]
    OBVIOUS
  <2>4. v \in SessionRecord(Nat) /\ v.epoch = Epoch + 1 /\ v.msgs = <<>> /\ v.snap = None
        /\ v.persisted = FALSE
    BY <1>2, <1>6, <2>1, <2>2, <2>3 DEF SessionRecord
  <2>5. OldMsgs = <<>> /\ OldMsgs' = <<>> /\ Range(<<>>) = {} /\ IsInjective(<<>>) /\ <<>> \in Seq(Nat)
    BY <2>1, EmptySet, RangeIsToSet DEF OldMsgs
  <2> QED
    BY <1>1, <2>1, <2>3, <2>4, <2>5, FenceStep
<1> QED
  BY <1>7, <1>8

\* /new: by rewrite, by append, or refused.
LEMMA NewConversationStep ==
  ASSUME StoreInv, NEW w \in Writer, NEW m \in Meta, NewConversation(w, m)
  PROVE  StoreInv'
<1> USE DEF StoreInv
<1>1. PICK s : s = [session[w] EXCEPT !.msgs = <<>>, !.meta = m]
  OBVIOUS
<1>2. /\ session[w] # None /\ Epoch < MaxEpoch /\ count' = count /\ acked' = acked
      /\ \/ /\ CanRewrite(s) /\ Replaced(s)
            /\ session' = [session EXCEPT ![w] = None] /\ gone' = gone \cup Removed(s)
         \/ /\ ~MustRewrite(s) /\ CanAppend(s) /\ Appended(s)
            /\ session' = [session EXCEPT ![w] = None] /\ gone' = gone
         \/ session' = [session EXCEPT ![w] = s] /\ UNCHANGED <<disk, gone>>
  BY <1>1 DEF NewConversation
<1>3. /\ session[w] \in SessionRecord(Nat) /\ SoundSession(session[w]) /\ <<>> \in Seq(Nat)
      /\ Epoch \in Nat /\ Epoch <= MaxEpoch /\ OldMsgs \in Seq(Nat)
      /\ Range(<<>>) = {} /\ IsInjective(<<>>)
  BY <1>2, DiskFacts, EmptySet, RangeIsToSet DEF Sound
<1>4. /\ s \in SessionRecord(Nat) /\ s.msgs = <<>> /\ s.meta = m
      /\ s.snap = session[w].snap /\ s.persisted = session[w].persisted
      /\ s.epoch = session[w].epoch
  BY <1>1, <1>3 DEF SessionRecord
<1>5. CASE /\ CanRewrite(s) /\ Replaced(s)
           /\ session' = [session EXCEPT ![w] = None] /\ gone' = gone \cup Removed(s)
  <2>1. /\ IsInjective(s.msgs) /\ Range(s.msgs) \subseteq Range(session[w].msgs)
        /\ acked' \subseteq acked \cup Range(s.msgs)
    BY <1>2, <1>3, <1>4
  <2> QED
    BY <1>2, <1>4, <1>5, <2>1, RewriteStep
<1>6. CASE /\ ~MustRewrite(s) /\ CanAppend(s) /\ Appended(s)
           /\ session' = [session EXCEPT ![w] = None] /\ gone' = gone
  <2>1. PICK x : x = Unsaved(s)
    OBVIOUS
  <2>2. x \in Seq(Nat) /\ IsInjective(x) /\ Range(x) \subseteq Own(s)
    BY <1>3, <1>4, <1>6, <2>1, UnsavedFacts DEF SoundSession
  <2>3. Range(x) \subseteq Own(session[w])
    BY <1>3, <1>4, <2>2 DEF Own
  <2>4. /\ file' = [msgs |-> OldMsgs \o x, meta |-> s.meta, partial |-> FALSE]
        /\ epoch' = Epoch /\ known' = (known \/ epoch = None)
    BY <1>6, <2>1 DEF Appended
  <2>5. OldMsgs \o x \in Seq(Nat)
    BY <1>3, <2>2, ConcatIndex
  <2>6. file' \in FileRecord(Nat) /\ file'.msgs = OldMsgs \o x
    BY <1>4, <2>4, <2>5 DEF FileRecord
  <2>7. Epoch' = Epoch /\ epoch' \in 0..MaxEpoch \cup {None} /\ known' \in BOOLEAN
    BY <1>3, <2>4, SessionAssumption DEF Epoch, Shape
  <2> QED
    BY <1>2, <1>6, <2>2, <2>3, <2>6, <2>7, AppendStep
<1>7. CASE session' = [session EXCEPT ![w] = s] /\ UNCHANGED <<disk, gone>>
  BY <1>1, <1>2, <1>3, <1>7, MemoryStep
<1> QED
  BY <1>2, <1>5, <1>6, <1>7

\* delete: the file goes, under the next epoch.
LEMMA DeleteStep ==
  ASSUME StoreInv, NEW w \in Writer, Delete(w)
  PROVE  StoreInv'
<1>1. /\ Range(<<>>) = {} /\ IsInjective(<<>>) /\ <<>> \in Seq(Nat)
  BY EmptySet, RangeIsToSet
<1>2. /\ Epoch < MaxEpoch /\ file' = None /\ epoch' = Epoch + 1 /\ known' = TRUE
      /\ session' = [session EXCEPT ![w] = None]
      /\ gone' = gone \cup Range(OldMsgs) /\ count' = count /\ acked' = acked
  BY DEF Delete
<1>3. OldMsgs' = <<>>
  BY <1>2 DEF OldMsgs
<1>4. /\ gone' = gone \cup (Range(OldMsgs) \ Range(<<>>))
      /\ Range(<<>>) \subseteq Range(OldMsgs) \cup (IF session[w] = None THEN {} ELSE Own(session[w]))
      /\ acked' \subseteq acked \cup Range(<<>>)
  BY <1>1, <1>2
<1> QED
  BY <1>1, <1>2, <1>3, <1>4, FenceStep

\* A crash between the epoch and the file: the old content stays, and every
\* writer is behind.
LEMMA CrashInFenceStep ==
  ASSUME StoreInv, NEW w \in Writer, CrashInFence(w)
  PROVE  StoreInv'
<1> USE DEF StoreInv
<1>1. /\ Epoch < MaxEpoch /\ session' = [session EXCEPT ![w] = None]
      /\ file' = file /\ count' = count /\ acked' = acked /\ gone' = gone /\ known' = TRUE
      /\ epoch' = epoch \/ epoch' = Epoch + 1
  BY DEF CrashInFence
<1>2. OldMsgs' = OldMsgs /\ OldMsgs \in Seq(Nat) /\ IsInjective(OldMsgs)
      /\ file' \in FileRecord(Nat) \cup {None}
  BY <1>1, DiskFacts DEF OldMsgs, NoDuplicates, Shape
<1>3. CASE epoch' = epoch
  <2>1. Epoch' = Epoch /\ epoch' \in 0..MaxEpoch \cup {None} /\ count \in Nat /\ count' <= MaxMsg
    BY <1>1, <1>3, SessionAssumption DEF Epoch, Shape
  <2> QED
    BY <1>1, <2>1, LocalStep
<1>4. CASE epoch' = Epoch + 1
  BY <1>1, <1>2, <1>4, FenceStep
<1> QED
  BY <1>1, <1>3, <1>4

\* A crash inside locked_append: some of the writer's messages are in the file,
\* whoever tries again has a new object.
LEMMA CrashInAppendStep ==
  ASSUME StoreInv, NEW w \in Writer, CrashInAppend(w)
  PROVE  StoreInv'
<1> USE DEF StoreInv
<1>1. PICK s : s = session[w]
  OBVIOUS
<1>2. /\ s # None /\ ~MustRewrite(s) /\ count' = count /\ acked' = acked /\ gone' = gone
      /\ session' = [session EXCEPT ![w] = None]
  BY <1>1 DEF CrashInAppend
<1>3. /\ s \in SessionRecord(Nat) /\ SoundSession(s) /\ s.meta \in Meta
      /\ OldMsgs \in Seq(Nat) /\ Epoch \in Nat /\ Epoch <= MaxEpoch
  BY <1>1, <1>2, DiskFacts DEF Sound, SessionRecord
<1>4. Unsaved(s) \in Seq(Nat) /\ IsInjective(Unsaved(s)) /\ Range(Unsaved(s)) \subseteq Own(s)
  BY <1>2, <1>3, UnsavedFacts DEF SoundSession
<1>5. /\ Epoch' = Epoch /\ epoch' \in 0..MaxEpoch \cup {None} /\ known' \in BOOLEAN
      /\ count' <= MaxMsg
  <2>1. \/ epoch' = epoch /\ known' = TRUE
        \/ epoch' = Epoch /\ known' = (known \/ epoch = None)
    BY DEF CrashInAppend
  <2>2. known' \in BOOLEAN
    BY <2>1
  <2>3. Epoch' = Epoch /\ epoch' \in 0..MaxEpoch \cup {None}
    <3>1. CASE epoch' = epoch
      BY <3>1 DEF Epoch, Shape
    <3>2. CASE epoch' = Epoch
      <4>1. Epoch # None
        BY <1>3, SessionAssumption
      <4>2. Epoch' = epoch'
        BY <3>2, <4>1 DEF Epoch
      <4> QED
        BY <1>3, <3>2, <4>2, SessionAssumption
    <3> QED
      BY <2>1, <3>1, <3>2
  <2>4. count' <= MaxMsg
    BY <1>2 DEF Shape
  <2> QED
    BY <2>2, <2>3, <2>4
<1>6. CASE file' = file
  BY <1>2, <1>5, <1>6, LocalStep
<1>7. CASE \E torn \in BOOLEAN :
             file' = [msgs |-> OldMsgs, meta |-> IF file = None THEN Blank ELSE file.meta,
                      partial |-> torn]
  <2>1. <<>> \in Seq(Nat) /\ Range(<<>>) = {} /\ IsInjective(<<>>) /\ OldMsgs = OldMsgs \o <<>>
    BY <1>3, EmptySet, RangeIsToSet
  <2>2. file # None => file.meta \in Meta
    BY DEF Shape, FileRecord
  <2>3. file' \in FileRecord(Nat) /\ file'.msgs = OldMsgs
    BY <1>3, <1>7, <2>2, SessionAssumption DEF FileRecord
  <2>4. Range(<<>>) \subseteq Own(session[w]) /\ acked' \subseteq acked \cup Range(<<>>)
        /\ file'.msgs = OldMsgs \o <<>>
    BY <1>2, <2>1, <2>3
  <2> QED
    BY <1>1, <1>2, <1>5, <2>1, <2>3, <2>4, AppendStep
<1>8. CASE \E k \in 0..Len(Unsaved(s)), torn \in BOOLEAN :
             file' = [msgs |-> OldMsgs \o SubSeq(Unsaved(s), 1, k), meta |-> s.meta,
                      partial |-> torn]
  <2>1. PICK k \in 0..Len(Unsaved(s)), torn \in BOOLEAN :
          file' = [msgs |-> OldMsgs \o SubSeq(Unsaved(s), 1, k), meta |-> s.meta, partial |-> torn]
    BY <1>8
  <2>2. PICK x : x = SubSeq(Unsaved(s), 1, k)
    OBVIOUS
  <2>3. x \in Seq(Nat) /\ IsInjective(x) /\ Range(x) \subseteq Range(Unsaved(s))
    BY <1>4, <2>1, <2>2, FrontSet, RangeIsToSet
  <2>4. OldMsgs \o x \in Seq(Nat)
    BY <1>3, <2>3, ConcatIndex
  <2>5. file' \in FileRecord(Nat) /\ file'.msgs = OldMsgs \o x
    BY <1>3, <2>1, <2>2, <2>4 DEF FileRecord
  <2>6. Range(x) \subseteq Own(session[w]) /\ acked' \subseteq acked \cup Range(x)
    BY <1>1, <1>2, <1>4, <2>3
  <2> QED
    BY <1>1, <1>2, <1>5, <2>3, <2>5, <2>6, AppendStep
<1> QED
  BY <1>1, <1>6, <1>7, <1>8 DEF CrashInAppend

\* No file, or one of before the epochs.
LEMMA InitStore == Init => StoreInv
<1> SUFFICES ASSUME Init PROVE StoreInv
  OBVIOUS
<1>1. <<>> \in Seq(Nat) /\ Range(<<>>) = {} /\ IsInjective(<<>>)
  BY EmptySet, RangeIsToSet
<1>2. <<1>> \in Seq(Nat) /\ Range(<<1>>) = {1} /\ IsInjective(<<1>>)
  BY DEF Range, IsInjective
<1>3. /\ Shape /\ count \in 0..1
      /\ (OldMsgs = <<>> /\ count = 0) \/ (OldMsgs = <<1>> /\ count = 1)
  <2>0. /\ epoch \in 0..MaxEpoch \cup {None} /\ known \in BOOLEAN
        /\ session \in [Writer -> SessionRecord(Nat) \cup {None}]
    BY DEF Init
  <2>1. CASE file = None /\ count = 0
    BY <2>0, <2>1, SessionAssumption DEF Shape, OldMsgs
  <2>2. CASE file = [msgs |-> <<1>>, meta |-> Blank, partial |-> FALSE] /\ count = 1
    <3>1. file \in FileRecord(Nat) /\ file.msgs = <<1>>
      BY <1>2, <2>2, SessionAssumption DEF FileRecord
    <3>2. file # None
      BY <3>1, SessionAssumption
    <3>3. OldMsgs = <<1>>
      BY <3>1, <3>2 DEF OldMsgs
    <3>4. count \in 0..1 /\ count \in 0..MaxMsg
      BY <2>2, SessionAssumption
    <3> QED
      BY <2>0, <2>2, <3>1, <3>3, <3>4 DEF Shape
  <2> QED
    BY <2>1, <2>2 DEF Init
<1>4. Range(OldMsgs) = 1..count /\ acked = 1..count /\ gone = {} /\ IsInjective(OldMsgs)
  <2>1. 1..0 = {} /\ 1..1 = {1}
    OBVIOUS
  <2>2. Range(OldMsgs) = 1..count /\ IsInjective(OldMsgs)
    BY ONLY <1>1, <1>2, <1>3, <2>1
  <2> QED
    BY <2>2 DEF Init
<1>5. \A w \in Writer : session[w] = None
  BY DEF Init
<1> QED
  BY <1>3, <1>4, <1>5 DEF StoreInv, Numbered, Sound, Private, NoDuplicates, SavedTurnsSurvive,
                          NoResurrection

\* Every operation and every crash keeps the invariant.
LEMMA NextStore == StoreInv /\ [Next]_vars => StoreInv'
<1> SUFFICES ASSUME StoreInv, [Next]_vars PROVE StoreInv'
  OBVIOUS
<1>1. CASE UNCHANGED vars
  BY <1>1 DEF vars, StoreInv, Shape, Numbered, Sound, SoundSession, StoredView, Private, OldMsgs,
              Epoch, NoDuplicates, SavedTurnsSurvive, NoResurrection
<1>2. ASSUME NEW w \in Writer, Record(w)  PROVE StoreInv'
  <2>1. session[w] # None /\ session[w] \in SessionRecord(Nat) /\ count \in Nat
    BY <1>2, DiskFacts DEF Record, StoreInv, Shape
  <2>2. session[w].msgs \in Seq(Nat) /\ session[w].meta \in Meta
    BY <2>1 DEF SessionRecord
  <2>3. Append(session[w].msgs, count + 1) \in Seq(Nat)
    BY <2>1, <2>2
  <2>4. session' = [session EXCEPT ![w] =
          [session[w] EXCEPT !.msgs = Append(session[w].msgs, count + 1), !.meta = session[w].meta]]
    BY <1>2, <2>1 DEF Record, StoreInv, Shape, SessionRecord
  <2> QED
    BY <1>2, <2>1, <2>2, <2>3, <2>4, MemoryStep DEF Record
<1>3. ASSUME NEW w \in Writer, NEW m \in Meta, SetMeta(w, m)  PROVE StoreInv'
  <2>1. session[w] # None /\ session[w] \in SessionRecord(Nat)
    BY <1>3, DiskFacts DEF SetMeta, StoreInv, Shape
  <2>2. session[w].msgs \in Seq(Nat)
    BY <2>1 DEF SessionRecord
  <2>3. session' = [session EXCEPT ![w] = [session[w] EXCEPT !.msgs = session[w].msgs, !.meta = m]]
    BY <1>3, <2>1 DEF SetMeta, StoreInv, Shape, SessionRecord
  <2> QED
    BY <1>3, <2>1, <2>2, <2>3, MemoryStep DEF SetMeta
<1>4. ASSUME NEW w \in Writer, Invalidate(w)  PROVE StoreInv'
  <2>1. Blank \in Meta /\ <<>> \in Seq(Nat)
    BY SessionAssumption
  <2> QED
    BY <1>4, <2>1, MemoryStep DEF Invalidate
<1> QED
  BY <1>1, <1>2, <1>3, <1>4, OpenStep, SaveAppendStep, SaveRewriteStep, CutHistoryStep,
     NewConversationStep, DeleteStep, CrashInAppendStep, CrashInFenceStep DEF Next

-----------------------------------------------------------------------------
(* Theorems. *)

\* A sequence is over any set that has its elements.
LEMMA SeqInto ==
  ASSUME NEW S, NEW s \in Seq(Nat), Range(s) \subseteq S
  PROVE  s \in Seq(S)
<1>1. s \in Seq(Range(s))
  BY SeqOfRange
<1>2. PICK R : R = Range(s)
  OBVIOUS
<1> QED
  BY ONLY s \in Seq(Nat), Range(s) \subseteq S, <1>1, <1>2, SeqMonotonic, Zenon

\* The file, the markers and the Session objects are well formed, and an object
\* that claims to be persisted has the snapshot its next save is validated
\* against.
THEOREM StoreTyped == Spec => []TypeOK
<1>1. StoreInv => TypeOK
  <2> SUFFICES ASSUME StoreInv PROVE TypeOK
    OBVIOUS
  <2> USE DEF StoreInv
  <2>1. file \in FileRecord(1..count) \cup {None}
    <3>1. ASSUME file # None  PROVE file.msgs \in Seq(1..count)
      <4>1. file.msgs \in Seq(Nat) /\ Range(file.msgs) \subseteq 1..count
        BY <3>1 DEF Shape, FileRecord, Numbered, OldMsgs
      <4> QED
        BY ONLY <4>1, SeqInto, Zenon
    <3> QED
      BY <3>1 DEF Shape, FileRecord
  <2>2. ASSUME NEW w \in Writer, session[w] # None  PROVE session[w] \in SessionRecord(1..count)
    <3>1. session[w] \in SessionRecord(Nat)
      BY <2>2, DiskFacts
    <3>2. session[w].msgs \in Seq(1..count)
      <4>1. session[w].msgs \in Seq(Nat) /\ Range(session[w].msgs) \subseteq 1..count
        BY <2>2, <3>1 DEF SessionRecord, Numbered
      <4> QED
        BY ONLY <4>1, SeqInto, Zenon
    <3>3. ASSUME session[w].snap # None  PROVE session[w].snap \in Snapshot(1..count)
      <4>1. /\ session[w].snap \in Snapshot(Nat)
            /\ session[w].snap.msgs \in Seq(Nat) /\ Range(session[w].snap.msgs) \subseteq 1..count
        BY <2>2, <3>1, <3>3 DEF SessionRecord, Snapshot, Numbered, Known
      <4>2. session[w].snap.msgs \in Seq(1..count)
        BY ONLY <4>1, SeqInto, Zenon
      <4> QED
        BY <4>1, <4>2 DEF Snapshot
    <3> QED
      BY <3>1, <3>2, <3>3 DEF SessionRecord
  <2>3. session \in [Writer -> SessionRecord(1..count) \cup {None}]
    BY <2>2 DEF Shape
  <2>4. \A w \in Writer : session[w] # None => (session[w].persisted <=> session[w].snap # None)
    BY DEF Sound, SoundSession
  <2> QED
    BY <2>1, <2>3, <2>4 DEF TypeOK, Shape, Numbered
<1> QED
  BY <1>1, InitStore, NextStore, PTL DEF Spec

\* A message whose save returned stays in the journal until a writer that had
\* it in view removes it: the snapshot check of _validate_rewrite_base and the
\* storage epoch suffice for this, whatever is interleaved and whatever crashes.
THEOREM SavedTurnsAreKept == Spec => []SavedTurnsSurvive
<1>1. StoreInv => SavedTurnsSurvive
  BY DEF StoreInv
<1> QED
  BY <1>1, InitStore, NextStore, PTL DEF Spec

\* What a clear, an undo or a delete removed does not come back: a writer of an
\* earlier epoch is refused by _check_epoch for ever.
THEOREM RemovedStaysRemoved == Spec => []NoResurrection
<1>1. StoreInv => NoResurrection
  BY DEF StoreInv
<1> QED
  BY <1>1, InitStore, NextStore, PTL DEF Spec

\* No message is in the journal twice: a crash in a save loses the object that
\* might have repeated it.
THEOREM JournalIsDuplicateFree == Spec => []NoDuplicates
<1>1. StoreInv => NoDuplicates
  BY DEF StoreInv
<1> QED
  BY <1>1, InitStore, NextStore, PTL DEF Spec

\* A writer of the current epoch has a view of its saved history that the
\* journal contains, in the same order, although others append between.
THEOREM ViewsAreStored == Spec => []CurrentViewIsStored
<1>1. StoreInv => CurrentViewIsStored
  <2> SUFFICES ASSUME StoreInv, NEW w \in Writer, session[w] # None, session[w].persisted,
                      session[w].epoch = Epoch
               PROVE  /\ Range(session[w].snap.msgs) \subseteq Range(OldMsgs)
                      /\ \A i, j \in DOMAIN session[w].snap.msgs :
                           i < j => Position(OldMsgs, session[w].snap.msgs[i])
                                    < Position(OldMsgs, session[w].snap.msgs[j])
    BY DEF CurrentViewIsStored
  <2> DEFINE a == session[w].snap.msgs
  <2>1. Range(a) \subseteq Range(OldMsgs) /\ InOrder(a, OldMsgs)
    BY DEF StoreInv, Sound, SoundSession, StoredView
  <2> HIDE DEF a
  <2>2. ASSUME NEW i \in DOMAIN a
        PROVE  /\ Position(OldMsgs, a[i]) \in DOMAIN OldMsgs
               /\ OldMsgs[Position(OldMsgs, a[i])] = a[i]
    <3>1. \E p \in DOMAIN OldMsgs : OldMsgs[p] = a[i]
      BY <2>1 DEF Range
    <3> QED
      BY <3>1 DEF Position
  <2>3. \A i, j \in DOMAIN a : i < j => Position(OldMsgs, a[i]) < Position(OldMsgs, a[j])
    BY <2>1, <2>2 DEF InOrder
  <2> QED
    BY <2>1, <2>3 DEF a
<1> QED
  BY <1>1, InitStore, NextStore, PTL DEF Spec

\* What an append leaves, complete or cut short by a crash: the journal has its
\* history, and a file is there.
LEMMA HistoryExtended ==
  ASSUME Shape, NEW x \in Seq(Nat), NEW m \in Meta, NEW torn \in BOOLEAN,
         file' = [msgs |-> OldMsgs \o x, meta |-> m, partial |-> torn]
  PROVE  file' # None /\ Range(OldMsgs) \subseteq Range(file'.msgs)
<1>1. OldMsgs \in Seq(Nat)
  BY DiskFacts
<1>2. OldMsgs \o x \in Seq(Nat) /\ Range(OldMsgs) \subseteq Range(OldMsgs \o x)
  BY <1>1, ConcatIndex, ConcatSet, RangeIsToSet
<1>3. file' \in FileRecord(Nat) /\ file'.msgs = OldMsgs \o x
  BY <1>2 DEF FileRecord
<1> QED
  BY <1>2, <1>3, SessionAssumption

\* A step writes the next epoch, leaves the epoch and the file as they are, or
\* keeps the epoch and the history.
LEMMA EpochStep ==
  ASSUME StoreInv, NEW w \in Writer,
         \/ SaveAppend(w) \/ SaveRewrite(w) \/ CutHistory(w) \/ Delete(w) \/ CrashInAppend(w)
         \/ CrashInFence(w) \/ \E m \in Meta : NewConversation(w, m)
  PROVE  \/ epoch' = Epoch + 1
         \/ epoch' = epoch /\ file' = file
         \/ epoch' = Epoch /\ file' = file
         \/ epoch' = Epoch /\ file' # None /\ Range(OldMsgs) \subseteq Range(file'.msgs)
<1> USE DEF StoreInv
<1>1. ASSUME NEW s \in SessionRecord(Nat), SoundSession(s), ~MustRewrite(s), Appended(s)
      PROVE  file' # None /\ Range(OldMsgs) \subseteq Range(file'.msgs)
  <2>1. Unsaved(s) \in Seq(Nat) /\ s.meta \in Meta
    BY <1>1, UnsavedFacts DEF SoundSession, SessionRecord
  <2> QED
    BY <1>1, <2>1, HistoryExtended DEF Appended
<1>2. ASSUME session[w] # None  PROVE session[w] \in SessionRecord(Nat) /\ SoundSession(session[w])
  BY <1>2, DiskFacts DEF Sound
<1>3. CASE SaveAppend(w)
  BY <1>1, <1>2, <1>3 DEF SaveAppend, Appended
<1>4. CASE SaveRewrite(w) \/ CutHistory(w) \/ Delete(w) \/ CrashInFence(w)
  BY <1>4 DEF SaveRewrite, CutHistory, Replaced, Delete, CrashInFence
<1>5. CASE CrashInAppend(w)
  <2>1. PICK s : s = session[w]
    OBVIOUS
  <2>2. /\ s \in SessionRecord(Nat) /\ SoundSession(s) /\ ~MustRewrite(s) /\ s.meta \in Meta
        /\ OldMsgs \in Seq(Nat)
    BY <1>2, <1>5, <2>1, DiskFacts DEF CrashInAppend, SessionRecord
  <2>3. Unsaved(s) \in Seq(Nat)
    BY <2>2, UnsavedFacts DEF SoundSession
  <2>4. ASSUME NEW torn \in BOOLEAN,
               file' = [msgs |-> OldMsgs, meta |-> IF file = None THEN Blank ELSE file.meta,
                        partial |-> torn]
        PROVE  file' # None /\ Range(OldMsgs) \subseteq Range(file'.msgs)
    <3>1. PICK m : m = IF file = None THEN Blank ELSE file.meta
      OBVIOUS
    <3>2. m \in Meta /\ <<>> \in Seq(Nat) /\ OldMsgs = OldMsgs \o <<>>
      BY <2>2, <3>1, SessionAssumption DEF Shape, FileRecord
    <3> QED
      BY <2>4, <3>1, <3>2, HistoryExtended
  <2>5. ASSUME NEW k \in 0..Len(Unsaved(s)), NEW torn \in BOOLEAN,
               file' = [msgs |-> OldMsgs \o SubSeq(Unsaved(s), 1, k), meta |-> s.meta,
                        partial |-> torn]
        PROVE  file' # None /\ Range(OldMsgs) \subseteq Range(file'.msgs)
    <3>1. SubSeq(Unsaved(s), 1, k) \in Seq(Nat)
      BY <2>3, FrontSet
    <3> QED
      BY <2>2, <2>5, <3>1, HistoryExtended
  <2> QED
    BY <1>5, <2>1, <2>4, <2>5 DEF CrashInAppend
<1>6. ASSUME NEW m \in Meta, NewConversation(w, m)
      PROVE  \/ epoch' = Epoch + 1
             \/ epoch' = epoch /\ file' = file
             \/ epoch' = Epoch /\ file' # None /\ Range(OldMsgs) \subseteq Range(file'.msgs)
  <2>1. PICK s : s = [session[w] EXCEPT !.msgs = <<>>, !.meta = m]
    OBVIOUS
  <2>2. session[w] # None
    BY <1>6 DEF NewConversation
  <2>3. s \in SessionRecord(Nat) /\ s.meta \in Meta /\ s.msgs = <<>> /\ s.snap = session[w].snap
        /\ s.persisted = session[w].persisted
    <3>1. session[w] \in SessionRecord(Nat) /\ <<>> \in Seq(Nat)
      BY <1>2, <2>2
    <3> QED
      BY ONLY <2>1, <3>1, m \in Meta DEF SessionRecord
  <2>4. IsInjective(s.msgs) /\ (s.persisted <=> s.snap # None)
    BY <1>2, <2>2, <2>3, EmptySet DEF SoundSession
  <2>5. CASE MustRewrite(s)
    BY <1>6, <2>1, <2>5 DEF NewConversation, Replaced, disk
  <2>6. CASE ~MustRewrite(s)
    <3>1. Unsaved(s) \in Seq(Nat)
      BY <2>3, <2>4, <2>6, UnsavedFacts
    <3>2. CASE Appended(s)
      BY <2>3, <3>1, <3>2, HistoryExtended DEF Appended
    <3> QED
      BY <1>6, <2>1, <2>6, <3>2 DEF NewConversation, disk
  <2> QED
    BY <2>5, <2>6
<1> QED
  BY <1>3, <1>4, <1>5, <1>6

\* The storage epoch never goes back, and messages leave the journal only in a
\* step that advances it: this is why _check_epoch is enough to refuse a writer
\* whose view is older than a clear, an undo or a delete.
THEOREM EpochIsAFence == Spec => EpochFencesHistory
<1> DEFINE Fence ==
      /\ IF epoch' = None THEN Epoch = 0 ELSE epoch' >= Epoch
      /\ ~(Range(OldMsgs) \subseteq (IF file' = None THEN {} ELSE Range(file'.msgs)))
         => epoch' = Epoch + 1
<1>1. StoreInv /\ [Next]_vars => [Fence]_vars
  <2> SUFFICES ASSUME StoreInv, Next PROVE Fence
    BY DEF vars
  <2>1. Epoch \in Nat /\ Epoch # None /\ Epoch + 1 # None
    BY DiskFacts, SessionAssumption DEF StoreInv
  <2>2. file' = file => Range(OldMsgs) = IF file' = None THEN {} ELSE Range(file'.msgs)
    <3>1. Range(<<>>) = {}
      BY EmptySet, RangeIsToSet
    <3> QED
      BY <3>1 DEF OldMsgs
  <2>3. \/ epoch' = Epoch + 1
        \/ epoch' = epoch /\ file' = file
        \/ epoch' = Epoch /\ file' = file
        \/ epoch' = Epoch /\ file' # None /\ Range(OldMsgs) \subseteq Range(file'.msgs)
    <3>1. ASSUME NEW w \in Writer,
                 Open(w) \/ Record(w) \/ Invalidate(w) \/ \E m \in Meta : SetMeta(w, m)
          PROVE  epoch' = epoch /\ file' = file
      BY <3>1 DEF Open, Record, Invalidate, SetMeta, disk
    <3> QED
      BY <3>1, EpochStep DEF Next
  <2>4. IF epoch' = None THEN Epoch = 0 ELSE epoch' >= Epoch
    BY <2>1, <2>3 DEF Epoch
  <2>5. ~(Range(OldMsgs) \subseteq (IF file' = None THEN {} ELSE Range(file'.msgs)))
        => epoch' = Epoch + 1
    BY <2>2, <2>3
  <2> QED
    BY <2>4, <2>5
<1>2. Spec => [][Fence]_vars
  BY <1>1, InitStore, NextStore, PTL DEF Spec
<1> QED
  BY <1>2 DEF EpochFencesHistory
=============================================================================
