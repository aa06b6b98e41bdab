------------------------- MODULE WatchedStoreProofs -------------------------
(***************************************************************************)
(* Lemmas about windows of versions, for the proofs about the controllers. *)
(***************************************************************************)
EXTENDS WatchedStore, Integers, TLAPS

(* Both ends of a window of versions in S are versions in S.               *)
LEMMA WindowEnds ==
  ASSUME NEW S, NEW w \in Seq(S) \ {<<>>}
  PROVE  Cached(w) \in S /\ Current(w) \in S
  BY DEF Cached, Current

(* Writing a version, delivering one and listing anew keep a window a      *)
(* nonempty sequence of versions.                                          *)
LEMMA WindowSteps ==
  ASSUME NEW S, NEW w \in Seq(S) \ {<<>>}, NEW v \in S
  PROVE  /\ Stored(w, v) \in Seq(S) \ {<<>>}
         /\ Lagging(w) => Delivered(w) \in Seq(S) \ {<<>>}
         /\ Relisted(w) \in Seq(S) \ {<<>>}
  <1>1. Stored(w, v) \in Seq(S) \ {<<>>}
    BY DEF Stored
  <1>2. ASSUME Lagging(w) PROVE Delivered(w) \in Seq(S) \ {<<>>}
    <2>1. Tail(w) \in Seq(S) /\ Len(Tail(w)) = Len(w) - 1 /\ Len(w) \in Nat
      OBVIOUS
    <2>2. Len(Tail(w)) > 0
      BY <2>1, <1>2 DEF Lagging
    <2>3. Tail(w) # <<>>
      BY <2>1, <2>2, Len(<<>>) = 0
    <2> QED  BY <2>1, <2>3 DEF Delivered
  <1>3. Relisted(w) \in Seq(S) \ {<<>>}
    BY WindowEnds DEF Relisted
  <1> QED  BY <1>1, <1>2, <1>3

(* The versions in a window: what the cache and the API server hold are    *)
(* among them, storing adds one and makes it the newest, delivering and    *)
(* relisting drop the oldest and keep the newest.                          *)
LEMMA WindowVersions ==
  ASSUME NEW S, NEW w \in Seq(S) \ {<<>>}, NEW v \in S
  PROVE  /\ Cached(w) \in Versions(w) /\ Current(w) \in Versions(w)
         /\ Versions(w) \subseteq S
         /\ Current(Stored(w, v)) = v
         /\ \A x \in Versions(Stored(w, v)) : x = v \/ x \in Versions(w)
         /\ Lagging(w) => /\ Current(Delivered(w)) = Current(w)
                          /\ Versions(Delivered(w)) \subseteq Versions(w)
         /\ Current(Relisted(w)) = Current(w)
         /\ Versions(Relisted(w)) \subseteq Versions(w)
  <1>0. Len(w) \in Nat /\ Len(w) > 0 /\ DOMAIN w = 1..Len(w)
    BY w # <<>>
  <1>1. Cached(w) \in Versions(w) /\ Current(w) \in Versions(w) /\ Versions(w) \subseteq S
    BY <1>0 DEF Cached, Current, Versions
  <1>2. /\ Current(Stored(w, v)) = v
        /\ \A x \in Versions(Stored(w, v)) : x = v \/ x \in Versions(w)
    BY <1>0 DEF Current, Stored, Versions
  <1>3. ASSUME Lagging(w)
        PROVE  /\ Current(Delivered(w)) = Current(w)
               /\ Versions(Delivered(w)) \subseteq Versions(w)
    <2>1. /\ Len(Tail(w)) = Len(w) - 1
          /\ DOMAIN Tail(w) = 1..(Len(w) - 1)
          /\ \A i \in 1..(Len(w) - 1) : Tail(w)[i] = w[i + 1]
      BY <1>0
    <2>2. Len(w) - 1 \in 1..(Len(w) - 1)
      BY <1>0, <1>3 DEF Lagging
    <2>3. \A i \in 1..(Len(w) - 1) : i + 1 \in DOMAIN w
      BY <1>0
    <2> QED  BY <1>0, <2>1, <2>2, <2>3 DEF Current, Delivered, Versions
  <1>4. Current(Relisted(w)) = Current(w) /\ Versions(Relisted(w)) \subseteq Versions(w)
    BY <1>1 DEF Current, Relisted, Versions
  <1> QED  BY <1>1, <1>2, <1>3, <1>4

-----------------------------------------------------------------------------
(* The versions in a window with every later one, and with themselves.     *)
Pairs(w) ==
  {d \in Versions(w) \X Versions(w) :
     \E i, k \in DOMAIN w : i <= k /\ d = <<w[i], w[k]>>}

(* The cache holds the first version, the API server the last; storing one *)
(* puts it after all others, delivering and relisting put none anywhere.   *)
LEMMA WindowPairs ==
  ASSUME NEW S, NEW w \in Seq(S) \ {<<>>}, NEW v \in S
  PROVE  /\ \A x \in Versions(w) : /\ <<x, x>> \in Pairs(w)
                                    /\ <<Cached(w), x>> \in Pairs(w)
                                    /\ <<x, Current(w)>> \in Pairs(w)
         /\ \A d \in Pairs(w) : d = <<d[1], d[2]>> /\ d[1] \in Versions(w) /\ d[2] \in Versions(w)
         /\ \A d \in Pairs(Stored(w, v)) :
              d \in Pairs(w) \/ (\E x \in Versions(w) : d = <<x, v>>) \/ d = <<v, v>>
         /\ Lagging(w) => Pairs(Delivered(w)) \subseteq Pairs(w)
         /\ Pairs(Relisted(w)) \subseteq Pairs(w)
  <1>0. Len(w) \in Nat /\ Len(w) > 0 /\ DOMAIN w = 1..Len(w)
    BY w # <<>>
  <1>1. \A i, k \in DOMAIN w : i <= k => <<w[i], w[k]>> \in Pairs(w)
    BY DEF Pairs, Versions
  <1>2. ASSUME NEW d \in Pairs(w)
        PROVE  \E i, k \in DOMAIN w : i <= k /\ d = <<w[i], w[k]>>
    BY DEF Pairs
  <1>3. ASSUME NEW x \in Versions(w)
        PROVE  /\ <<x, x>> \in Pairs(w)
               /\ <<Cached(w), x>> \in Pairs(w)
               /\ <<x, Current(w)>> \in Pairs(w)
    <2>1. PICK i \in DOMAIN w : x = w[i]
      BY DEF Versions
    <2>2. 1 \in DOMAIN w /\ Len(w) \in DOMAIN w /\ i <= i /\ 1 <= i /\ i <= Len(w)
      BY <1>0
    <2>3. <<w[i], w[i]>> \in Pairs(w) /\ <<w[1], w[i]>> \in Pairs(w) /\ <<w[i], w[Len(w)]>> \in Pairs(w)
      BY <1>1, <2>2
    <2> QED  BY <2>1, <2>3 DEF Cached, Current
  <1>4. ASSUME NEW d \in Pairs(w)
        PROVE  d = <<d[1], d[2]>> /\ d[1] \in Versions(w) /\ d[2] \in Versions(w)
    BY <1>2 DEF Versions
  <1>5. ASSUME NEW d \in Pairs(Stored(w, v))
        PROVE  d \in Pairs(w) \/ (\E x \in Versions(w) : d = <<x, v>>) \/ d = <<v, v>>
    <2> DEFINE s == Append(w, v)
    <2>1. PICK i, k \in DOMAIN s : i <= k /\ d = <<s[i], s[k]>>
      BY DEF Pairs, Stored
    <2>2. /\ DOMAIN s = 1..(Len(w) + 1)
          /\ s[Len(w) + 1] = v
          /\ \A j \in 1..Len(w) : s[j] = w[j]
      BY <1>0
    <2> HIDE DEF s
    <2>3. CASE k = Len(w) + 1 /\ i = Len(w) + 1
      BY <2>1, <2>2, <2>3
    <2>4. CASE k = Len(w) + 1 /\ i # Len(w) + 1
      <3>1. i \in DOMAIN w
        BY <1>0, <2>2, <2>4
      <3>2. w[i] \in Versions(w) /\ s[i] = w[i]
        BY <1>0, <2>2, <3>1 DEF Versions
      <3> QED  BY <2>1, <2>2, <2>4, <3>2
    <2>5. CASE k # Len(w) + 1
      <3>1. i \in DOMAIN w /\ k \in DOMAIN w
        BY <1>0, <2>1, <2>2, <2>5
      <3> QED  BY <1>0, <1>1, <2>1, <2>2, <3>1
    <2> QED  BY <2>3, <2>4, <2>5
  <1>6. ASSUME Lagging(w), NEW d \in Pairs(Delivered(w)) PROVE d \in Pairs(w)
    <2>1. PICK i, k \in DOMAIN Tail(w) : i <= k /\ d = <<Tail(w)[i], Tail(w)[k]>>
      BY DEF Pairs, Delivered
    <2>2. /\ DOMAIN Tail(w) = 1..(Len(w) - 1)
          /\ \A j \in 1..(Len(w) - 1) : Tail(w)[j] = w[j + 1]
      BY <1>0
    <2>3. i + 1 \in DOMAIN w /\ k + 1 \in DOMAIN w /\ i + 1 <= k + 1
      BY <1>0, <2>1, <2>2
    <2> QED  BY <1>1, <2>1, <2>2, <2>3
  <1>7. ASSUME NEW d \in Pairs(Relisted(w)) PROVE d \in Pairs(w)
    <2>1. d = <<Current(w), Current(w)>>
      BY DEF Pairs, Relisted
    <2>2. Current(w) \in Versions(w)
      BY WindowVersions
    <2> QED  BY <1>3, <2>1, <2>2
  <1> QED  BY <1>3, <1>4, <1>5, <1>6, <1>7
=============================================================================
