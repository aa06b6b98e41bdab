----------------------------- MODULE GitOpsProofs -----------------------------
(***************************************************************************)
(* Where the requests of GitOps go, for any set of repositories and any    *)
(* form of their URLs.                                                     *)
(*                                                                         *)
(* What the client keeps of a URL is the path of the repository, perhaps   *)
(* with the "/" after it, or something that no repository is called (a     *)
(* path with a ":" in it, a host "ssh"); and different paths have          *)
(* different requests.                                                     *)
(***************************************************************************)
EXTENDS GitOps, Integers, SequenceTheorems, WellFoundedInduction, TLAPS

(* Strings; those that the client writes are named, since the provers do   *)
(* not know a literal for a string.                                        *)
Written ==
  {"https", ":", "/", "git", "@", "ssh", "user", ".git", "%2F", "repos", "pulls", "api",
   "v4", "projects", "merge_requests", "api.github.com", "github.com", "gitlab.com",
   "ghe.corp"}

Token  == STRING \union Written
Tokens == Seq(Token)

Has(s, x) == \E i \in 1..Len(s) : s[i] = x

-----------------------------------------------------------------------------
(* What the functions of package strings do.                               *)

LEMMA SingleOf ==
  ASSUME NEW S, NEW x \in S
  PROVE  <<x>> \in Seq(S) /\ Len(<<x>>) = 1 /\ <<x>>[1] = x
  OBVIOUS

LEMMA Single ==
  ASSUME NEW x \in Token
  PROVE  <<x>> \in Tokens /\ Len(<<x>>) = 1 /\ <<x>>[1] = x
  BY SingleOf DEF Tokens

LEMMA Cat ==
  ASSUME NEW s \in Tokens, NEW t \in Tokens
  PROVE  /\ s \o t \in Tokens /\ Len(s \o t) = Len(s) + Len(t)
         /\ Len(s) \in Nat /\ Len(t) \in Nat
         /\ \A i \in 1..Len(s) : (s \o t)[i] = s[i]
         /\ \A i \in 1..Len(t) : (s \o t)[Len(s) + i] = t[i]
  <1>1. /\ s \o t \in Tokens /\ Len(s \o t) = Len(s) + Len(t)
        /\ Len(s) \in Nat /\ Len(t) \in Nat
        /\ \A i \in 1..Len(s) + Len(t) :
              (s \o t)[i] = IF i <= Len(s) THEN s[i] ELSE t[i - Len(s)]
    BY ConcatProperties, LenProperties DEF Tokens
  <1>2. ASSUME NEW i \in 1..Len(t) PROVE (s \o t)[Len(s) + i] = t[i]
    <2>1. Len(s) + i \in 1..Len(s) + Len(t) /\ ~(Len(s) + i <= Len(s)) /\ (Len(s) + i) - Len(s) = i
      BY <1>1
    <2> QED  BY <1>1, <2>1
  <1> QED  BY <1>1, <1>2

LEMMA Sub ==
  ASSUME NEW s \in Tokens, NEW m \in 1..Len(s) + 1, NEW n \in m - 1..Len(s)
  PROVE  /\ SubSeq(s, m, n) \in Tokens /\ Len(SubSeq(s, m, n)) = n - m + 1
         /\ \A i \in 1..n - m + 1 : SubSeq(s, m, n)[i] = s[m + i - 1]
  <1>1. Len(s) \in Nat /\ \A i \in m..n : s[i] \in Token
    BY LenProperties, ElementOfSeq DEF Tokens
  <1> QED  BY <1>1, SubSeqProperties DEF Tokens

LEMMA Same ==
  ASSUME NEW s \in Tokens, NEW t \in Tokens, Len(s) = Len(t),
         \A i \in 1..Len(s) : s[i] = t[i]
  PROVE  s = t
  BY SeqEqual DEF Tokens

LEMMA Reversed ==
  ASSUME NEW s \in Tokens
  PROVE  /\ Reverse(s) \in Tokens /\ Len(Reverse(s)) = Len(s)
         /\ Len(s) >= 1 => Reverse(s)[1] = s[Len(s)]
  <1>1. Len(s) \in Nat /\ \A i \in 1..Len(s) : s[i] \in Token
    BY LenProperties, ElementOfSeq DEF Tokens
  <1> DEFINE f == [i \in 1..Len(s) |-> s[Len(s) - i + 1]]
  <1>2. f \in Seq(Token)
    BY <1>1
  <1>3. Len(f) = Len(s)
    BY <1>1
  <1>4. Reverse(s) = f
    BY DEF Reverse
  <1>5. Len(s) >= 1 => f[1] = s[Len(s)]
    <2>1. Len(s) - 1 + 1 = Len(s) /\ (Len(s) >= 1 => 1 \in 1..Len(s))
      BY <1>1
    <2>2. Len(s) >= 1 => f[1] = s[Len(s) - 1 + 1]
      BY <2>1
    <2> QED  BY <2>1, <2>2
  <1> HIDE DEF f
  <1> QED  BY <1>2, <1>3, <1>4, <1>5 DEF Tokens

LEMMA Prefixed ==
  ASSUME NEW p \in Tokens, NEW s \in Tokens
  PROVE  IsPrefix(p, p \o s) /\ TrimPrefix(p \o s, p) = s
  <1>1. /\ p \o s \in Tokens /\ Len(p \o s) = Len(p) + Len(s)
        /\ Len(p) \in Nat /\ Len(s) \in Nat
    BY ConcatProperties, LenProperties DEF Tokens
  <1>2. SubSeq(p \o s, 1, Len(p)) = SubSeq(p, 1, Len(p))
    <2>1. CASE Len(p) = 0
      BY <2>1
    <2>2. CASE Len(p) > 0
      BY <1>1, <2>2, SubSeqOfConcat1 DEF Tokens
    <2> QED  BY <1>1, <2>1, <2>2
  <1>3. IsPrefix(p, p \o s)
    BY <1>1, <1>2 DEF IsPrefix
  <1>4. SubSeq(p \o s, Len(p) + 1, Len(p \o s)) = s
    <2>1. CASE Len(s) = 0
      BY <1>1, <2>1, SubSeqEmpty, EmptySeq DEF Tokens
    <2>2. CASE Len(s) > 0
      <3>1. SubSeq(p \o s, Len(p) + 1, Len(p) + Len(s)) = SubSeq(s, 1, Len(s))
        BY <1>1, <2>2, SubSeqOfConcat2 DEF Tokens
      <3> QED  BY <1>1, <3>1, SubSeqFull DEF Tokens
    <2> QED  BY <1>1, <2>1, <2>2
  <1> QED  BY <1>3, <1>4 DEF TrimPrefix

(* A prefix with a token that s has not, or has not at that place, is no   *)
(* prefix of s.                                                            *)
LEMMA NotPrefixed ==
  ASSUME NEW p \in Tokens, NEW s \in Tokens, NEW i \in 1..Len(p),
         i \in 1..Len(s) => s[i] # p[i]
  PROVE  ~IsPrefix(p, s) /\ TrimPrefix(s, p) = s
  <1>1. Len(p) \in Nat /\ Len(s) \in Nat
    BY LenProperties DEF Tokens
  <1>2. ASSUME IsPrefix(p, s) PROVE FALSE
    <2>1. i \in 1..Len(s) /\ SubSeq(p, 1, Len(p)) = SubSeq(s, 1, Len(p))
      BY <1>1, <1>2 DEF IsPrefix
    <2>2. SubSeq(p, 1, Len(p))[i] = p[i] /\ SubSeq(s, 1, Len(p))[i] = s[i]
      BY <1>1
    <2> QED  BY <2>1, <2>2
  <1> QED  BY <1>2 DEF TrimPrefix

LEMMA Suffixed ==
  ASSUME NEW s \in Tokens, NEW x \in Token
  PROVE  TrimSuffix(s \o <<x>>, <<x>>) = s
  <1> DEFINE u == s \o <<x>>
             w == <<x>>
  <1>1. w \in Tokens /\ Len(w) = 1 /\ w[1] = x
    BY Single
  <1>2. /\ u \in Tokens /\ Len(u) = Len(s) + 1 /\ Len(s) \in Nat
        /\ \A i \in 1..Len(s) : u[i] = s[i]
        /\ u[Len(s) + 1] = x
    <2>0. u = s \o w
      OBVIOUS
    <2> HIDE DEF u, w
    <2>1. /\ u \in Tokens /\ Len(u) = Len(s) + Len(w) /\ Len(s) \in Nat
          /\ \A i \in 1..Len(s) : u[i] = s[i]
          /\ \A i \in 1..Len(w) : u[Len(s) + i] = w[i]
      BY <1>1, <2>0, Cat
    <2>2. 1 \in 1..Len(w)
      BY <1>1
    <2> QED  BY <1>1, <2>1, <2>2
  <1> HIDE DEF u, w
  <1>3. IsSuffix(w, u)
    <2>1. /\ Reverse(w) \in Tokens /\ Len(Reverse(w)) = 1 /\ Reverse(w)[1] = x
          /\ Reverse(u) \in Tokens /\ Len(Reverse(u)) = Len(u) /\ Reverse(u)[1] = x
      <3>1. Len(u) \in Nat /\ u[Len(u)] = x /\ Len(u) >= 1
        BY <1>2
      <3>2. Reverse(w) \in Tokens /\ Len(Reverse(w)) = 1 /\ Reverse(w)[1] = w[1]
        <4>1. Len(w) >= 1 /\ w[Len(w)] = w[1]
          BY <1>1
        <4> QED  BY <1>1, <4>1, Reversed
      <3>3. Reverse(u) \in Tokens /\ Len(Reverse(u)) = Len(u) /\ Reverse(u)[1] = u[Len(u)]
        BY <1>2, <3>1, Reversed
      <3> QED  BY <1>1, <3>1, <3>2, <3>3
    <2>2. SubSeq(Reverse(w), 1, 1) = SubSeq(Reverse(u), 1, 1)
      <3>1. \A v \in Tokens : Len(v) >= 1 =>
              SubSeq(v, 1, 1) \in Tokens /\ Len(SubSeq(v, 1, 1)) = 1 /\ SubSeq(v, 1, 1)[1] = v[1]
        <4> SUFFICES ASSUME NEW v \in Tokens, Len(v) >= 1
            PROVE  SubSeq(v, 1, 1) \in Tokens /\ Len(SubSeq(v, 1, 1)) = 1 /\ SubSeq(v, 1, 1)[1] = v[1]
          OBVIOUS
        <4>1. Len(v) \in Nat
          BY LenProperties DEF Tokens
        <4> QED  BY <4>1, Sub
      <3>2. Len(Reverse(u)) >= 1
        BY <1>2, <2>1
      <3>3. \A i \in 1..1 : SubSeq(Reverse(w), 1, 1)[i] = SubSeq(Reverse(u), 1, 1)[i]
        <4>1. SubSeq(Reverse(w), 1, 1)[1] = SubSeq(Reverse(u), 1, 1)[1]
          <5>1. SubSeq(Reverse(w), 1, 1)[1] = Reverse(w)[1]
            BY <2>1, <3>1
          <5>2. SubSeq(Reverse(u), 1, 1)[1] = Reverse(u)[1]
            BY <2>1, <3>1, <3>2
          <5> QED  BY <2>1, <5>1, <5>2
        <4> QED  BY <4>1
      <3> QED  BY <2>1, <3>1, <3>2, <3>3, Same
    <2> QED  BY <1>2, <2>1, <2>2 DEF IsSuffix, IsPrefix
  <1>4. SubSeq(u, 1, Len(u) - 1) = s
    <2> DEFINE v == SubSeq(u, 1, Len(s))
    <2>1. v \in Tokens /\ Len(v) = Len(s) /\ \A i \in 1..Len(s) : v[i] = u[1 + i - 1]
      BY <1>2, Sub
    <2>2. \A i \in 1..Len(s) : v[i] = s[i]
      BY <1>2, <2>1
    <2>3. Len(u) - 1 = Len(s)
      BY <1>2
    <2> HIDE DEF v
    <2>4. v = s
      BY <2>1, <2>2, Same
    <2> QED  BY <2>3, <2>4 DEF v
  <1>5. TrimSuffix(u, w) = s
    BY <1>1, <1>2, <1>3, <1>4 DEF TrimSuffix
  <1> QED  BY <1>5 DEF u, w

LEMMA NotSuffixed ==
  ASSUME NEW s \in Tokens, NEW x \in Token, Len(s) > 0, s[Len(s)] # x
  PROVE  TrimSuffix(s, <<x>>) = s
  <1>1. /\ Reverse(<<x>>) = <<x>> /\ Len(Reverse(s)) = Len(s) /\ Reverse(s)[1] = s[Len(s)]
        /\ Len(s) \in Nat
    BY DEF Reverse, Tokens
  <1>2. SubSeq(Reverse(s), 1, 1)[1] = s[Len(s)] /\ SubSeq(<<x>>, 1, 1)[1] = x
    BY <1>1
  <1> QED  BY <1>1, <1>2 DEF TrimSuffix, IsSuffix, IsPrefix

(* A sequence with a given first and a given last part.                    *)
LEMMA Joined ==
  ASSUME NEW a \in Tokens, NEW b \in Tokens, NEW c \in Tokens
  PROVE  (a \o b) \o c = a \o (b \o c) /\ a \o (b \o c) \in Tokens
  BY ConcatAssociative, ConcatProperties DEF Tokens

LEMMA Cancelled ==
  ASSUME NEW a \in Tokens, NEW b \in Tokens, NEW c \in Tokens
  PROVE  /\ a \o b = a \o c => b = c
         /\ b \o a = c \o a => b = c
  <1>1. ASSUME a \o b = a \o c PROVE b = c
    <2>1. /\ Len(a \o b) = Len(a) + Len(b) /\ Len(a) \in Nat /\ Len(b) \in Nat
          /\ \A i \in 1..Len(b) : (a \o b)[Len(a) + i] = b[i]
      BY Cat
    <2>2. /\ Len(a \o c) = Len(a) + Len(c) /\ Len(c) \in Nat
          /\ \A i \in 1..Len(c) : (a \o c)[Len(a) + i] = c[i]
      BY Cat
    <2>3. Len(b) = Len(c)
      BY <1>1, <2>1, <2>2
    <2>4. \A i \in 1..Len(b) : b[i] = c[i]
      BY <1>1, <2>1, <2>2, <2>3
    <2> QED  BY <2>3, <2>4, Same
  <1>2. ASSUME b \o a = c \o a PROVE b = c
    <2>1. /\ Len(b \o a) = Len(b) + Len(a) /\ Len(a) \in Nat /\ Len(b) \in Nat
          /\ \A i \in 1..Len(b) : (b \o a)[i] = b[i]
      BY Cat
    <2>2. /\ Len(c \o a) = Len(c) + Len(a) /\ Len(c) \in Nat
          /\ \A i \in 1..Len(c) : (c \o a)[i] = c[i]
      BY Cat
    <2>3. Len(b) = Len(c)
      BY <1>2, <2>1, <2>2
    <2>4. \A i \in 1..Len(b) : b[i] = c[i]
      BY <1>2, <2>1, <2>2, <2>3
    <2> QED  BY <2>3, <2>4, Same
  <1> QED  BY <1>1, <1>2

-----------------------------------------------------------------------------
(* The first separator.                                                    *)

(* Sets of natural numbers have a least element.                           *)
LEMMA LeastOf ==
  ASSUME NEW T \in SUBSET Nat, T # {}
  PROVE  Min(T) \in T /\ \A y \in T : Min(T) <= y
  <1> DEFINE R == OpToRel(<, Nat)
  <1>1. IsWellFoundedOn(R, Nat)
    BY NatLessThanWellFounded
  <1>2. PICK x \in T : \A y \in T : <<y, x>> \notin R
    <2> HIDE DEF R
    <2> QED  BY <1>1, WFMin
  <1>3. \A y \in T : y < x => <<y, x>> \in R
    BY DEF OpToRel
  <1> HIDE DEF R
  <1>4. \A y \in T : x <= y
    <2> SUFFICES ASSUME NEW y \in T PROVE x <= y
      OBVIOUS
    <2>1. x \in Nat /\ y \in Nat /\ ~(y < x)
      BY <1>2, <1>3
    <2> QED  BY <2>1
  <1> QED  BY <1>4 DEF Min

(* Where SplitN2 looks.                                                    *)
First(s, sep) ==
  LET I == {i \in 1..Len(s) : s[i] = sep}
  IN  IF I # {} THEN Min(I) ELSE 0

LEMMA SplitFirst ==
  ASSUME NEW s, NEW sep
  PROVE  SplitN2(s, sep) =
           IF First(s, sep) = 0 THEN <<s>>
           ELSE <<SubSeq(s, 1, First(s, sep) - 1), SubSeq(s, First(s, sep) + 1, Len(s))>>
  BY DEF SplitN2, SelectInSeq, First

LEMMA FirstOf ==
  ASSUME NEW s \in Tokens, NEW sep
  PROVE  \/ First(s, sep) = 0 /\ ~Has(s, sep)
         \/ /\ First(s, sep) \in 1..Len(s) /\ s[First(s, sep)] = sep
            /\ \A i \in 1..First(s, sep) - 1 : s[i] # sep
  <1> DEFINE I == {i \in 1..Len(s) : s[i] = sep}
             k == First(s, sep)
  <1>1. k = IF I # {} THEN Min(I) ELSE 0
    BY DEF First
  <1>2. Len(s) \in Nat
    BY LenProperties DEF Tokens
  <1>3. CASE I = {}
    BY <1>1, <1>3 DEF Has
  <1>4. CASE I # {}
    <2>1. k \in I /\ \A y \in I : k <= y
      <3>1. I \in SUBSET Nat
        BY <1>2
      <3> HIDE DEF k, I
      <3> QED  BY <1>1, <1>4, <3>1, LeastOf
    <2> HIDE DEF k
    <2>2. k \in 1..Len(s) /\ s[k] = sep
      BY <2>1
    <2>3. ASSUME NEW i \in 1..k - 1, s[i] = sep PROVE FALSE
      <3>1. i \in 1..Len(s) /\ ~(k <= i)
        BY <1>2, <2>2
      <3> QED  BY <2>1, <2>3, <3>1
    <2> QED  BY <2>2, <2>3 DEF k
  <1> QED  BY <1>3, <1>4

(* A split is at the first separator, and puts together gives the whole.   *)
LEMMA SplitAt ==
  ASSUME NEW s \in Tokens, NEW sep, NEW k \in 1..Len(s), s[k] = sep,
         \A i \in 1..k - 1 : s[i] # sep
  PROVE  SplitN2(s, sep) = <<SubSeq(s, 1, k - 1), SubSeq(s, k + 1, Len(s))>>
  <1> DEFINE j == First(s, sep)
  <1>1. Len(s) \in Nat
    BY LenProperties DEF Tokens
  <1>2. \/ j = 0 /\ ~Has(s, sep)
        \/ j \in 1..Len(s) /\ s[j] = sep /\ \A i \in 1..j - 1 : s[i] # sep
    BY FirstOf
  <1>3. SplitN2(s, sep) = IF j = 0 THEN <<s>>
                          ELSE <<SubSeq(s, 1, j - 1), SubSeq(s, j + 1, Len(s))>>
    BY SplitFirst
  <1> HIDE DEF j
  <1>4. j # 0
    BY <1>2 DEF Has
  <1>5. ~(j < k) /\ ~(k < j)
    <2>1. j \in Int /\ k \in Int
      BY <1>1, <1>2, <1>4
    <2>2. j < k => j \in 1..k - 1
      BY <1>1, <1>2, <1>4
    <2>3. k < j => k \in 1..j - 1
      BY <1>1, <1>2, <1>4
    <2> QED  BY <1>2, <1>4, <2>2, <2>3
  <1>6. j = k
    BY <1>1, <1>2, <1>4, <1>5
  <1> QED  BY <1>3, <1>4, <1>6

LEMMA SplitParts ==
  ASSUME NEW s \in Tokens, NEW sep \in Token
  PROVE  \/ SplitN2(s, sep) = <<s>> /\ ~Has(s, sep)
         \/ \E a \in Tokens, b \in Tokens :
               SplitN2(s, sep) = <<a, b>> /\ s = (a \o <<sep>>) \o b
  <1> DEFINE k == First(s, sep)
  <1>1. Len(s) \in Nat
    BY LenProperties DEF Tokens
  <1>2. \/ k = 0 /\ ~Has(s, sep)
        \/ k \in 1..Len(s) /\ s[k] = sep /\ \A i \in 1..k - 1 : s[i] # sep
    BY FirstOf
  <1>3. CASE k = 0
    <2>1. ~Has(s, sep)
      BY <1>1, <1>2, <1>3
    <2> QED  BY <1>3, <2>1, SplitFirst
  <1>4. CASE k # 0
    <2> HIDE DEF k
    <2> DEFINE a == SubSeq(s, 1, k - 1)
               b == SubSeq(s, k + 1, Len(s))
    <2>1. SplitN2(s, sep) = <<a, b>>
      BY <1>2, <1>4, SplitAt
    <2>2. /\ a \in Tokens /\ Len(a) = k - 1 /\ b \in Tokens
      <3>1. 1 \in 1..Len(s) + 1 /\ k - 1 \in 1 - 1..Len(s) /\ (k - 1) - 1 + 1 = k - 1
        BY <1>1, <1>2, <1>4
      <3>2. k + 1 \in 1..Len(s) + 1 /\ Len(s) \in (k + 1) - 1..Len(s)
        BY <1>1, <1>2, <1>4
      <3>3. a \in Tokens /\ Len(a) = k - 1
        BY <3>1, Sub
      <3>4. b \in Tokens
        BY <3>2, Sub
      <3> QED  BY <3>3, <3>4
    <2>3. (a \o <<sep>>) \o b = s
      <3>1. SubSeq(s, 1, k) = SubSeq(s, 1, k - 1) \o <<s[k]>>
        <4>1. 1 \in 1..Len(s) /\ k \in 1..Len(s)
          BY <1>1, <1>2, <1>4
        <4> QED  BY <4>1, SubSeqRecursiveSecond DEF Tokens
      <3>2. SubSeq(s, 1, k) \o SubSeq(s, k + 1, Len(s)) = SubSeq(s, 1, Len(s))
        <4>1. k \in 1 - 1..Len(s) /\ 1 \in 1..Len(s) + 1 /\ Len(s) \in k..Len(s)
          BY <1>1, <1>2, <1>4
        <4> QED  BY <4>1, ConcatAdjacentSubSeq DEF Tokens
      <3>3. SubSeq(s, 1, Len(s)) = s
        BY SubSeqFull DEF Tokens
      <3> QED  BY <1>2, <1>4, <3>1, <3>2, <3>3
    <2> QED  BY <2>1, <2>2, <2>3
  <1> QED  BY <1>3, <1>4

(* The separator is the last token of the first part.                      *)
LEMMA SplitAfter ==
  ASSUME NEW a \in Tokens, NEW p \in Tokens, Len(a) >= 1,
         \A i \in 1..Len(a) - 1 : a[i] # a[Len(a)]
  PROVE  SplitN2(a \o p, a[Len(a)]) = <<SubSeq(a, 1, Len(a) - 1), p>>
  <1> DEFINE s == a \o p
             k == Len(a)
  <1>1. /\ s \in Tokens /\ Len(s) = k + Len(p) /\ k \in Nat /\ Len(p) \in Nat
        /\ \A i \in 1..k : s[i] = a[i]
    BY Cat
  <1>2. SubSeq(s, 1, k - 1) = SubSeq(a, 1, k - 1)
    <2> DEFINE u == SubSeq(s, 1, k - 1)
               v == SubSeq(a, 1, k - 1)
    <2> HIDE DEF s, k
    <2>0. /\ 1 \in 1..Len(s) + 1 /\ k - 1 \in 1 - 1..Len(s) /\ (k - 1) - 1 + 1 = k - 1
          /\ 1 \in 1..Len(a) + 1 /\ k - 1 \in 1 - 1..Len(a)
      BY <1>1 DEF k
    <2>1. u \in Tokens /\ Len(u) = k - 1 /\ \A i \in 1..k - 1 : u[i] = s[1 + i - 1]
      <3>1. /\ u \in Tokens /\ Len(u) = (k - 1) - 1 + 1
            /\ \A i \in 1..(k - 1) - 1 + 1 : u[i] = s[1 + i - 1]
        BY <1>1, <2>0, Sub
      <3> QED  BY <2>0, <3>1
    <2>2. v \in Tokens /\ Len(v) = k - 1 /\ \A i \in 1..k - 1 : v[i] = a[1 + i - 1]
      <3>1. /\ v \in Tokens /\ Len(v) = (k - 1) - 1 + 1
            /\ \A i \in 1..(k - 1) - 1 + 1 : v[i] = a[1 + i - 1]
        BY <2>0, Sub
      <3> QED  BY <2>0, <3>1
    <2>3. \A i \in 1..k - 1 : 1 + i - 1 = i /\ i \in 1..k
      BY <1>1
    <2> HIDE DEF u, v
    <2>4. \A i \in 1..k - 1 : u[i] = v[i]
      BY <1>1, <2>1, <2>2, <2>3
    <2>5. u = v
      BY <2>1, <2>2, <2>4, Same
    <2> QED  BY <2>5 DEF u, v
  <1>3. SubSeq(s, k + 1, Len(s)) = p
    <2>1. IsPrefix(a, s) /\ TrimPrefix(s, a) = p
      BY Prefixed
    <2> QED  BY <2>1 DEF TrimPrefix
  <1>4. SplitN2(s, a[k]) = <<SubSeq(s, 1, k - 1), SubSeq(s, k + 1, Len(s))>>
    <2>1. k \in 1..Len(s) /\ \A i \in 1..k - 1 : i \in 1..k
      BY <1>1
    <2> HIDE DEF s, k
    <2>2. s[k] = a[k] /\ \A i \in 1..k - 1 : s[i] # a[k]
      BY <1>1, <2>1 DEF k
    <2> QED  BY <1>1, <2>1, <2>2, SplitAt
  <1> QED  BY <1>2, <1>3, <1>4

-----------------------------------------------------------------------------
(* The parts of a URL.                                                     *)

LEMMA PairOf ==
  ASSUME NEW S, NEW a \in S, NEW b \in S
  PROVE  /\ <<a, b>> \in Seq(S) /\ Len(<<a, b>>) = 2
         /\ <<a, b>>[1] = a /\ <<a, b>>[2] = b
  OBVIOUS

LEMMA TripleOf ==
  ASSUME NEW S, NEW a \in S, NEW b \in S, NEW c \in S
  PROVE  <<a, b, c>> \in Seq(S)
  OBVIOUS

LEMMA FourOf ==
  ASSUME NEW S, NEW a \in S, NEW b \in S, NEW c \in S, NEW d \in S
  PROVE  /\ <<a, b, c, d>> \in Seq(S) /\ Len(<<a, b, c, d>>) = 4
         /\ <<a, b, c, d>>[1] = a /\ <<a, b, c, d>>[2] = b
         /\ <<a, b, c, d>>[3] = c /\ <<a, b, c, d>>[4] = d
  OBVIOUS

LEMMA EightOf ==
  ASSUME NEW S, NEW a \in S, NEW b \in S, NEW c \in S, NEW d \in S,
         NEW e \in S, NEW f \in S, NEW g \in S, NEW h \in S
  PROVE  /\ <<a, b, c, d, e, f, g, h>> \in Seq(S) /\ Len(<<a, b, c, d, e, f, g, h>>) = 8
         /\ <<a, b, c, d, e, f, g, h>>[1] = a /\ <<a, b, c, d, e, f, g, h>>[2] = b
  OBVIOUS

LEMMA Literals == Written \subseteq Token
  BY DEF Token

LEMMA HttpsIs ==
  /\ https \in Tokens /\ Len(https) = 4
  /\ https[1] = "https" /\ https[2] = ":"
  BY FourOf, Literals DEF Written, https, Tokens

(* What comes before the host's path, and the path, for the URLs without   *)
(* a suffix.                                                               *)
Bare(form) ==
  CASE form = "https.git" -> "https"
    [] form = "scp.git"   -> "scp"
    [] OTHER              -> form

Address(host, form) ==
  CASE form = "scp"  -> <<"git", "@", host, ":">>
    [] form = "ssh"  -> <<"ssh", ":", "/", "/", "git", "@", host, "/">>
    [] form = "user" -> https \o <<"user", "@", host, "/">>
    [] OTHER         -> https \o <<host, "/">>

Rear(path, form) == IF form = "slash" THEN path \o <<"/">> ELSE path

LEMMA WebFront ==
  ASSUME NEW h \in Token, NEW form, form \notin {"scp", "ssh", "user"}
  PROVE  /\ Address(h, form) = https \o <<h, "/">>
         /\ Address(h, form) \in Tokens /\ Len(Address(h, form)) = 6
         /\ Address(h, form)[1] = "https" /\ Address(h, form)[2] = ":"
         /\ Address(h, form)[5] = h /\ Address(h, form)[6] = "/"
         /\ <<h, "/">> \in Tokens
  <1> DEFINE b == <<h, "/">>
             f == https \o b
  <1>1. Address(h, form) = f
    BY DEF Address
  <1>2. b \in Tokens /\ Len(b) = 2 /\ b[1] = h /\ b[2] = "/"
    BY PairOf, Literals DEF Written, Tokens
  <1> HIDE DEF b
  <1>3. /\ f \in Tokens /\ Len(f) = Len(https) + Len(b)
        /\ \A i \in 1..Len(https) : f[i] = https[i]
        /\ \A i \in 1..Len(b) : f[Len(https) + i] = b[i]
    BY <1>2, HttpsIs, Cat
  <1> HIDE DEF f
  <1>4. f[1] = "https" /\ f[2] = ":"
    BY <1>3, HttpsIs
  <1>5. f[4 + 1] = h /\ f[4 + 2] = "/"
    BY <1>2, <1>3, HttpsIs
  <1>6. f \in Tokens /\ Len(f) = 6 /\ f[5] = h /\ f[6] = "/"
    BY <1>2, <1>3, <1>5, HttpsIs
  <1> QED  BY <1>1, <1>2, <1>4, <1>6 DEF b, f

LEMMA HttpsFront ==
  ASSUME NEW h \in Token
  PROVE  /\ Address(h, "https") = https \o <<h, "/">>
         /\ Address(h, "https") \in Tokens /\ Len(Address(h, "https")) = 6
         /\ Address(h, "https")[1] = "https" /\ Address(h, "https")[2] = ":"
         /\ Address(h, "https")[5] = h
  <1>1. "https" \notin {"scp", "ssh", "user"}
    OBVIOUS
  <1> QED  BY <1>1, WebFront

LEMMA UserFront ==
  ASSUME NEW h \in Token
  PROVE  /\ Address(h, "user") = https \o <<"user", "@", h, "/">>
         /\ Address(h, "user") \in Tokens /\ Len(Address(h, "user")) = 8
         /\ Address(h, "user")[1] = "https" /\ Address(h, "user")[2] = ":"
         /\ Address(h, "user")[5] = "user"
         /\ <<"user", "@", h, "/">> \in Tokens /\ Len(<<"user", "@", h, "/">>) = 4
         /\ <<"user", "@", h, "/">>[1] = "user" /\ <<"user", "@", h, "/">>[2] = "@"
         /\ <<"user", "@", h, "/">>[3] = h /\ <<"user", "@", h, "/">>[4] = "/"
  <1> DEFINE b == <<"user", "@", h, "/">>
             f == https \o b
  <1>1. Address(h, "user") = f
    BY DEF Address
  <1>2. /\ b \in Tokens /\ Len(b) = 4
        /\ b[1] = "user" /\ b[2] = "@" /\ b[3] = h /\ b[4] = "/"
    BY FourOf, Literals DEF Written, Tokens
  <1> HIDE DEF b
  <1>3. /\ f \in Tokens /\ Len(f) = Len(https) + Len(b)
        /\ \A i \in 1..Len(https) : f[i] = https[i]
        /\ \A i \in 1..Len(b) : f[Len(https) + i] = b[i]
    BY <1>2, HttpsIs, Cat
  <1> HIDE DEF f
  <1>4. f[1] = "https" /\ f[2] = ":"
    BY <1>3, HttpsIs
  <1>5. f[4 + 1] = "user"
    BY <1>2, <1>3, HttpsIs
  <1>6. f \in Tokens /\ Len(f) = 8 /\ f[5] = "user"
    BY <1>2, <1>3, <1>5, HttpsIs
  <1> QED  BY <1>1, <1>2, <1>4, <1>6 DEF b, f

LEMMA ScpFront ==
  ASSUME NEW h \in Token
  PROVE  /\ Address(h, "scp") = <<"git", "@", h, ":">>
         /\ Address(h, "scp") \in Tokens /\ Len(Address(h, "scp")) = 4
         /\ Address(h, "scp")[1] = "git" /\ Address(h, "scp")[2] = "@"
         /\ Address(h, "scp")[3] = h /\ Address(h, "scp")[4] = ":"
  <1> DEFINE a == <<"git", "@", h, ":">>
  <1>1. Address(h, "scp") = a
    BY DEF Address
  <1>2. a \in Tokens /\ Len(a) = 4 /\ a[1] = "git" /\ a[2] = "@" /\ a[3] = h /\ a[4] = ":"
    BY FourOf, Literals DEF Written, Tokens
  <1> HIDE DEF a
  <1>3. /\ Address(h, "scp") \in Tokens /\ Len(Address(h, "scp")) = 4
        /\ Address(h, "scp")[1] = "git" /\ Address(h, "scp")[2] = "@"
        /\ Address(h, "scp")[3] = h /\ Address(h, "scp")[4] = ":"
    BY <1>1, <1>2
  <1> QED  BY <1>1, <1>3 DEF a

LEMMA SshFront ==
  ASSUME NEW h \in Token
  PROVE  /\ Address(h, "ssh") = <<"ssh", ":", "/", "/", "git", "@", h, "/">>
         /\ Address(h, "ssh") \in Tokens /\ Len(Address(h, "ssh")) = 8
         /\ Address(h, "ssh")[1] = "ssh" /\ Address(h, "ssh")[2] = ":"
  <1> DEFINE a == <<"ssh", ":", "/", "/", "git", "@", h, "/">>
  <1>1. Address(h, "ssh") = a
    BY DEF Address
  <1>2. a \in Tokens /\ Len(a) = 8 /\ a[1] = "ssh" /\ a[2] = ":"
    BY EightOf, Literals DEF Written, Tokens
  <1> HIDE DEF a
  <1>3. /\ Address(h, "ssh") \in Tokens /\ Len(Address(h, "ssh")) = 8
        /\ Address(h, "ssh")[1] = "ssh" /\ Address(h, "ssh")[2] = ":"
    BY <1>1, <1>2
  <1> QED  BY <1>1, <1>3 DEF a

(* What a repository's name is made of.                                    *)
LEMMA RepositoryIs ==
  ASSUME NEW r, IsRepository(r)
  PROVE  /\ r = Repository(r.host, r.path)
         /\ r.host \in Token /\ r.host \in {"github.com", "gitlab.com", "ghe.corp"}
         /\ r.path \in Tokens /\ Len(r.path) \in Nat /\ Len(r.path) >= 1
         /\ \A i \in 1..Len(r.path) : r.path[i] \notin {":", "@", ".git", "%2F"}
         /\ Has(r.path, "/") /\ r.path[Len(r.path)] # "/"
  <1>1. r.host \in {"github.com", "gitlab.com", "ghe.corp"}
    BY DEF IsRepository, Kind
  <1>2. r.path \in Tokens
    <2>1. r.path \in Seq(STRING) /\ STRING \subseteq Token
      BY DEF IsRepository, Token
    <2> QED  BY <2>1, SeqMonotonic DEF Tokens
  <1>3. Len(r.path) \in Nat /\ DOMAIN r.path = 1..Len(r.path)
    BY <1>2, LenProperties DEF Tokens
  <1>4. /\ \A i \in 1..Len(r.path) : r.path[i] \notin {":", "@", ".git", "%2F"}
        /\ Has(r.path, "/")
    BY <1>3 DEF IsRepository, Has
  <1>5. Len(r.path) >= 1
    BY <1>3, <1>4 DEF Has
  <1> QED  BY <1>1, <1>2, <1>3, <1>4, <1>5, Literals DEF Written, IsRepository, Last

LEMMA RearIs ==
  ASSUME NEW r, IsRepository(r), NEW form
  PROVE  LET w == Rear(r.path, form) IN
         /\ w \in Tokens /\ Len(w) \in Nat /\ Len(w) >= 1
         /\ \A i \in 1..Len(w) : w[i] \notin {":", "@", ".git", "%2F"}
         /\ w # r.path => w[Len(w)] = "/"
  <1> DEFINE p == r.path
             w == p \o <<"/">>
  <1>1. /\ p \in Tokens /\ Len(p) \in Nat /\ Len(p) >= 1
        /\ \A i \in 1..Len(p) : p[i] \notin {":", "@", ".git", "%2F"}
    BY RepositoryIs
  <1>2. <<"/">> \in Tokens /\ Len(<<"/">>) = 1 /\ <<"/">>[1] = "/"
    BY Single, Literals DEF Written
  <1> HIDE DEF p
  <1>3. /\ w \in Tokens /\ Len(w) = Len(p) + 1
        /\ \A i \in 1..Len(p) : w[i] = p[i]
        /\ w[Len(p) + 1] = "/"
    BY <1>1, <1>2, Cat
  <1> HIDE DEF w
  <1>4. \A i \in 1..Len(w) : w[i] \notin {":", "@", ".git", "%2F"}
    <2> SUFFICES ASSUME NEW i \in 1..Len(w) PROVE w[i] \notin {":", "@", ".git", "%2F"}
      OBVIOUS
    <2>1. i \in 1..Len(p) \/ i = Len(p) + 1
      BY <1>1, <1>3
    <2> QED  BY <1>1, <1>3, <2>1
  <1>5. CASE form = "slash"
    <2>1. Rear(r.path, form) = w
      BY <1>5 DEF Rear, w, p
    <2>2. Len(w) \in Nat /\ Len(w) >= 1 /\ w[Len(w)] = "/"
      BY <1>1, <1>3
    <2> QED  BY <1>3, <1>4, <2>1, <2>2
  <1>6. CASE form # "slash"
    <2>1. Rear(r.path, form) = p
      BY <1>6 DEF Rear, p
    <2> QED  BY <1>1, <2>1 DEF p
  <1> QED  BY <1>5, <1>6

(* Without its suffix, a URL is that of the bare form.                     *)
LEMMA BareURL ==
  ASSUME NEW r, IsRepository(r), NEW form \in Forms
  PROVE  TrimSuffix(URL(r, form), <<".git">>) = Address(r.host, Bare(form)) \o Rear(r.path, Bare(form))
  <1> DEFINE a == Address(r.host, Bare(form))
             w == Rear(r.path, Bare(form))
             u == a \o w
  <1>1. r.host \in Token
    BY RepositoryIs
  <1>2. a \in Tokens
    BY <1>1, WebFront, UserFront, ScpFront, SshFront DEF Forms, Bare
  <1>3. /\ w \in Tokens /\ Len(w) \in Nat /\ Len(w) >= 1
        /\ \A i \in 1..Len(w) : w[i] \notin {":", "@", ".git", "%2F"}
    BY RearIs
  <1>4. CASE form \in {"https.git", "scp.git"}
    <2>1. URL(r, form) = u \o <<".git">>
      BY <1>4 DEF URL, Bare, Address, Rear
    <2>2. u \in Tokens
      BY <1>2, <1>3, Cat
    <2> HIDE DEF u
    <2> QED  BY <2>1, <2>2, Suffixed, Literals DEF Written, u
  <1>5. CASE form \notin {"https.git", "scp.git"}
    <2>1. URL(r, form) = u
      <3>1. CASE form = "slash"
        <4>1. /\ URL(r, form) = (https \o <<r.host, "/">>) \o r.path \o <<"/">>
              /\ a = https \o <<r.host, "/">> /\ w = r.path \o <<"/">>
          BY <3>1 DEF URL, Bare, Address, Rear
        <4>2. r.path \in Tokens /\ <<"/">> \in Tokens
          BY RepositoryIs, Single, Literals DEF Written
        <4> HIDE DEF a, w
        <4> QED  BY <1>2, <4>1, <4>2, Joined
      <3>2. CASE form # "slash"
        BY <1>5, <3>2 DEF Forms, URL, Bare, Address, Rear
      <3> QED  BY <3>1, <3>2
    <2> HIDE DEF a, w
    <2>2. /\ u \in Tokens /\ Len(u) = Len(a) + Len(w) /\ Len(a) \in Nat
          /\ u[Len(a) + Len(w)] = w[Len(w)]
      BY <1>2, <1>3, Cat
    <2> HIDE DEF u
    <2>3. Len(u) > 0 /\ u[Len(u)] # ".git"
      BY <1>3, <2>2
    <2>4. TrimSuffix(u, <<".git">>) = u
      BY <2>2, <2>3, NotSuffixed, Literals DEF Written
    <2> QED  BY <2>1, <2>4 DEF u, a, w
  <1> QED  BY <1>4, <1>5

-----------------------------------------------------------------------------
(* GitHub.                                                                 *)

(* The owner and the name that parseGitHubRepo finds in a URL.             *)
FullName(url) ==
  TrimPrefix(TrimPrefix(TrimSuffix(url, <<".git">>), https \o <<"github.com", "/">>),
             <<"git", "@", "github.com", ":">>)

(* They are those of the repository, or there is a colon in them.          *)
LEMMA FullNameOf ==
  ASSUME NEW r, IsRepository(r), NEW form \in Forms
  PROVE  LET t == FullName(URL(r, form))
             w == Rear(r.path, Bare(form)) IN
         /\ t \in Tokens
         /\ (r.host = "github.com" /\ t = w) \/ Has(t, ":")
         /\ r.host = "github.com" /\ Bare(form) \in {"https", "scp"} => t = w
  <1> DEFINE b == Bare(form)
             w == Rear(r.path, b)
             a == Address(r.host, b)
             u == a \o w
             A == Address("github.com", "https")
             G == Address("github.com", "scp")
             t == FullName(URL(r, form))
  <1>1. r.host \in Token /\ "github.com" \in Token /\ b \in {"https", "slash", "user", "scp", "ssh"}
    BY RepositoryIs, Literals DEF Written, Forms, Bare
  <1>2. /\ w \in Tokens /\ Len(w) \in Nat
        /\ \A i \in 1..Len(w) : w[i] \notin {":", "@", ".git", "%2F"}
    BY RearIs
  <1>3. /\ A = https \o <<"github.com", "/">> /\ A \in Tokens /\ Len(A) = 6
        /\ A[1] = "https" /\ A[5] = "github.com"
    BY <1>1, WebFront
  <1>4. /\ G = <<"git", "@", "github.com", ":">> /\ G \in Tokens /\ Len(G) = 4
        /\ G[1] = "git" /\ G[2] = "@" /\ G[3] = "github.com"
    BY <1>1, ScpFront
  <1>5. t = TrimPrefix(TrimPrefix(u, A), G)
    BY <1>3, <1>4, BareURL DEF FullName
  <1>6. b \in {"https", "slash"} => a = Address(r.host, "https")
    BY DEF Address
  <1> HIDE DEF b, w, t, A, G
  <1>7. b \in {"https", "slash"} =>
          a \in Tokens /\ Len(a) = 6 /\ a[1] = "https" /\ a[2] = ":" /\ a[5] = r.host
    <2> DEFINE o == Address(r.host, "https")
    <2>1. o \in Tokens /\ Len(o) = 6 /\ o[1] = "https" /\ o[2] = ":" /\ o[5] = r.host
      BY <1>1, HttpsFront
    <2> HIDE DEF o
    <2>2. b \in {"https", "slash"} => a = o
      BY <1>6 DEF o
    <2> QED  BY <2>1, <2>2
  <1>8. b = "user" =>
          a \in Tokens /\ Len(a) = 8 /\ a[1] = "https" /\ a[2] = ":" /\ a[5] = "user"
    <2> DEFINE o == Address(r.host, "user")
    <2>1. o \in Tokens /\ Len(o) = 8 /\ o[1] = "https" /\ o[2] = ":" /\ o[5] = "user"
      BY <1>1, UserFront
    <2> QED  BY <2>1
  <1>9. b = "scp" =>
          a \in Tokens /\ Len(a) = 4 /\ a[1] = "git" /\ a[3] = r.host /\ a[4] = ":"
    <2> DEFINE o == Address(r.host, "scp")
    <2>1. o \in Tokens /\ Len(o) = 4 /\ o[1] = "git" /\ o[3] = r.host /\ o[4] = ":"
      BY <1>1, ScpFront
    <2> QED  BY <2>1
  <1>10. b = "ssh" => a \in Tokens /\ Len(a) = 8 /\ a[1] = "ssh" /\ a[2] = ":"
    <2> DEFINE o == Address(r.host, "ssh")
    <2>1. o \in Tokens /\ Len(o) = 8 /\ o[1] = "ssh" /\ o[2] = ":"
      BY <1>1, SshFront
    <2> QED  BY <2>1
  <1>11. /\ r.host = "github.com" /\ b \in {"https", "slash"} => a = A
         /\ r.host = "github.com" /\ b = "scp" => a = G
    BY <1>6 DEF A, G
  <1> HIDE DEF a
  <1>12. /\ u \in Tokens /\ Len(u) = Len(a) + Len(w)
         /\ \A i \in 1..Len(a) : u[i] = a[i]
    BY <1>1, <1>2, <1>7, <1>8, <1>9, <1>10, Cat
  <1>13. Len(a) \in Nat /\ Len(a) >= 4
    BY <1>1, <1>7, <1>8, <1>9, <1>10
  (* A prefix that is not there changes nothing.                           *)
  <1>14. ASSUME NEW i \in 1..6, i <= Len(a), A[i] # a[i] PROVE TrimPrefix(u, A) = u
    <2>1. i \in 1..Len(A) /\ u[i] # A[i]
      BY <1>3, <1>12, <1>13, <1>14
    <2> HIDE DEF u
    <2> QED  BY <1>3, <1>12, <2>1, NotPrefixed
  <1>15. ASSUME NEW i \in 1..4, G[i] # a[i] PROVE TrimPrefix(u, G) = u
    <2>1. i \in 1..Len(G) /\ u[i] # G[i]
      BY <1>4, <1>12, <1>13, <1>15
    <2> HIDE DEF u
    <2> QED  BY <1>4, <1>12, <2>1, NotPrefixed
  <1>16. TrimPrefix(w, G) = w
    <2>1. 2 \in 1..Len(G) /\ (2 \in 1..Len(w) => w[2] # G[2])
      BY <1>2, <1>4
    <2> QED  BY <1>2, <1>4, <2>1, NotPrefixed
  <1>17. ASSUME NEW i \in 1..4, a[i] = ":" PROVE Has(u, ":")
    <2>1. i \in 1..Len(u) /\ u[i] = ":"
      BY <1>2, <1>12, <1>13, <1>17
    <2> QED  BY <2>1 DEF Has
  <1>18. CASE r.host = "github.com" /\ b \in {"https", "slash"}
    <2>1. TrimPrefix(u, A) = w
      BY <1>2, <1>3, <1>11, <1>18, Prefixed
    <2>2. t = w
      BY <1>5, <1>16, <2>1
    <2> QED  BY <1>2, <1>18, <2>2 DEF b, w, t
  <1>19. CASE r.host = "github.com" /\ b = "scp"
    <2>1. TrimPrefix(u, A) = u
      BY <1>3, <1>9, <1>13, <1>14, <1>19
    <2>2. TrimPrefix(u, G) = w
      BY <1>2, <1>4, <1>11, <1>19, Prefixed
    <2>3. t = w
      BY <1>5, <2>1, <2>2
    <2> QED  BY <1>2, <1>19, <2>3 DEF b, w, t
  <1>20. CASE ~(r.host = "github.com" /\ b \in {"https", "slash", "scp"})
    <2>1. TrimPrefix(u, A) = u
      <3>1. b \in {"https", "slash", "user"} => 5 <= Len(a) /\ A[5] # a[5]
        BY <1>3, <1>7, <1>8, <1>20
      <3>2. b \in {"scp", "ssh"} => 1 <= Len(a) /\ A[1] # a[1]
        BY <1>3, <1>9, <1>10
      <3> QED  BY <1>1, <1>14, <3>1, <3>2
    <2>2. TrimPrefix(u, G) = u
      <3>1. b # "scp" => G[1] # a[1]
        BY <1>1, <1>4, <1>7, <1>8, <1>10
      <3>2. b = "scp" => G[3] # a[3]
        BY <1>4, <1>9, <1>20
      <3> QED  BY <1>15, <3>1, <3>2
    <2>3. Has(u, ":")
      <3>1. b # "scp" => a[2] = ":"
        BY <1>1, <1>7, <1>8, <1>10
      <3>2. b = "scp" => a[4] = ":"
        BY <1>9
      <3> QED  BY <1>17, <3>1, <3>2
    <2>4. t = u
      BY <1>5, <2>1, <2>2
    <2> QED  BY <1>12, <1>20, <2>3, <2>4 DEF b, w, t
  <1> QED  BY <1>18, <1>19, <1>20

(* The path of the request that opens a pull request.                      *)
PullsPath(t) == (<<"repos", "/">> \o t) \o <<"/", "pulls">>

LEMMA PullsPathIs ==
  ASSUME NEW s \in Tokens, NEW t \in Tokens, PullsPath(s) = PullsPath(t)
  PROVE  s = t
  <1> DEFINE a == <<"repos", "/">>
             b == <<"/", "pulls">>
  <1>1. a \in Tokens /\ b \in Tokens
    BY PairOf, Literals DEF Written, Tokens
  <1>2. (a \o s) \o b = (a \o t) \o b
    BY DEF PullsPath
  <1> HIDE DEF a, b
  <1>3. a \o s \in Tokens /\ a \o t \in Tokens
    BY <1>1, Cat
  <1>4. a \o s = a \o t
    BY <1>1, <1>2, <1>3, Cancelled
  <1> QED  BY <1>1, <1>4, Cancelled

(* The request goes to the repository that the URL names, or is not made.  *)
LEMMA GitHubRequest ==
  ASSUME NEW r, IsRepository(r), NEW form \in Forms
  PROVE  LET req == createGitHubPR(URL(r, form))
             t == FullName(URL(r, form)) IN
         \/ req = NoRequest /\ ~Has(t, "/")
         \/ req = Request(<<"api.github.com">>, PullsPath(t))
  <1> DEFINE t == FullName(URL(r, form))
             parts == SplitN2(t, "/")
             R == <<"repos", "/">>
             P == <<"/", "pulls">>
  <1>1. t \in Tokens /\ "/" \in Token
    BY FullNameOf, Literals DEF Written
  <1>2. parseGitHubRepo(URL(r, form)) = parts
    BY DEF parseGitHubRepo, FullName
  <1> HIDE DEF t
  <1>3. \/ parts = <<t>> /\ ~Has(t, "/")
        \/ \E a \in Tokens, b \in Tokens : parts = <<a, b>> /\ t = (a \o <<"/">>) \o b
    BY <1>1, SplitParts
  <1>4. CASE parts = <<t>> /\ ~Has(t, "/")
    <2>1. Len(parts) # 2
      BY <1>4
    <2> QED  BY <1>2, <1>4, <2>1 DEF createGitHubPR, t
  <1>5. ASSUME NEW a \in Tokens, NEW b \in Tokens, parts = <<a, b>>, t = (a \o <<"/">>) \o b
        PROVE  createGitHubPR(URL(r, form)) = Request(<<"api.github.com">>, PullsPath(t))
    <2>1. Len(parts) = 2 /\ parts[1] = a /\ parts[2] = b
      BY <1>5
    <2>2. createGitHubPR(URL(r, form)) = GitHubPulls(a, b)
      BY <1>2, <2>1 DEF createGitHubPR
    <2>3. ((R \o a) \o <<"/">>) \o b = R \o t
      <3>1. R \in Tokens /\ <<"/">> \in Tokens
        BY PairOf, Single, Literals DEF Written, Tokens
      <3> HIDE DEF R
      <3>2. (R \o a) \o <<"/">> = R \o (a \o <<"/">>)
        BY <3>1, Joined
      <3>3. a \o <<"/">> \in Tokens
        BY <3>1, Cat
      <3>4. (R \o (a \o <<"/">>)) \o b = R \o ((a \o <<"/">>) \o b)
        BY <3>1, <3>3, Joined
      <3> QED  BY <1>5, <3>2, <3>4
    <2> QED  BY <2>2, <2>3 DEF GitHubPulls, PullsPath
  <1> QED  BY <1>3, <1>4, <1>5 DEF t

(* Where requests for the merge requests of a repository go.               *)
ProjectPath(t) ==
  <<"api", "v4", "projects">> \o ReplaceAll(t, "/", "%2F") \o <<"merge_requests">>

LEMMA ServesWhat ==
  ASSUME NEW q, IsRepository(q)
  PROVE  \/ /\ q.host = "github.com" /\ Kind[q.host] = "github"
            /\ Serves(q) = Request(<<"api.github.com">>, PullsPath(q.path))
         \/ /\ q.host = "gitlab.com" /\ Kind[q.host] = "gitlab"
            /\ Serves(q) = Request(<<"gitlab.com">>, ProjectPath(q.path))
         \/ q.host = "ghe.corp" /\ Kind[q.host] = "other" /\ Serves(q) = NoRequest
  <1>1. q.host \in {"github.com", "gitlab.com", "ghe.corp"}
    BY RepositoryIs
  <1>2. CASE q.host = "github.com"
    <2>1. Kind[q.host] = "github"
      BY <1>2 DEF Kind
    <2> QED  BY <1>2, <2>1 DEF Serves, PullsPath
  <1>3. CASE q.host = "gitlab.com"
    <2>1. Kind[q.host] = "gitlab"
      BY <1>3 DEF Kind
    <2> QED  BY <1>3, <2>1 DEF Serves, ProjectPath
  <1>4. CASE q.host = "ghe.corp"
    <2>1. Kind[q.host] = "other"
      BY <1>4 DEF Kind
    <2> QED  BY <1>4, <2>1 DEF Serves
  <1> QED  BY <1>1, <1>2, <1>3, <1>4

LEMMA HostsApart ==
  ASSUME NEW a, NEW b
  PROVE  (<<a>> = <<b>> => a = b) /\ <<a>> # <<>> /\ Last(<<a>>) = a
  BY DEF Last

(* Two repositories of one host with one path are one; and no path of a    *)
(* repository has the slash that some URLs end with.                       *)
LEMMA SameRepository ==
  ASSUME NEW q, IsRepository(q), NEW r, IsRepository(r), NEW form,
         q.host = r.host, q.path = Rear(r.path, form)
  PROVE  q = r
  <1>1. q.path = r.path
    BY RepositoryIs, RearIs
  <1>2. q = Repository(q.host, q.path) /\ r = Repository(r.host, r.path)
    BY RepositoryIs
  <1> QED  BY <1>1, <1>2

(* A pull request is asked for in the repository of the URL or nowhere     *)
(* (createGitHubPR), and there when the URL is an HTTPS or SSH URL of      *)
(* github.com as parseGitHubRepo handles them.                             *)
THEOREM GitHubReaches ==
  ASSUME NEW rs, \A q \in rs : IsRepository(q), NEW r \in rs, NEW form \in Forms
  PROVE  LET reached == Reached(createGitHubPR(URL(r, form)), rs) IN
         /\ reached \subseteq {r}
         /\ Kind[r.host] = "github" /\ Bare(form) \in {"https", "scp"} => reached = {r}
  <1> DEFINE t == FullName(URL(r, form))
             w == Rear(r.path, Bare(form))
             req == createGitHubPR(URL(r, form))
  <1>1. /\ t \in Tokens
        /\ (r.host = "github.com" /\ t = w) \/ Has(t, ":")
        /\ r.host = "github.com" /\ Bare(form) \in {"https", "scp"} => t = w
    BY FullNameOf
  <1>2. \/ req = NoRequest /\ ~Has(t, "/")
        \/ req = Request(<<"api.github.com">>, PullsPath(t))
    BY GitHubRequest
  <1> HIDE DEF t, req
  <1>3. ASSUME NEW q \in Reached(req, rs) PROVE q = r
    <2>1. /\ q \in rs /\ req # NoRequest /\ Serves(q).path = req.path
          /\ Serves(q).host = <<Last(req.host)>>
      BY <1>3 DEF Reached
    <2>2. req.host = <<"api.github.com">> /\ req.path = PullsPath(t)
      BY <1>2, <2>1 DEF Request
    <2>3. Serves(q).host = <<"api.github.com">>
      BY <2>1, <2>2, HostsApart
    <2>4. q.host = "github.com" /\ Serves(q).path = PullsPath(q.path)
      <3>1. CASE q.host = "github.com"
        BY <2>1, <3>1, ServesWhat DEF Request
      <3>2. CASE q.host = "gitlab.com"
        <4>1. Serves(q).host = <<"gitlab.com">>
          BY <2>1, <3>2, ServesWhat DEF Request
        <4> QED  BY <2>3, <4>1, HostsApart
      <3>3. CASE q.host = "ghe.corp"
        <4>1. Serves(q).host = <<>>
          BY <2>1, <3>3, ServesWhat DEF Request, NoRequest
        <4> QED  BY <2>3, <4>1, HostsApart
      <3> QED  BY <2>1, <3>1, <3>2, <3>3, RepositoryIs
    <2>5. q.path = t
      <3>1. q.path \in Tokens
        BY <2>1, RepositoryIs
      <3> QED  BY <1>1, <2>1, <2>2, <2>4, <3>1, PullsPathIs
    <2>6. ~Has(t, ":")
      BY <2>1, <2>5, RepositoryIs DEF Has
    <2> QED  BY <1>1, <2>1, <2>4, <2>5, <2>6, SameRepository
  <1>4. ASSUME Kind[r.host] = "github", Bare(form) \in {"https", "scp"}
        PROVE  r \in Reached(req, rs)
    <2>1. r.host = "github.com" /\ Serves(r) = Request(<<"api.github.com">>, PullsPath(r.path))
      BY <1>4, ServesWhat
    <2>2. t = r.path
      BY <1>1, <1>4, <2>1 DEF Rear
    <2>3. Has(t, "/")
      BY <2>2, RepositoryIs
    <2>4. req = Request(<<"api.github.com">>, PullsPath(r.path))
      BY <1>2, <2>2, <2>3
    <2>5. req.host = <<"api.github.com">> /\ NoRequest.host = <<>>
      BY <2>4 DEF Request, NoRequest
    <2>6. req # NoRequest /\ <<Last(req.host)>> = <<"api.github.com">>
      BY <2>5, HostsApart
    <2> QED  BY <2>1, <2>4, <2>5, <2>6 DEF Reached
  <1> QED  BY <1>3, <1>4 DEF req

-----------------------------------------------------------------------------
(* GitLab.                                                                 *)

LEMMA Replaced ==
  ASSUME NEW s \in Tokens
  PROVE  LET e == ReplaceAll(s, "/", "%2F") IN
         /\ e \in Tokens /\ Len(e) = Len(s)
         /\ \A i \in 1..Len(s) : e[i] = IF s[i] = "/" THEN "%2F" ELSE s[i]
  <1> DEFINE e == [i \in 1..Len(s) |-> IF s[i] = "/" THEN "%2F" ELSE s[i]]
  <1>1. Len(s) \in Nat /\ \A i \in 1..Len(s) : s[i] \in Token
    BY LenProperties, ElementOfSeq DEF Tokens
  <1>2. \A i \in 1..Len(s) : (IF s[i] = "/" THEN "%2F" ELSE s[i]) \in Token
    BY <1>1, Literals DEF Written
  <1>3. e \in Seq(Token) /\ Len(e) = Len(s)
    BY <1>1, <1>2
  <1>4. ReplaceAll(s, "/", "%2F") = e
    BY DEF ReplaceAll
  <1> QED  BY <1>3, <1>4 DEF Tokens

(* The encoding of paths without "%2F" tells them apart.                   *)
LEMMA EncodingIs ==
  ASSUME NEW s \in Tokens, NEW t \in Tokens, ProjectPath(s) = ProjectPath(t),
         \A i \in 1..Len(s) : s[i] # "%2F", \A i \in 1..Len(t) : t[i] # "%2F"
  PROVE  s = t
  <1> DEFINE a == <<"api", "v4", "projects">>
             b == <<"merge_requests">>
             d == ReplaceAll(s, "/", "%2F")
             e == ReplaceAll(t, "/", "%2F")
  <1>1. /\ d \in Tokens /\ Len(d) = Len(s)
        /\ \A i \in 1..Len(s) : d[i] = IF s[i] = "/" THEN "%2F" ELSE s[i]
    BY Replaced
  <1>2. /\ e \in Tokens /\ Len(e) = Len(t)
        /\ \A i \in 1..Len(t) : e[i] = IF t[i] = "/" THEN "%2F" ELSE t[i]
    BY Replaced
  <1>3. a \in Tokens /\ b \in Tokens
    BY TripleOf, Single, Literals DEF Written, Tokens
  <1>4. (a \o d) \o b = (a \o e) \o b
    BY DEF ProjectPath
  <1> HIDE DEF a, b, d, e
  <1>5. a \o d \in Tokens /\ a \o e \in Tokens
    BY <1>1, <1>2, <1>3, Cat
  <1>6. a \o d = a \o e
    BY <1>3, <1>4, <1>5, Cancelled
  <1>7. d = e
    BY <1>1, <1>2, <1>3, <1>6, Cancelled
  <1>8. Len(s) = Len(t) /\ \A i \in 1..Len(s) : s[i] = t[i]
    BY <1>1, <1>2, <1>7
  <1> QED  BY <1>8, Same

(* The parts of a sequence whose first separator ends a.                   *)
EndsFirst(a, sep) ==
  Len(a) >= 2 /\ a[Len(a)] = sep /\ \A i \in 1..Len(a) - 1 : a[i] # sep

PartedAt(parts, a, w) ==
  /\ Len(parts) = 2 /\ parts[2] = w
  /\ Last(parts[1]) = a[Len(a) - 1]
  /\ Len(a) = 2 => parts = <<<<a[1]>>, w>>

LEMMA PartsOf ==
  ASSUME NEW a \in Tokens, NEW w \in Tokens, NEW sep, EndsFirst(a, sep)
  PROVE  PartedAt(SplitN2(a \o w, sep), a, w)
  <1> USE DEF EndsFirst, PartedAt
  <1> DEFINE v == SubSeq(a, 1, Len(a) - 1)
  <1>1. SplitN2(a \o w, sep) = <<v, w>>
    <2>1. Len(a) >= 1 /\ \A i \in 1..Len(a) - 1 : a[i] # a[Len(a)]
      BY LenProperties DEF Tokens
    <2> QED  BY <2>1, SplitAfter
  <1>2. Len(a) \in Nat
    BY LenProperties DEF Tokens
  <1>3. /\ v \in Tokens /\ Len(v) = Len(a) - 1
        /\ \A i \in 1..Len(a) - 1 : v[i] = a[i]
    <2>1. 1 \in 1..Len(a) + 1 /\ Len(a) - 1 \in 1 - 1..Len(a) /\ (Len(a) - 1) - 1 + 1 = Len(a) - 1
      BY <1>2
    <2>2. /\ v \in Tokens /\ Len(v) = (Len(a) - 1) - 1 + 1
          /\ \A i \in 1..(Len(a) - 1) - 1 + 1 : v[i] = a[1 + i - 1]
      BY <2>1, Sub
    <2>3. \A i \in 1..Len(a) - 1 : 1 + i - 1 = i
      BY <1>2
    <2> HIDE DEF v
    <2> QED  BY <2>1, <2>2, <2>3
  <1> HIDE DEF v
  <1>4. Last(v) = a[Len(a) - 1]
    BY <1>2, <1>3 DEF Last
  <1>5. ASSUME Len(a) = 2 PROVE v = <<a[1]>>
    <2>1. a[1] \in Token
      <3>1. 1 \in 1..Len(a)
        BY <1>5
      <3> QED  BY <3>1, ElementOfSeq DEF Tokens
    <2>2. <<a[1]>> \in Tokens /\ Len(<<a[1]>>) = 1 /\ <<a[1]>>[1] = a[1]
      BY <2>1, Single
    <2>3. Len(v) = 1 /\ v[1] = a[1]
      BY <1>3, <1>5
    <2>4. \A i \in 1..Len(v) : v[i] = <<a[1]>>[i]
      BY <2>2, <2>3
    <2> QED  BY <1>3, <2>2, <2>3, <2>4, Same
  <1> QED  BY <1>1, <1>4, <1>5

(* The host and the path that parseGitLabProject finds in a URL.           *)
LEMMA ProjectOf ==
  ASSUME NEW r, IsRepository(r), NEW form \in Forms
  PROVE  LET parts == parseGitLabProject(URL(r, form)) IN
         /\ Len(parts) = 2
         /\ \/ Last(parts[1]) = r.host /\ parts[2] = Rear(r.path, Bare(form))
            \/ Last(parts[1]) = "ssh"
         /\ Bare(form) \in {"https", "scp"}
            => parts = <<<<r.host>>, Rear(r.path, Bare(form))>>
  <1> DEFINE b == Bare(form)
             h == r.host
             w == Rear(r.path, b)
             a == Address(h, b)
             u == a \o w
             parts == parseGitLabProject(URL(r, form))
  <1>1. /\ h \in Token /\ b \in {"https", "slash", "user", "scp", "ssh"}
        /\ h \in {"github.com", "gitlab.com", "ghe.corp"}
    BY RepositoryIs DEF Forms, Bare
  <1>2. w \in Tokens /\ Len(w) \in Nat
    BY RearIs
  <1>3. parts = IF IsPrefix(https, u) THEN SplitN2(TrimPrefix(u, https), "/")
                ELSE SplitN2(TrimPrefix(u, <<"git", "@">>), ":")
    BY BareURL DEF parseGitLabProject
  <1>4. /\ <<"git", "@">> \in Tokens /\ Len(<<"git", "@">>) = 2
        /\ <<"git", "@">>[1] = "git"
    BY PairOf, Literals DEF Written, Tokens
  (* What is left of a web URL without its scheme.                         *)
  <1>5. ASSUME NEW o \in Tokens, a = https \o o
        PROVE  parts = SplitN2(o \o w, "/")
    <2>1. u = https \o (o \o w) /\ o \o w \in Tokens
      <3>1. (https \o o) \o w = https \o (o \o w) /\ o \o w \in Tokens
        <4> HIDE DEF w
        <4> QED  BY <1>2, HttpsIs, Joined, Cat
      <3> QED  BY <1>5, <3>1
    <2>2. IsPrefix(https, u) /\ TrimPrefix(u, https) = o \o w
      BY <2>1, HttpsIs, Prefixed
    <2> QED  BY <1>3, <2>2
  <1>6. CASE b \in {"https", "slash"}
    <2> DEFINE o == <<h, "/">>
    <2>1. a = https \o o
      BY <1>6 DEF Address
    <2>2. o \in Tokens /\ Len(o) = 2 /\ o[1] = h /\ o[2] = "/" /\ h # "/"
      BY <1>1, PairOf, Literals DEF Written, Tokens
    <2> HIDE DEF o, parts, u, a, w
    <2>3. parts = SplitN2(o \o w, "/")
      BY <1>5, <2>1, <2>2
    <2>4. EndsFirst(o, "/")
      BY <2>2 DEF EndsFirst
    <2>5. /\ Len(parts) = 2 /\ parts[2] = w /\ Last(parts[1]) = o[Len(o) - 1]
          /\ parts = <<<<o[1]>>, w>>
      <3>1. PartedAt(SplitN2(o \o w, "/"), o, w)
        BY <1>2, <2>2, <2>4, PartsOf
      <3> QED  BY <2>2, <2>3, <3>1 DEF PartedAt
    <2>6. parts = <<<<h>>, w>> /\ Last(parts[1]) = h
      BY <2>2, <2>5
    <2> QED  BY <2>5, <2>6 DEF parts, w, b, h
  <1>7. CASE b = "user"
    <2> DEFINE o == <<"user", "@", h, "/">>
    <2>1. /\ a = https \o o /\ o \in Tokens /\ Len(o) = 4
          /\ o[1] = "user" /\ o[2] = "@" /\ o[3] = h /\ o[4] = "/" /\ h # "/"
      BY <1>1, <1>7, UserFront
    <2> HIDE DEF o, parts, u, a, w
    <2>2. parts = SplitN2(o \o w, "/")
      BY <1>5, <2>1
    <2>3. EndsFirst(o, "/")
      <3>1. \A i \in 1..3 : i = 1 \/ i = 2 \/ i = 3
        OBVIOUS
      <3> QED  BY <2>1, <3>1 DEF EndsFirst
    <2>4. Len(parts) = 2 /\ parts[2] = w /\ Last(parts[1]) = o[Len(o) - 1]
      <3>1. PartedAt(SplitN2(o \o w, "/"), o, w)
        BY <1>2, <2>1, <2>3, PartsOf
      <3> QED  BY <2>2, <3>1 DEF PartedAt
    <2> QED  BY <1>7, <2>1, <2>4 DEF parts, w, b, h
  <1>8. CASE b = "scp"
    <2> DEFINE g == <<"git", "@">>
               o == <<h, ":">>
    <2>1. o \in Tokens /\ Len(o) = 2 /\ o[1] = h /\ o[2] = ":" /\ h # ":"
      BY <1>1, PairOf, Literals DEF Written, Tokens
    <2>2. /\ a = <<"git", "@", h, ":">> /\ a \in Tokens /\ Len(a) = 4
          /\ a[1] = "git" /\ a[2] = "@" /\ a[3] = h /\ a[4] = ":"
      BY <1>1, <1>8, ScpFront
    <2>3. a = g \o o
      <3>1. g[1] = "git" /\ g[2] = "@"
        OBVIOUS
      <3>0. g \in Tokens /\ Len(g) = 2
        BY <1>4
      <3> HIDE DEF g, o, a, w, parts
      <3>2. /\ g \o o \in Tokens /\ Len(g \o o) = 4
            /\ (g \o o)[1] = g[1] /\ (g \o o)[2] = g[2]
            /\ (g \o o)[2 + 1] = o[1] /\ (g \o o)[2 + 2] = o[2]
        <4>1. /\ g \o o \in Tokens /\ Len(g \o o) = Len(g) + Len(o)
              /\ \A i \in 1..Len(g) : (g \o o)[i] = g[i]
              /\ \A i \in 1..Len(o) : (g \o o)[Len(g) + i] = o[i]
          BY <2>1, <3>0, Cat
        <4> QED  BY <2>1, <3>0, <4>1
      <3>3. \A i \in 1..4 : i = 1 \/ i = 2 \/ i = 3 \/ i = 4
        OBVIOUS
      <3>4. \A i \in 1..4 : a[i] = (g \o o)[i]
        BY <2>1, <2>2, <3>1, <3>2, <3>3
      <3> QED  BY <2>2, <3>2, <3>4, Same
    <2> HIDE DEF o, parts, a, w
    <2>4. ~IsPrefix(https, u)
      <3>1. u \in Tokens /\ u[1] = "git"
        BY <1>2, <2>2, Cat
      <3>2. 1 \in 1..Len(https) /\ u[1] # https[1]
        BY <3>1, HttpsIs
      <3> QED  BY <3>1, <3>2, HttpsIs, NotPrefixed
    <2>5. TrimPrefix(u, g) = o \o w
      <3> HIDE DEF g
      <3>1. u = g \o (o \o w) /\ o \o w \in Tokens
        BY <1>2, <1>4, <2>1, <2>3, Joined, Cat DEF g
      <3> QED  BY <1>4, <3>1, Prefixed DEF g
    <2>6. parts = SplitN2(o \o w, ":")
      BY <1>3, <2>4, <2>5
    <2>7. EndsFirst(o, ":")
      BY <2>1 DEF EndsFirst
    <2>8. /\ Len(parts) = 2 /\ parts[2] = w /\ Last(parts[1]) = o[Len(o) - 1]
          /\ parts = <<<<o[1]>>, w>>
      <3>1. PartedAt(SplitN2(o \o w, ":"), o, w)
        BY <1>2, <2>1, <2>7, PartsOf
      <3> QED  BY <2>1, <2>6, <3>1 DEF PartedAt
    <2>9. parts = <<<<h>>, w>> /\ Last(parts[1]) = h
      BY <2>1, <2>8
    <2> QED  BY <2>8, <2>9 DEF parts, w, b, h
  <1>9. CASE b = "ssh"
    <2>1. a \in Tokens /\ Len(a) = 8 /\ a[1] = "ssh" /\ a[2] = ":"
      BY <1>1, <1>9, SshFront
    <2> HIDE DEF parts, a, w
    <2>2. /\ u \in Tokens /\ Len(u) = 8 + Len(w) /\ u[1] = "ssh" /\ u[2] = ":"
      <3>1. u \in Tokens /\ Len(u) = Len(a) + Len(w) /\ \A i \in 1..Len(a) : u[i] = a[i]
        BY <1>2, <2>1, Cat
      <3> QED  BY <2>1, <3>1
    <2> HIDE DEF u
    <2>3. ~IsPrefix(https, u)
      <3>1. 1 \in 1..Len(https) /\ u[1] # https[1]
        BY <2>2, HttpsIs
      <3> QED  BY <2>2, <3>1, HttpsIs, NotPrefixed
    <2>4. TrimPrefix(u, <<"git", "@">>) = u
      <3>1. 1 \in 1..Len(<<"git", "@">>) /\ u[1] # <<"git", "@">>[1]
        BY <1>4, <2>2
      <3> QED  BY <1>4, <2>2, <3>1, NotPrefixed
    <2>5. parts = SplitN2(u, ":")
      BY <1>3, <2>3, <2>4
    <2>6. parts = <<SubSeq(u, 1, 2 - 1), SubSeq(u, 2 + 1, Len(u))>>
      <3>1. 2 \in 1..Len(u) /\ \A i \in 1..2 - 1 : u[i] # ":"
        BY <1>2, <2>2
      <3> QED  BY <2>2, <2>5, <3>1, SplitAt
    <2>7. Len(SubSeq(u, 1, 1)) = 1 /\ SubSeq(u, 1, 1)[1] = "ssh"
      <3>1. 1 \in 1..Len(u) + 1 /\ 1 \in 1 - 1..Len(u)
        BY <1>2, <2>2
      <3>2. /\ Len(SubSeq(u, 1, 1)) = 1 - 1 + 1
            /\ \A i \in 1..1 - 1 + 1 : SubSeq(u, 1, 1)[i] = u[1 + i - 1]
        BY <2>2, <3>1, Sub
      <3> QED  BY <2>2, <3>2
    <2>8. Len(parts) = 2 /\ Last(parts[1]) = "ssh"
      BY <2>6, <2>7 DEF Last
    <2> QED  BY <1>9, <2>8 DEF parts, b
  <1> QED  BY <1>1, <1>6, <1>7, <1>8, <1>9

(* The same of merge requests (createGitLabMR, parseGitLabProject).        *)
THEOREM GitLabReaches ==
  ASSUME NEW rs, \A q \in rs : IsRepository(q), NEW r \in rs, NEW form \in Forms
  PROVE  LET reached == Reached(createGitLabMR(URL(r, form)), rs) IN
         /\ reached \subseteq {r}
         /\ Kind[r.host] = "gitlab" /\ Bare(form) \in {"https", "scp"} => reached = {r}
  <1> DEFINE parts == parseGitLabProject(URL(r, form))
             w == Rear(r.path, Bare(form))
             req == createGitLabMR(URL(r, form))
  <1>1. /\ Len(parts) = 2
        /\ (Last(parts[1]) = r.host /\ parts[2] = w) \/ Last(parts[1]) = "ssh"
        /\ Bare(form) \in {"https", "scp"} => parts = <<<<r.host>>, w>>
    BY ProjectOf
  <1>2. req.host = parts[1] /\ req.path = ProjectPath(parts[2])
    BY <1>1 DEF createGitLabMR, GitLabMergeRequests, ProjectPath, Request
  <1>3. req = Request(parts[1], ProjectPath(parts[2]))
    BY <1>1 DEF createGitLabMR, GitLabMergeRequests, ProjectPath
  <1>4. /\ w \in Tokens /\ \A i \in 1..Len(w) : w[i] \notin {":", "@", ".git", "%2F"}
    BY RearIs
  <1>5. r.host \in {"github.com", "gitlab.com", "ghe.corp"}
    BY RepositoryIs
  <1> HIDE DEF parts, req, w
  <1>6. ASSUME NEW q \in Reached(req, rs) PROVE q = r
    <2>1. /\ q \in rs /\ req # NoRequest /\ Serves(q).path = req.path
          /\ Serves(q).host = <<Last(req.host)>>
      BY <1>6 DEF Reached
    <2>2. Serves(q).host = <<Last(parts[1])>>
      BY <1>2, <2>1
    <2>3. Last(parts[1]) # "api.github.com"
      BY <1>1, <1>5
    <2>4. q.host = "gitlab.com" /\ Last(parts[1]) = "gitlab.com"
          /\ Serves(q).path = ProjectPath(q.path)
      <3>1. CASE q.host = "gitlab.com"
        <4>1. Serves(q).host = <<"gitlab.com">> /\ Serves(q).path = ProjectPath(q.path)
          BY <2>1, <3>1, ServesWhat DEF Request
        <4> QED  BY <2>2, <3>1, <4>1, HostsApart
      <3>2. CASE q.host = "github.com"
        <4>1. Serves(q).host = <<"api.github.com">>
          BY <2>1, <3>2, ServesWhat DEF Request
        <4> QED  BY <2>2, <2>3, <4>1, HostsApart
      <3>3. CASE q.host = "ghe.corp"
        <4>1. Serves(q).host = <<>>
          BY <2>1, <3>3, ServesWhat DEF Request, NoRequest
        <4> QED  BY <2>2, <4>1, HostsApart
      <3> QED  BY <2>1, <3>1, <3>2, <3>3, RepositoryIs
    <2>5. r.host = "gitlab.com" /\ parts[2] = w
      BY <1>1, <2>4
    <2>6. q.path = w
      <3>1. q.path \in Tokens /\ \A i \in 1..Len(q.path) : q.path[i] # "%2F"
        BY <2>1, RepositoryIs
      <3>2. ProjectPath(q.path) = ProjectPath(w)
        BY <1>2, <2>1, <2>4, <2>5
      <3> QED  BY <1>4, <3>1, <3>2, EncodingIs
    <2> QED  BY <2>1, <2>4, <2>5, <2>6, SameRepository DEF w
  <1>7. ASSUME Kind[r.host] = "gitlab", Bare(form) \in {"https", "scp"}
        PROVE  r \in Reached(req, rs)
    <2>1. r.host = "gitlab.com" /\ Serves(r) = Request(<<"gitlab.com">>, ProjectPath(r.path))
      BY <1>7, ServesWhat
    <2>2. parts[1] = <<"gitlab.com">> /\ parts[2] = r.path
      BY <1>1, <1>7, <2>1 DEF Rear, w
    <2>3. req = Serves(r)
      BY <1>3, <2>1, <2>2
    <2>4. req.host = <<"gitlab.com">> /\ NoRequest.host = <<>>
      BY <2>1, <2>3 DEF Request, NoRequest
    <2>5. req # NoRequest /\ <<Last(req.host)>> = <<"gitlab.com">>
      BY <2>4, HostsApart
    <2> QED  BY <2>1, <2>3, <2>4, <2>5 DEF Reached
  <1> QED  BY <1>6, <1>7 DEF req

-----------------------------------------------------------------------------
(* Both platforms, and the others.                                         *)

Hosted(rs) == \A q \in rs : IsRepository(q)

(* Whatever the platform and the form of its URL, a repository's request   *)
(* reaches no other one (CreatePullRequest); and it does reach it when the *)
(* platform is the host's and the form one that the client handles.        *)
THEOREM RequestsReach ==
  ASSUME NEW rs, Hosted(rs), NEW r \in rs, NEW form \in Forms,
         NEW platform \in {"github", "gitlab", "bitbucket"}
  PROVE  LET reached == Reached(CreatePullRequest(platform, URL(r, form)), rs) IN
         /\ reached \subseteq {r}
         /\ Kind[r.host] = platform /\ form \in {"https", "https.git", "scp", "scp.git"}
            => reached = {r}
  <1>0. \A q \in rs : IsRepository(q)
    BY DEF Hosted
  <1>1. form \in {"https", "https.git", "scp", "scp.git"} => Bare(form) \in {"https", "scp"}
    BY DEF Bare
  <1>2. CASE platform = "github"
    <2>1. CreatePullRequest(platform, URL(r, form)) = createGitHubPR(URL(r, form))
      BY <1>2 DEF CreatePullRequest
    <2> QED  BY <1>0, <1>1, <1>2, <2>1, GitHubReaches
  <1>3. CASE platform = "gitlab"
    <2>1. CreatePullRequest(platform, URL(r, form)) = createGitLabMR(URL(r, form))
      BY <1>3 DEF CreatePullRequest
    <2> QED  BY <1>0, <1>1, <1>3, <2>1, GitLabReaches
  <1>4. CASE platform \notin {"github", "gitlab"}
    <2>1. CreatePullRequest(platform, URL(r, form)) = NoRequest
      BY <1>4 DEF CreatePullRequest
    <2>2. Reached(NoRequest, rs) = {}
      BY DEF Reached
    <2>3. Kind[r.host] # platform
      BY <1>0, <1>4, ServesWhat
    <2> QED  BY <1>4, <2>1, <2>2, <2>3
  <1> QED  BY <1>2, <1>3, <1>4
===============================================================================
