---------------------------- MODULE PrepareProofs ----------------------------
(* What the registry calls ready is there, and what a measurement loads is *)
(* real, for every list of subsets and sources and however often           *)
(* prepare.sh is killed and run again.  The cases made of it have the      *)
(* rounds of their sessions in order.                                      *)
EXTENDS Prepare, FiniteSetTheorems, SequenceTheorems, TLAPS

(* The files as they may be found.                                         *)
Sources == [read : Nat, torn : BOOLEAN]
Outputs == [recs : Seq(Nat), torn : BOOLEAN]

FileTypes ==
  /\ src \in [Named -> Sources \cup {None}]
  /\ out \in [Named -> Outputs \cup {None}]
  /\ manifest \in [Named -> Seq(Nat) \cup {None}]

(* What a file holds is the beginning of what it is to hold.               *)
Begins(recs, whole) == Len(recs) <= Len(whole) /\ recs = FirstOf(whole, Len(recs))

(* However often the script was killed, a source holds no more than there  *)
(* is, and a subset is the beginning of a pick of a beginning of it.       *)
FromUpstream(k, recs) ==
  \E read \in 0 .. Len(Upstream[Subsets[k].name]) : Begins(recs, Pick(Subsets[k], read))

Genuine ==
  \A k \in DOMAIN Subsets :
    LET n == Subsets[k].name
    IN  /\ src[n] # None => src[n].read <= Len(Upstream[n])
        /\ out[n] # None => FromUpstream(k, out[n].recs)
        /\ n \in DOMAIN loaded /\ ~asked.allow => FromUpstream(k, loaded[n])

(* A subset that is done agrees with its manifest and its source.          *)
Done(k) ==
  LET s == Subsets[k]
  IN  s.url =>
        /\ out[s.name] # None /\ src[s.name] # None
        /\ ~out[s.name].torn
        /\ out[s.name].recs = manifest[s.name]
        /\ out[s.name].recs = Pick(s, src[s.name].read)

InSubset == {"download", "parse", "write"}

(* Where prepare.sh stands: the subsets before the current one are done,   *)
(* and the one being written holds the beginning of its pick.              *)
Progress ==
  /\ pc \in {"fetch", "fetching"} => mode # "subsets"
  /\ pc \in InSubset => at \in DOMAIN Subsets /\ Subsets[at].url
  /\ pc \in InSubset => src[Subsets[at].name] # None
  /\ pc \in InSubset \cup {"subset"} => \A k \in 1 .. at - 1 : k \in DOMAIN Subsets => Done(k)
  /\ pc = "registry" => \A k \in DOMAIN Subsets : Done(k)
  /\ pc = "write" =>
       LET s == Subsets[at]
           picked == Pick(s, src[s.name].read)
       IN  /\ out[s.name] # None
           /\ Begins(out[s.name].recs, picked)
           /\ out[s.name].torn => out[s.name].recs # picked

RegistryOf(n) == \E k \in DOMAIN Subsets : Subsets[k].name = n /\ Subsets[k].url

Registered ==
  /\ registry # <<>> => registry = [n \in Named |-> RegistryOf(n)]
  /\ last = "ok" => pc = "idle"
  /\ last = "ok" /\ mode \in {"all", "subsets"} =>
       /\ registry = [n \in Named |-> RegistryOf(n)]
       /\ \A k \in DOMAIN Subsets : Done(k)

IInv ==
  /\ at \in Nat \ {0}
  /\ FileTypes
  /\ Genuine
  /\ Progress
  /\ Registered
  /\ ReadyHasFile

-----------------------------------------------------------------------------
LEMMA SubsetTypes ==
  /\ Len(Subsets) \in Nat /\ DOMAIN Subsets = 1 .. Len(Subsets)
  /\ \A k \in DOMAIN Subsets :
       /\ Subsets[k] \in [name : STRING, n : Nat, jsonl : BOOLEAN, url : BOOLEAN]
       /\ Subsets[k].name \in Named
       /\ Subsets[k].n \in Nat
       /\ Upstream[Subsets[k].name] \in Seq(Nat \X BOOLEAN)
       /\ Len(Upstream[Subsets[k].name]) \in Nat
<1>1. Len(Subsets) \in Nat /\ DOMAIN Subsets = 1 .. Len(Subsets)
  BY SubsetsAssumption
<1>2. \A k \in DOMAIN Subsets :
        /\ Subsets[k] \in [name : STRING, n : Nat, jsonl : BOOLEAN, url : BOOLEAN]
        /\ Subsets[k].name \in Named
  <2>1. \A k \in 1 .. Len(Subsets) :
          Subsets[k] \in [name : STRING, n : Nat, jsonl : BOOLEAN, url : BOOLEAN]
    BY SubsetsAssumption, ElementOfSeq
  <2>2. \A k \in DOMAIN Subsets : Subsets[k].name \in Named
    BY DEF Named
  <2>. QED  BY <1>1, <2>1, <2>2
<1>3. \A k \in DOMAIN Subsets : Upstream[Subsets[k].name] \in Seq(Nat \X BOOLEAN)
  BY <1>2, SubsetsAssumption
<1>4. \A k \in DOMAIN Subsets : Len(Upstream[Subsets[k].name]) \in Nat
  BY <1>3
<1>5. \A k \in DOMAIN Subsets : Subsets[k].n \in Nat
  BY <1>2
<1>. QED  BY <1>1, <1>2, <1>3, <1>4, <1>5

LEMMA NoneIsNoFile ==
  /\ \A f \in Sources : f # None
  /\ \A f \in Outputs : f # None
  /\ \A f \in Seq(Nat) : f # None
BY SubsetsAssumption DEF Sources, Outputs

(* What comes before x in the stable order of the hashes h.                *)
Earlier(X, h, x) == {j \in X : h[j] < h[x] \/ (h[j] = h[x] /\ j < x)}

(* In a finite set with a strict order there is one element of every rank: *)
(* ranks differ, and there are as many of them as elements.                *)
LEMMA EveryRankIsTaken ==
  ASSUME NEW X, X \subseteq Nat, IsFiniteSet(X), NEW h \in [X -> Nat],
         NEW r \in 0 .. Cardinality(X) - 1
  PROVE  \E x \in X : Cardinality(Earlier(X, h, x)) = r
<1> DEFINE n == Cardinality(X)
           f == [x \in X |-> Cardinality(Earlier(X, h, x))]
<1>1. n \in Nat
  BY FS_CardinalityType
<1>2. \A x \in X : /\ IsFiniteSet(Earlier(X, h, x))
                   /\ Cardinality(Earlier(X, h, x)) \in 0 .. n - 1
  <2> TAKE x \in X
  <2>1. Earlier(X, h, x) \subseteq X /\ x \notin Earlier(X, h, x)
    BY DEF Earlier
  <2>2. /\ IsFiniteSet(Earlier(X, h, x))
        /\ Cardinality(Earlier(X, h, x)) <= n
        /\ Cardinality(Earlier(X, h, x)) # n
    BY <2>1, FS_Subset
  <2>. QED  BY <1>1, <2>2, FS_CardinalityType
<1>3. ASSUME NEW x \in X, NEW y \in X, x # y
      PROVE  f[x] # f[y]
  <2>1. \/ x \in Earlier(X, h, y) /\ Earlier(X, h, x) \subseteq Earlier(X, h, y)
        \/ y \in Earlier(X, h, x) /\ Earlier(X, h, y) \subseteq Earlier(X, h, x)
    <3>1. h[x] \in Nat /\ h[y] \in Nat /\ x \in Nat /\ y \in Nat
      OBVIOUS
    <3>2. \A j \in X : h[j] \in Nat /\ j \in Nat
      OBVIOUS
    <3>3. ASSUME NEW a \in X, NEW b \in X, h[a] < h[b] \/ (h[a] = h[b] /\ a < b)
          PROVE  a \in Earlier(X, h, b) /\ Earlier(X, h, a) \subseteq Earlier(X, h, b)
      <4>1. h[a] \in Nat /\ h[b] \in Nat /\ a \in Nat /\ b \in Nat
        BY <3>2
      <4>2. ASSUME NEW j \in Earlier(X, h, a) PROVE j \in Earlier(X, h, b)
        <5>1. j \in X /\ (h[j] < h[a] \/ (h[j] = h[a] /\ j < a)) /\ h[j] \in Nat /\ j \in Nat
          BY <3>2 DEF Earlier
        <5>2. h[j] < h[b] \/ (h[j] = h[b] /\ j < b)
          BY <3>3, <4>1, <5>1
        <5>. QED  BY <5>1, <5>2 DEF Earlier
      <4>. QED  BY <3>3, <4>2 DEF Earlier
    <3>4. \/ h[x] < h[y] \/ (h[x] = h[y] /\ x < y)
          \/ h[y] < h[x] \/ (h[y] = h[x] /\ y < x)
      BY <1>3, <3>1
    <3>. QED  BY <3>3, <3>4
  <2>2. x \notin Earlier(X, h, x) /\ y \notin Earlier(X, h, y)
    BY DEF Earlier
  <2>3. ASSUME NEW S, NEW T, IsFiniteSet(T), S \subseteq T, S # T
        PROVE  Cardinality(S) # Cardinality(T)
    BY <2>3, FS_Subset
  <2>. QED  BY <1>2, <2>1, <2>2, <2>3
<1>4. f \in Injection(X, 0 .. n - 1)
  BY <1>2, <1>3 DEF Injection, IsInjective
<1>5. IsFiniteSet(0 .. n - 1) /\ Cardinality(0 .. n - 1) = n
  BY <1>1, FS_Interval
<1>6. f \in Surjection(X, 0 .. n - 1)
  BY <1>4, <1>5, FS_Injection
<1>. QED  BY <1>6 DEF Surjection

(* What is picked are positions of records.                                *)
LEMMA PickType ==
  ASSUME NEW k \in DOMAIN Subsets, NEW read \in 0 .. Len(Upstream[Subsets[k].name])
  PROVE  Pick(Subsets[k], read) \in Seq(Nat)
<1> DEFINE up  == Upstream[Subsets[k].name]
           ids == {i \in 1 .. read : ~up[i][2]}
           h   == [i \in ids |-> up[i][1]]
           m   == Least(Subsets[k].n, Cardinality(ids))
           of(r) == CHOOSE i \in ids : Cardinality(Earlier(ids, h, i)) = r - 1
<1>1. up \in Seq(Nat \X BOOLEAN) /\ Len(up) \in Nat /\ read \in Nat /\ read <= Len(up)
  BY SubsetTypes
<1>2. IsFiniteSet(ids) /\ ids \subseteq Nat /\ Cardinality(ids) \in Nat
  <2>1. IsFiniteSet(1 .. read) /\ ids \in SUBSET (1 .. read)
    BY <1>1, FS_Interval
  <2>. QED  BY <2>1, FS_Subset, FS_CardinalityType
<1>3. h \in [ids -> Nat]
  <2>1. \A i \in 1 .. Len(up) : up[i] \in Nat \X BOOLEAN
    BY <1>1, ElementOfSeq
  <2>2. \A i \in ids : i \in 1 .. Len(up)
    BY <1>1
  <2>3. \A i \in ids : up[i][1] \in Nat
    BY <2>1, <2>2
  <2>. QED  BY <2>3
<1>4. m \in Nat /\ m <= Cardinality(ids)
  <2>1. \A a, c \in Nat : Least(a, c) \in Nat /\ Least(a, c) <= c
    BY DEF Least
  <2>2. Subsets[k].n \in Nat
    BY SubsetTypes
  <2> HIDE DEF ids
  <2>. QED  BY <1>2, <2>1, <2>2
<1>5. \A r \in 1 .. m : of(r) \in Nat
  <2> TAKE r \in 1 .. m
  <2>1. r - 1 \in 0 .. Cardinality(ids) - 1
    BY <1>2, <1>4
  <2> HIDE DEF ids, h
  <2>2. \E i \in ids : Cardinality(Earlier(ids, h, i)) = r - 1
    BY <1>2, <1>3, <2>1, EveryRankIsTaken
  <2>. QED  BY <1>2, <2>2
<1>6. Pick(Subsets[k], read) = [r \in 1 .. m |-> of(r)]
  <2>1. \A i \in ids : Earlier(ids, h, i) =
          {j \in ids : up[j][1] < up[i][1] \/ (up[j][1] = up[i][1] /\ j < i)}
    BY DEF Earlier
  <2> HIDE DEF ids
  <2>2. \A r \in 1 .. m :
          of(r) = CHOOSE i \in ids :
            Cardinality({j \in ids : up[j][1] < up[i][1] \/ (up[j][1] = up[i][1] /\ j < i)}) = r - 1
    BY <2>1
  <2>. QED  BY <2>2 DEF Pick, ids
<1> HIDE DEF of, m
<1>. QED  BY <1>4, <1>5, <1>6

LEMMA FirstOfPointwise ==
  ASSUME NEW whole \in Seq(Nat), NEW m \in 0 .. Len(whole)
  PROVE  /\ FirstOf(whole, m) \in Seq(Nat) /\ Len(FirstOf(whole, m)) = m
         /\ \A i \in 1 .. m : FirstOf(whole, m)[i] = whole[i]
<1>1. FirstOf(whole, m) = SubSeq(whole, 1, m)
  BY DEF FirstOf, Least
<1>. QED  BY <1>1, SubSeqProperties

LEMMA BeginsElim ==
  ASSUME NEW recs \in Seq(Nat), NEW whole \in Seq(Nat), Begins(recs, whole)
  PROVE  /\ Len(recs) <= Len(whole)
         /\ \A i \in 1 .. Len(recs) : recs[i] = whole[i]
<1>1. Len(recs) <= Len(whole) /\ recs = FirstOf(whole, Len(recs))
  BY DEF Begins
<1>2. Len(recs) \in 0 .. Len(whole)
  BY <1>1
<1>3. \A i \in 1 .. Len(recs) : FirstOf(whole, Len(recs))[i] = whole[i]
  BY <1>2, FirstOfPointwise
<1>. QED  BY <1>1, <1>3

LEMMA BeginsIntro ==
  ASSUME NEW recs \in Seq(Nat), NEW whole \in Seq(Nat),
         Len(recs) <= Len(whole), \A i \in 1 .. Len(recs) : recs[i] = whole[i]
  PROVE  Begins(recs, whole)
<1>1. Len(recs) \in 0 .. Len(whole)
  OBVIOUS
<1>2. recs = FirstOf(whole, Len(recs))
  BY <1>1, FirstOfPointwise, SeqEqual
<1>. QED  BY <1>2 DEF Begins

LEMMA EmptyBegins ==
  ASSUME NEW whole \in Seq(Nat)
  PROVE  Begins(<<>>, whole)
<1>1. Len(<<>>) = 0 /\ 0 \in 0 .. Len(whole) /\ <<>> \in Seq(Nat)
  OBVIOUS
<1>2. FirstOf(whole, 0) \in Seq(Nat) /\ Len(FirstOf(whole, 0)) = 0
  BY <1>1, FirstOfPointwise
<1>3. <<>> = FirstOf(whole, 0)
  BY <1>2
<1>. QED  BY <1>1, <1>3 DEF Begins

LEMMA NextBegins ==
  ASSUME NEW recs \in Seq(Nat), NEW whole \in Seq(Nat),
         Begins(recs, whole), recs # whole
  PROVE  LET more == Append(recs, whole[Len(recs) + 1])
         IN  more \in Seq(Nat) /\ Begins(more, whole)
<1>1. /\ Len(recs) \in Nat /\ Len(whole) \in Nat /\ Len(recs) <= Len(whole)
      /\ \A i \in 1 .. Len(recs) : recs[i] = whole[i]
  BY BeginsElim
<1>2. Len(recs) < Len(whole)
  BY <1>1, SeqEqual
<1>3. whole[Len(recs) + 1] \in Nat
  BY <1>1, <1>2
<1> DEFINE more == Append(recs, whole[Len(recs) + 1])
<1>4. /\ more \in Seq(Nat) /\ Len(more) = Len(recs) + 1
      /\ \A i \in 1 .. Len(recs) : more[i] = recs[i]
      /\ more[Len(recs) + 1] = whole[Len(recs) + 1]
  BY <1>1, <1>3, AppendProperties
<1> HIDE DEF more
<1>5. ASSUME NEW i \in 1 .. Len(more) PROVE more[i] = whole[i]
  <2>1. i \in 1 .. Len(recs) \/ i = Len(recs) + 1
    BY <1>1, <1>4
  <2>. QED  BY <1>1, <1>4, <2>1
<1>6. Len(more) <= Len(whole) /\ more \in Seq(Nat)
  BY <1>1, <1>2, <1>4
<1>7. \A i \in 1 .. Len(more) : more[i] = whole[i]
  BY <1>5
<1>8. Begins(more, whole)
  BY <1>6, <1>7, BeginsIntro
<1>. QED  BY <1>4, <1>8 DEF more

-----------------------------------------------------------------------------
LEMMA InitIInv == Init => IInv
<1> SUFFICES ASSUME Init PROVE IInv
  OBVIOUS
<1> USE DEF Init
<1>1. FileTypes
  BY DEF FileTypes
<1>2. Genuine
  BY SubsetTypes DEF Genuine
<1>3. Progress
  BY DEF Progress, InSubset
<1>4. Registered /\ ReadyHasFile
  BY SubsetsAssumption DEF Registered, ReadyHasFile
<1>. QED  BY <1>1, <1>2, <1>3, <1>4 DEF IInv

(* The steps that leave the files of the subsets and what is loaded alone. *)
LEMMA Untouched ==
  ASSUME IInv, UNCHANGED <<src, out, manifest, loaded, asked>>
  PROVE  /\ FileTypes' /\ Genuine'
         /\ \A k \in DOMAIN Subsets : Done(k)' <=> Done(k)
         /\ registry' = registry => ReadyHasFile'
<1>1. FileTypes'
  BY DEF IInv, FileTypes
<1>2. Genuine'
  BY DEF IInv, Genuine
<1>3. \A k \in DOMAIN Subsets : Done(k)' <=> Done(k)
  BY DEF Done
<1>4. registry' = registry => ReadyHasFile'
  BY DEF IInv, ReadyHasFile
<1>. QED  BY <1>1, <1>2, <1>3, <1>4

(* A step that leaves s, o and m as the source, the subset and the manifest *)
(* of subset k: files that are there do not disappear.                     *)
Replaces(k, s, o, m) ==
  /\ k \in DOMAIN Subsets
  /\ s \in Sources \cup {None} /\ o \in Outputs \cup {None} /\ m \in Seq(Nat) \cup {None}
  /\ src' = [src EXCEPT ![Subsets[k].name] = s]
  /\ out' = [out EXCEPT ![Subsets[k].name] = o]
  /\ manifest' = [manifest EXCEPT ![Subsets[k].name] = m]
  /\ UNCHANGED <<loaded, asked>>
  /\ s # None => s.read <= Len(Upstream[Subsets[k].name])
  /\ o # None => FromUpstream(k, o.recs)
  /\ out[Subsets[k].name] # None => o # None
  /\ manifest[Subsets[k].name] # None => m # None

(* What the other subsets have stays, names being distinct.                *)
LEMMA Touched ==
  ASSUME IInv, NEW k \in DOMAIN Subsets, NEW s, NEW o, NEW m, Replaces(k, s, o, m)
  PROVE  /\ FileTypes' /\ Genuine'
         /\ \A j \in DOMAIN Subsets \ {k} : Done(j)' <=> Done(j)
         /\ registry' = registry => ReadyHasFile'
         /\ src'[Subsets[k].name] = s /\ out'[Subsets[k].name] = o /\ manifest'[Subsets[k].name] = m
<1> USE DEF Replaces
<1> DEFINE n == Subsets[k].name
<1>1. n \in Named /\ \A j \in DOMAIN Subsets : Subsets[j].name \in Named
  BY SubsetTypes
<1>2. FileTypes
  BY DEF IInv
<1>3. FileTypes'
  BY <1>1, <1>2 DEF FileTypes
<1>4. src'[n] = s /\ out'[n] = o /\ manifest'[n] = m
  BY <1>1, <1>2 DEF FileTypes
<1>5. \A j \in DOMAIN Subsets \ {k} :
        /\ src'[Subsets[j].name] = src[Subsets[j].name]
        /\ out'[Subsets[j].name] = out[Subsets[j].name]
        /\ manifest'[Subsets[j].name] = manifest[Subsets[j].name]
  <2> TAKE j \in DOMAIN Subsets \ {k}
  <2>1. Subsets[j].name \in Named /\ Subsets[j].name # n
    BY <1>1, SubsetsAssumption
  <2>. QED  BY <1>1, <1>2, <2>1 DEF FileTypes
<1>6. \A j \in DOMAIN Subsets \ {k} : Done(j)' <=> Done(j)
  BY <1>5 DEF Done
<1>7. Genuine'
  <2> SUFFICES ASSUME NEW j \in DOMAIN Subsets
               PROVE  /\ src'[Subsets[j].name] # None =>
                           src'[Subsets[j].name].read <= Len(Upstream[Subsets[j].name])
                      /\ out'[Subsets[j].name] # None => FromUpstream(j, out'[Subsets[j].name].recs)
                      /\ Subsets[j].name \in DOMAIN loaded' /\ ~asked'.allow =>
                           FromUpstream(j, loaded'[Subsets[j].name])
    BY DEF Genuine, FromUpstream
  <2>1. /\ src[Subsets[j].name] # None =>
             src[Subsets[j].name].read <= Len(Upstream[Subsets[j].name])
        /\ out[Subsets[j].name] # None => FromUpstream(j, out[Subsets[j].name].recs)
        /\ Subsets[j].name \in DOMAIN loaded /\ ~asked.allow =>
             FromUpstream(j, loaded[Subsets[j].name])
    BY DEF IInv, Genuine
  <2>2. CASE j = k
    BY <1>4, <2>1, <2>2
  <2>3. CASE j # k
    BY <1>5, <2>1, <2>3
  <2>. QED  BY <2>2, <2>3
<1>8. ASSUME registry' = registry PROVE ReadyHasFile'
  <2> SUFFICES ASSUME NEW j \in DOMAIN Subsets,
                      Subsets[j].name \in DOMAIN registry, registry[Subsets[j].name]
               PROVE  out'[Subsets[j].name] # None /\ manifest'[Subsets[j].name] # None
    BY <1>8 DEF ReadyHasFile
  <2>1. out[Subsets[j].name] # None /\ manifest[Subsets[j].name] # None
    BY DEF IInv, ReadyHasFile
  <2>2. CASE j = k
    BY <1>4, <2>1, <2>2
  <2>3. CASE j # k
    BY <1>5, <2>1, <2>3
  <2>. QED  BY <2>2, <2>3
<1>. QED  BY <1>3, <1>4, <1>6, <1>7, <1>8

(* While prepare.sh runs its last run has not ended well.                  *)
LEMMA StillRunning ==
  ASSUME IInv, pc # "idle", last' = last, registry' = registry
  PROVE  Registered'
<1>1. last # "ok"
  BY DEF IInv, Registered
<1>2. registry # <<>> => registry = [n \in Named |-> RegistryOf(n)]
  BY DEF IInv, Registered
<1>3. registry' # <<>> => registry' = [n \in Named |-> RegistryOf(n)]
  BY <1>2
<1>. QED  BY <1>1, <1>3 DEF Registered, RegistryOf

(* StartRun, ParseFails, Abort: no subset is touched.                      *)
LEMMA StartRunIInv ==
  ASSUME IInv, NEW m \in DOMAIN First, NEW f \in BOOLEAN, StartRun(m, f)
  PROVE  IInv'
<1> USE DEF StartRun, files, measurement
<1>1. FileTypes' /\ Genuine' /\ ReadyHasFile'
  BY Untouched
<1>2. /\ at' = First[m] /\ First[m] \in Nat \ {0} /\ last' = None
      /\ \/ pc' = "fetch" /\ mode' # "subsets"
         \/ pc' = "subset" /\ at' = 1
  BY DEF First
<1>3. Progress'
  BY <1>2 DEF Progress, InSubset
<1>4. registry # <<>> => registry = [n \in Named |-> RegistryOf(n)]
  BY DEF IInv, Registered
<1>5. Registered'
  BY <1>2, <1>4, SubsetsAssumption DEF Registered, RegistryOf
<1>. QED  BY <1>1, <1>2, <1>3, <1>5 DEF IInv

LEMMA EndsEarlyIInv ==
  ASSUME IInv, ParseFails \/ Abort
  PROVE  IInv'
<1> USE DEF ParseFails, Abort, files, measurement
<1> USE DEF EndRun
<1>1. UNCHANGED <<at, src, out, manifest, registry, loaded, asked>> /\ pc' = "idle" /\ last' = "failed"
  OBVIOUS
<1>2. FileTypes' /\ Genuine' /\ ReadyHasFile'
  BY <1>1, Untouched
<1>3. Progress'
  BY <1>1 DEF Progress, InSubset
<1>4. registry # <<>> => registry = [n \in Named |-> RegistryOf(n)]
  BY DEF IInv, Registered
<1>5. Registered'
  BY <1>1, <1>4 DEF Registered, RegistryOf
<1>6. at' \in Nat \ {0}
  BY <1>1 DEF IInv
<1>. QED  BY <1>2, <1>3, <1>5, <1>6 DEF IInv

LEMMA GateBuildIInv ==
  ASSUME IInv, Gate \/ Build \/ UNCHANGED vars
  PROVE  IInv'
<1>1. UNCHANGED <<pc, at, mode, last, src, out, manifest, registry, loaded, asked>>
  BY DEF Gate, Build, vars, script, files, measurement
<1>2. FileTypes' /\ Genuine' /\ ReadyHasFile' /\ \A k \in DOMAIN Subsets : Done(k)' <=> Done(k)
  BY <1>1, Untouched
<1>3. Progress'
  <2>1. Progress
    BY DEF IInv
  <2>. QED  BY <1>1, <1>2, <2>1 DEF Progress, InSubset
<1>4. Registered'
  <2>1. Registered
    BY DEF IInv
  <2>. QED  BY <1>1, <1>2, <2>1 DEF Registered, RegistryOf
<1>5. at' \in Nat \ {0}
  BY <1>1 DEF IInv
<1>. QED  BY <1>2, <1>3, <1>4, <1>5 DEF IInv

(* What is loaded is what the file held then.                              *)
LEMMA LoadIInv ==
  ASSUME IInv, Load
  PROVE  IInv'
<1>1. UNCHANGED <<pc, at, mode, last, src, out, manifest, registry, asked>>
  BY DEF Load, script, files
<1>2. FileTypes' /\ ReadyHasFile' /\ \A k \in DOMAIN Subsets : Done(k)' <=> Done(k)
  <2>1. FileTypes'
    BY <1>1 DEF IInv, FileTypes
  <2>2. ReadyHasFile'
    BY <1>1 DEF IInv, ReadyHasFile
  <2>3. \A k \in DOMAIN Subsets : Done(k)' <=> Done(k)
    BY <1>1 DEF Done
  <2>. QED  BY <2>1, <2>2, <2>3
<1>3. Progress'
  <2>1. Progress
    BY DEF IInv
  <2>. QED  BY <1>1, <1>2, <2>1 DEF Progress, InSubset
<1>4. Registered'
  <2>1. Registered
    BY DEF IInv
  <2>. QED  BY <1>1, <1>2, <2>1 DEF Registered, RegistryOf
<1>5. at' \in Nat \ {0}
  BY <1>1 DEF IInv
<1>6. ASSUME NEW k \in DOMAIN Subsets, Subsets[k].name \in DOMAIN loaded', ~asked.allow
      PROVE  FromUpstream(k, loaded'[Subsets[k].name])
  <2>1. /\ out[Subsets[k].name] # None => FromUpstream(k, out[Subsets[k].name].recs)
        /\ Subsets[k].name \in DOMAIN loaded => FromUpstream(k, loaded[Subsets[k].name])
    BY <1>6 DEF IInv, Genuine
  <2>2. \/ loaded' = loaded
        \/ \E name : /\ out[name] # None
                     /\ loaded' = [n \in DOMAIN loaded \cup {name} |->
                                    IF n = name THEN out[name].recs ELSE loaded[n]]
    BY <1>6 DEF Load, Loaded
  <2>3. CASE loaded' = loaded
    BY <1>6, <2>1, <2>3
  <2>4. ASSUME NEW name, out[name] # None,
               loaded' = [n \in DOMAIN loaded \cup {name} |->
                          IF n = name THEN out[name].recs ELSE loaded[n]]
        PROVE  FromUpstream(k, loaded'[Subsets[k].name])
    BY <1>6, <2>1, <2>4
  <2>. QED  BY <2>2, <2>3, <2>4
<1>7. Genuine'
  <2> SUFFICES ASSUME NEW k \in DOMAIN Subsets
               PROVE  /\ src[Subsets[k].name] # None =>
                           src[Subsets[k].name].read <= Len(Upstream[Subsets[k].name])
                      /\ out[Subsets[k].name] # None => FromUpstream(k, out[Subsets[k].name].recs)
                      /\ Subsets[k].name \in DOMAIN loaded' /\ ~asked.allow =>
                           FromUpstream(k, loaded'[Subsets[k].name])
    BY <1>1 DEF Genuine, FromUpstream
  <2>. QED  BY <1>6 DEF IInv, Genuine
<1>. QED  BY <1>2, <1>3, <1>4, <1>5, <1>7 DEF IInv

-----------------------------------------------------------------------------
(* The files of one subset, as they are before a step.                     *)
LEMMA Entries ==
  ASSUME IInv, NEW k \in DOMAIN Subsets
  PROVE  LET n == Subsets[k].name
         IN  /\ src[n] \in Sources \cup {None} /\ src = [src EXCEPT ![n] = src[n]]
             /\ out[n] \in Outputs \cup {None} /\ out = [out EXCEPT ![n] = out[n]]
             /\ manifest[n] \in Seq(Nat) \cup {None} /\ manifest = [manifest EXCEPT ![n] = manifest[n]]
             /\ src[n] # None => src[n] \in Sources /\ src[n].read \in 0 .. Len(Upstream[n])
             /\ out[n] # None => out[n] \in Outputs /\ FromUpstream(k, out[n].recs)
<1> DEFINE n == Subsets[k].name
<1>1. n \in Named /\ Len(Upstream[n]) \in Nat
  BY SubsetTypes
<1>2. FileTypes
  BY DEF IInv
<1>3. /\ src[n] \in Sources \cup {None} /\ src = [src EXCEPT ![n] = src[n]]
      /\ out[n] \in Outputs \cup {None} /\ out = [out EXCEPT ![n] = out[n]]
      /\ manifest[n] \in Seq(Nat) \cup {None} /\ manifest = [manifest EXCEPT ![n] = manifest[n]]
  BY <1>1, <1>2 DEF FileTypes
<1>4. /\ src[n] # None => src[n].read <= Len(Upstream[n])
      /\ out[n] # None => FromUpstream(k, out[n].recs)
  BY DEF IInv, Genuine
<1>5. src[n] # None => src[n] \in Sources /\ src[n].read \in 0 .. Len(Upstream[n])
  BY <1>1, <1>3, <1>4 DEF Sources
<1>. QED  BY <1>3, <1>4, <1>5

(* The data set may be downloaded over the file of a subset: what it holds *)
(* then is the beginning of anything.                                      *)
LEMMA FetchIInv ==
  ASSUME IInv, Fetch \/ EndFetch
  PROVE  IInv'
<1>1. /\ UNCHANGED <<src, manifest, registry, loaded, asked, mode>>
      /\ pc \in {"fetch", "fetching"} /\ mode # "subsets"
      /\ \/ out' = out
         \/ DatasetFile # None /\ out' = [out EXCEPT ![DatasetFile] = Raw]
  <2>1. /\ UNCHANGED <<src, manifest, registry, loaded, asked, mode>>
        /\ pc \in {"fetch", "fetching"}
        /\ \/ out' = out
           \/ DatasetFile # None /\ out' = [out EXCEPT ![DatasetFile] = Raw]
    BY DEF Fetch, EndFetch, AfterItem, EndRun, Goto, Shared, files, measurement
  <2>. QED  BY <2>1 DEF IInv, Progress
<1>2. FileTypes' /\ Genuine' /\ ReadyHasFile'
  <2>1. CASE out' = out
    BY <1>1, <2>1, Untouched
  <2>2. CASE DatasetFile # None /\ out' = [out EXCEPT ![DatasetFile] = Raw]
    <3>1. PICK k \in DOMAIN Subsets : DatasetFile = Subsets[k].name
      BY <2>2, FetchesAssumption DEF Named
    <3> DEFINE n == Subsets[k].name
    <3>2. Raw \in Outputs /\ Raw.recs = <<>>
      BY DEF Raw, Outputs
    <3>3. Raw # None /\ FromUpstream(k, <<>>)
      <4>1. Raw # None
        BY <3>2, NoneIsNoFile
      <4>2. 0 \in 0 .. Len(Upstream[n])
        BY SubsetTypes
      <4>3. Begins(<<>>, Pick(Subsets[k], 0))
        BY <4>2, PickType, EmptyBegins
      <4>. QED  BY <4>1, <4>2, <4>3 DEF FromUpstream
    <3> HIDE DEF n
    <3>4. /\ src[n] \in Sources \cup {None} /\ src' = [src EXCEPT ![n] = src[n]]
          /\ manifest[n] \in Seq(Nat) \cup {None}
          /\ manifest' = [manifest EXCEPT ![n] = manifest[n]]
          /\ src[n] # None => src[n].read <= Len(Upstream[n])
      BY <1>1, Entries, SubsetTypes DEF n
    <3>5. Replaces(k, src[n], Raw, manifest[n])
      BY <1>1, <2>2, <3>1, <3>2, <3>3, <3>4 DEF Replaces, n
    <3>. QED  BY <1>1, <3>5, Touched
  <2>. QED  BY <1>1, <2>1, <2>2
<1>3. at \in Nat \ {0} /\ last # "ok"
  BY <1>1 DEF IInv, Registered
<1>4. /\ \/ pc' = "subset" /\ at' = 1
         \/ pc' = "fetch" /\ at' = at + 1
         \/ pc' = "fetching" /\ at' = at
         \/ pc' = "idle" /\ at' = at
      /\ last' = "ok" => pc' = "idle" /\ mode # "all"
  BY <1>3 DEF Fetch, EndFetch, AfterItem, EndRun, Goto
<1>5. at' \in Nat \ {0}
  BY <1>3, <1>4
<1>6. Progress'
  BY <1>1, <1>4 DEF Progress, InSubset
<1>7. Registered'
  <2>1. registry # <<>> => registry = [n \in Named |-> RegistryOf(n)]
    BY DEF IInv, Registered
  <2>. QED  BY <1>1, <1>4, <2>1 DEF Registered, RegistryOf
<1>. QED  BY <1>2, <1>5, <1>6, <1>7 DEF IInv

(* prepare.sh in the middle of its subsets.                                *)
LEMMA Before ==
  ASSUME IInv, pc \in InSubset \cup {"subset"}, at \in DOMAIN Subsets
  PROVE  /\ at \in Nat \ {0} /\ pc # "idle"
         /\ \A k \in 1 .. at - 1 : k \in DOMAIN Subsets \ {at} /\ Done(k)
<1>1. at \in Nat \ {0} /\ pc # "idle"
  BY DEF IInv, InSubset
<1>2. at <= Len(Subsets) /\ Len(Subsets) \in Nat /\ DOMAIN Subsets = 1 .. Len(Subsets)
  BY SubsetTypes
<1>3. \A k \in 1 .. at - 1 : k \in DOMAIN Subsets => Done(k)
  BY DEF IInv, Progress
<1>. QED  BY <1>1, <1>2, <1>3

LEMMA BeginSubsetIInv ==
  ASSUME IInv, BeginSubset
  PROVE  IInv'
<1> DEFINE sub == Subsets[at]
           n == sub.name
<1>1. at \in DOMAIN Subsets /\ pc = "subset"
  BY SubsetTypes DEF BeginSubset, IInv
<1>2. /\ at \in Nat \ {0} /\ pc # "idle"
      /\ \A k \in 1 .. at - 1 : k \in DOMAIN Subsets \ {at} /\ Done(k)
  BY <1>1, Before
<1>3. UNCHANGED <<last, registry, loaded, asked>>
  BY DEF BeginSubset, Goto, measurement, files
<1>4. Registered'
  BY <1>2, <1>3, StillRunning
<1>5. CASE ~sub.url
  <2>1. /\ pc' = "subset" /\ at' = at + 1 /\ UNCHANGED <<src, out>>
        /\ manifest' = [manifest EXCEPT ![n] = <<>>]
    BY <1>5 DEF BeginSubset, Goto
  <2>2. <<>> \in Seq(Nat) /\ <<>> # None
    <3>1. <<>> \in Seq(Nat)
      OBVIOUS
    <3>. QED  BY <3>1, NoneIsNoFile, Zenon
  <2>3. /\ FileTypes' /\ Genuine' /\ ReadyHasFile'
        /\ \A j \in DOMAIN Subsets \ {at} : Done(j)' <=> Done(j)
    <3>1. src' = [src EXCEPT ![n] = src[n]] /\ out' = [out EXCEPT ![n] = out[n]]
      BY <1>1, <2>1, Entries
    <3>2. /\ src[n] \in Sources \cup {None} /\ out[n] \in Outputs \cup {None}
          /\ src[n] # None => src[n].read <= Len(Upstream[n])
          /\ out[n] # None => FromUpstream(at, out[n].recs)
      BY <1>1, Entries, SubsetTypes
    <3>3. Replaces(at, src[n], out[n], <<>>)
      BY <1>1, <1>3, <2>1, <2>2, <3>1, <3>2 DEF Replaces
    <3>. QED  BY <1>1, <1>3, <3>3, Touched
  <2>4. \A k \in 1 .. at' - 1 : Done(k)'
    <3>. TAKE k \in 1 .. at' - 1
    <3>1. ASSUME k = at PROVE Done(k)'
      BY <1>5, <3>1 DEF Done
    <3>2. ASSUME k # at PROVE Done(k)'
      BY <1>2, <2>1, <2>3, <3>2
    <3>. QED  BY <3>1, <3>2
  <2>5. Progress'
    BY <2>1, <2>4 DEF Progress, InSubset
  <2>6. at' \in Nat \ {0}
    BY <1>2, <2>1
  <2>. QED  BY <1>4, <2>3, <2>5, <2>6 DEF IInv
<1>6. CASE sub.url /\ src[n] # None /\ ~force
  <2>1. pc' = "parse" /\ at' = at /\ UNCHANGED <<src, out, manifest>>
    BY <1>6 DEF BeginSubset, Goto, files
  <2>2. /\ FileTypes' /\ Genuine' /\ ReadyHasFile'
        /\ \A k \in DOMAIN Subsets : Done(k)' <=> Done(k)
    BY <1>3, <2>1, Untouched
  <2>3. \A k \in 1 .. at' - 1 : k \in DOMAIN Subsets => Done(k)'
    BY <1>2, <2>1, <2>2
  <2>4. src'[Subsets[at'].name] # None /\ at' \in DOMAIN Subsets /\ Subsets[at'].url
    BY <1>1, <1>6, <2>1
  <2>5. Progress'
    BY <2>1, <2>3, <2>4 DEF Progress, InSubset
  <2>. QED  BY <1>2, <1>4, <2>1, <2>2, <2>5 DEF IInv
<1>7. CASE sub.url /\ ~(src[n] # None /\ ~force)
  <2> DEFINE s == [read |-> 0, torn |-> FALSE]
  <2>1. /\ pc' = "download" /\ at' = at /\ UNCHANGED <<out, manifest>>
        /\ src' = [src EXCEPT ![n] = s]
    BY <1>7 DEF BeginSubset, Goto
  <2>2. s \in Sources /\ s # None /\ s.read <= Len(Upstream[n])
    <3>1. s \in Sources
      BY DEF Sources
    <3>2. s.read = 0 /\ Len(Upstream[n]) \in Nat
      BY <1>1, SubsetTypes
    <3> HIDE DEF s
    <3>. QED  BY <3>1, <3>2, NoneIsNoFile
  <2>3. /\ FileTypes' /\ Genuine' /\ ReadyHasFile' /\ src'[n] = s
        /\ \A j \in DOMAIN Subsets \ {at} : Done(j)' <=> Done(j)
    <3>1. out' = [out EXCEPT ![n] = out[n]] /\ manifest' = [manifest EXCEPT ![n] = manifest[n]]
      BY <1>1, <2>1, Entries
    <3>2. /\ out[n] \in Outputs \cup {None} /\ manifest[n] \in Seq(Nat) \cup {None}
          /\ out[n] # None => FromUpstream(at, out[n].recs)
      BY <1>1, Entries
    <3> HIDE DEF s
    <3>3. Replaces(at, s, out[n], manifest[n])
      BY <1>1, <1>3, <2>1, <2>2, <3>1, <3>2 DEF Replaces
    <3>. QED  BY <1>1, <1>3, <3>3, Touched
  <2>4. \A k \in 1 .. at' - 1 : k \in DOMAIN Subsets => Done(k)'
    BY <1>2, <2>1, <2>3
  <2>5. src'[Subsets[at'].name] # None /\ at' \in DOMAIN Subsets /\ Subsets[at'].url
    BY <1>1, <1>7, <2>1, <2>2, <2>3
  <2>6. Progress'
    BY <2>1, <2>4, <2>5 DEF Progress, InSubset
  <2>. QED  BY <1>2, <1>4, <2>1, <2>3, <2>6 DEF IInv
<1>. QED  BY <1>5, <1>6, <1>7

(* A source grows by half a record at a time, and no further than upstream.*)
LEMMA DownloadIInv ==
  ASSUME IInv, Download
  PROVE  IInv'
<1> DEFINE n == Subsets[at].name
           f == src[n]
           g == IF f.torn THEN [read |-> f.read + 1, torn |-> FALSE] ELSE [f EXCEPT !.torn = TRUE]
<1>1. at \in DOMAIN Subsets /\ Subsets[at].url /\ src[n] # None /\ pc = "download"
  BY DEF Download, IInv, Progress, InSubset
<1>2. /\ at \in Nat \ {0} /\ pc # "idle"
      /\ \A k \in 1 .. at - 1 : k \in DOMAIN Subsets \ {at} /\ Done(k)
  BY <1>1, Before DEF InSubset
<1>3. UNCHANGED <<at, last, registry, loaded, asked, out, manifest>>
  BY DEF Download, Goto, measurement, files
<1>4. Registered'
  BY <1>2, <1>3, StillRunning
<1>5. f \in Sources /\ f.read \in 0 .. Len(Upstream[n]) /\ Len(Upstream[n]) \in Nat
  BY <1>1, Entries, SubsetTypes
<1>6. CASE f.read = Len(Upstream[n])
  <2>1. pc' = "parse" /\ src' = src
    BY <1>6 DEF Download, Goto, files
  <2>2. /\ FileTypes' /\ Genuine' /\ ReadyHasFile'
        /\ \A k \in DOMAIN Subsets : Done(k)' <=> Done(k)
    BY <1>3, <2>1, Untouched
  <2>3. \A k \in 1 .. at' - 1 : k \in DOMAIN Subsets => Done(k)'
    BY <1>2, <1>3, <2>2
  <2>4. src'[Subsets[at'].name] # None /\ at' \in DOMAIN Subsets /\ Subsets[at'].url
    BY <1>1, <1>3, <2>1
  <2>5. Progress'
    BY <2>1, <2>3, <2>4 DEF Progress, InSubset
  <2>. QED  BY <1>2, <1>3, <1>4, <2>2, <2>5 DEF IInv
<1>7. CASE f.read # Len(Upstream[n])
  <2>1. pc' = "download" /\ src' = [src EXCEPT ![n] = g]
    BY <1>7 DEF Download, Goto
  <2>2. g \in Sources /\ g.read <= Len(Upstream[n])
    <3>1. f.read + 1 \in Nat /\ f.read + 1 <= Len(Upstream[n]) /\ f.read <= Len(Upstream[n])
      BY <1>5, <1>7
    <3>2. CASE f.torn
      <4>1. g = [read |-> f.read + 1, torn |-> FALSE]
        BY <3>2
      <4> HIDE DEF g, f
      <4>. QED  BY <3>1, <4>1 DEF Sources
    <3>3. CASE ~f.torn
      <4>1. g = [f EXCEPT !.torn = TRUE]
        BY <3>3
      <4> HIDE DEF g, f
      <4>. QED  BY <1>5, <3>1, <4>1 DEF Sources
    <3>. QED  BY <3>2, <3>3
  <2> HIDE DEF g
  <2>3. g # None
    BY <2>2, NoneIsNoFile
  <2>4. /\ FileTypes' /\ Genuine' /\ ReadyHasFile' /\ src'[n] = g
        /\ \A j \in DOMAIN Subsets \ {at} : Done(j)' <=> Done(j)
    <3>1. out' = [out EXCEPT ![n] = out[n]] /\ manifest' = [manifest EXCEPT ![n] = manifest[n]]
      BY <1>1, <1>3, Entries
    <3>2. /\ out[n] \in Outputs \cup {None} /\ manifest[n] \in Seq(Nat) \cup {None}
          /\ out[n] # None => FromUpstream(at, out[n].recs)
      BY <1>1, Entries
    <3>3. Replaces(at, g, out[n], manifest[n])
      BY <1>1, <1>3, <2>1, <2>2, <2>3, <3>1, <3>2 DEF Replaces
    <3>. QED  BY <1>1, <1>3, <3>3, Touched
  <2>5. \A k \in 1 .. at' - 1 : k \in DOMAIN Subsets => Done(k)'
    BY <1>2, <1>3, <2>4
  <2>6. src'[Subsets[at'].name] # None /\ at' \in DOMAIN Subsets /\ Subsets[at'].url
    BY <1>1, <1>3, <2>3, <2>4
  <2>7. Progress'
    BY <2>1, <2>5, <2>6 DEF Progress, InSubset
  <2>. QED  BY <1>2, <1>3, <1>4, <2>4, <2>7 DEF IInv
<1>. QED  BY <1>6, <1>7

(* The subset is emptied: the beginning of what is to be written.          *)
LEMMA ParseIInv ==
  ASSUME IInv, Parse
  PROVE  IInv'
<1> DEFINE n == Subsets[at].name
           picked == Pick(Subsets[at], src[n].read)
<1>1. at \in DOMAIN Subsets /\ Subsets[at].url /\ src[n] # None /\ pc = "parse"
  BY DEF Parse, IInv, Progress, InSubset
<1>2. /\ at \in Nat \ {0} /\ pc # "idle"
      /\ \A k \in 1 .. at - 1 : k \in DOMAIN Subsets \ {at} /\ Done(k)
  BY <1>1, Before DEF InSubset
<1>3. /\ UNCHANGED <<at, last, registry, loaded, asked, src, manifest>> /\ pc' = "write"
      /\ out' = [out EXCEPT ![n] = Empty]
  BY DEF Parse, Goto, measurement, files
<1>4. Registered'
  BY <1>2, <1>3, StillRunning
<1>5. src[n] \in Sources /\ src[n].read \in 0 .. Len(Upstream[n])
  BY <1>1, Entries
<1>6. picked \in Seq(Nat)
  BY <1>1, <1>5, PickType
<1>7. Empty \in Outputs /\ Empty.recs = <<>> /\ Empty.torn = FALSE
  BY DEF Empty, Outputs
<1>8. Empty # None /\ Begins(Empty.recs, picked)
  <2>1. Empty # None
    BY <1>7, NoneIsNoFile
  <2> HIDE DEF picked
  <2>2. Begins(<<>>, picked)
    BY <1>6, EmptyBegins
  <2>. QED  BY <1>7, <2>1, <2>2
<1>9. FromUpstream(at, Empty.recs)
  BY <1>5, <1>8 DEF FromUpstream
<1>10. /\ FileTypes' /\ Genuine' /\ ReadyHasFile' /\ out'[n] = Empty
       /\ \A j \in DOMAIN Subsets \ {at} : Done(j)' <=> Done(j)
  <2>1. src' = [src EXCEPT ![n] = src[n]] /\ manifest' = [manifest EXCEPT ![n] = manifest[n]]
    BY <1>1, <1>3, Entries
  <2>2. /\ src[n] \in Sources \cup {None} /\ manifest[n] \in Seq(Nat) \cup {None}
        /\ src[n] # None => src[n].read <= Len(Upstream[n])
    BY <1>1, Entries, SubsetTypes
  <2>3. Replaces(at, src[n], Empty, manifest[n])
    BY <1>1, <1>3, <1>7, <1>8, <1>9, <2>1, <2>2 DEF Replaces
  <2>. QED  BY <1>1, <1>3, <2>3, Touched
<1>11. \A k \in 1 .. at' - 1 : k \in DOMAIN Subsets => Done(k)'
  BY <1>2, <1>3, <1>10
<1>12. src'[Subsets[at'].name] # None /\ at' \in DOMAIN Subsets /\ Subsets[at'].url
  BY <1>1, <1>3
<1>13. /\ out'[Subsets[at'].name] # None /\ ~out'[Subsets[at'].name].torn
       /\ Begins(out'[Subsets[at'].name].recs, Pick(Subsets[at'], src'[Subsets[at'].name].read))
  BY <1>3, <1>7, <1>8, <1>10
<1>14. Progress'
  BY <1>3, <1>11, <1>12, <1>13 DEF Progress, InSubset, Begins
<1>. QED  BY <1>2, <1>3, <1>4, <1>10, <1>14 DEF IInv

(* A subset grows by half a line at a time along its pick, and what is     *)
(* whole goes into the manifest.                                           *)
LEMMA WriteSubsetIInv ==
  ASSUME IInv, WriteSubset
  PROVE  IInv'
<1> DEFINE n == Subsets[at].name
           f == out[n]
           picked == Pick(Subsets[at], src[n].read)
           g == IF f.torn THEN [recs |-> Append(f.recs, picked[Len(f.recs) + 1]), torn |-> FALSE]
                ELSE [f EXCEPT !.torn = TRUE]
<1>1. /\ at \in DOMAIN Subsets /\ Subsets[at].url /\ src[n] # None /\ pc = "write"
      /\ f # None /\ Begins(f.recs, picked) /\ (f.torn => f.recs # picked)
  BY DEF WriteSubset, IInv, Progress, InSubset
<1>2. /\ at \in Nat \ {0} /\ pc # "idle"
      /\ \A k \in 1 .. at - 1 : k \in DOMAIN Subsets \ {at} /\ Done(k)
  BY <1>1, Before DEF InSubset
<1>3. UNCHANGED <<last, registry, loaded, asked, src>>
  BY DEF WriteSubset, Goto, measurement, files
<1>4. Registered'
  BY <1>2, <1>3, StillRunning
<1>5. src[n] \in Sources /\ src[n].read \in 0 .. Len(Upstream[n]) /\ f \in Outputs
  BY <1>1, Entries
<1>6. picked \in Seq(Nat) /\ f.recs \in Seq(Nat) /\ f.torn \in BOOLEAN
  BY <1>1, <1>5, PickType DEF Outputs
<1>7. src' = [src EXCEPT ![n] = src[n]] /\ src[n].read <= Len(Upstream[n])
  BY <1>1, <1>3, Entries, SubsetTypes
<1>8. CASE f.recs = picked
  <2>1. /\ pc' = "subset" /\ at' = at + 1 /\ out' = out
        /\ manifest' = [manifest EXCEPT ![n] = picked]
    BY <1>8 DEF WriteSubset, Goto
  <2>2. picked # None
    BY <1>6, NoneIsNoFile
  <2> HIDE DEF picked
  <2>3. /\ FileTypes' /\ Genuine' /\ ReadyHasFile' /\ manifest'[n] = picked
        /\ \A j \in DOMAIN Subsets \ {at} : Done(j)' <=> Done(j)
    <3>1. /\ out' = [out EXCEPT ![n] = f] /\ FromUpstream(at, f.recs)
      BY <1>1, <2>1, Entries
    <3>2. Replaces(at, src[n], f, picked)
      BY <1>1, <1>3, <1>5, <1>6, <1>7, <2>1, <2>2, <3>1 DEF Replaces
    <3>. QED  BY <1>1, <1>3, <3>2, Touched
  <2>4. \A k \in 1 .. at' - 1 : k \in DOMAIN Subsets => Done(k)'
    <3>. TAKE k \in 1 .. at' - 1
    <3>1. ASSUME k = at PROVE Done(k)'
      <4>1. ~f.torn
        BY <1>1, <1>8
      <4>. QED  BY <1>1, <1>3, <1>8, <2>1, <2>3, <3>1, <4>1 DEF Done, picked
    <3>2. ASSUME k # at PROVE Done(k)'
      BY <1>2, <2>1, <2>3, <3>2
    <3>. QED  BY <3>1, <3>2
  <2>5. Progress'
    BY <2>1, <2>4 DEF Progress, InSubset
  <2>6. at' \in Nat \ {0}
    BY <1>2, <2>1
  <2>. QED  BY <1>4, <2>3, <2>5, <2>6 DEF IInv
<1>9. CASE f.recs # picked
  <2>1. pc' = "write" /\ at' = at /\ manifest' = manifest /\ out' = [out EXCEPT ![n] = g]
    BY <1>9 DEF WriteSubset, Goto
  <2>2. g \in Outputs /\ Begins(g.recs, picked) /\ (g.torn => g.recs # picked)
    <3>1. CASE f.torn
      <4> DEFINE more == Append(f.recs, picked[Len(f.recs) + 1])
      <4>1. g = [recs |-> more, torn |-> FALSE]
        BY <3>1
      <4>2. more \in Seq(Nat) /\ Begins(more, picked)
        <5> HIDE DEF picked, f
        <5>. QED  BY <1>1, <1>6, <1>9, NextBegins
      <4> HIDE DEF g, more, picked
      <4>. QED  BY <4>1, <4>2 DEF Outputs
    <3>2. CASE ~f.torn
      <4>1. g = [f EXCEPT !.torn = TRUE]
        BY <3>2
      <4> HIDE DEF g, f, picked
      <4>2. g \in Outputs /\ g.recs = f.recs
        BY <1>5, <4>1 DEF Outputs
      <4>. QED  BY <1>1, <1>9, <4>2
    <3>. QED  BY <3>1, <3>2
  <2> HIDE DEF g
  <2>3. g # None
    BY <2>2, NoneIsNoFile
  <2>4. FromUpstream(at, g.recs)
    BY <1>5, <2>2 DEF FromUpstream
  <2>5. /\ FileTypes' /\ Genuine' /\ ReadyHasFile' /\ out'[n] = g
        /\ \A j \in DOMAIN Subsets \ {at} : Done(j)' <=> Done(j)
    <3>1. /\ manifest' = [manifest EXCEPT ![n] = manifest[n]]
          /\ manifest[n] \in Seq(Nat) \cup {None}
      BY <1>1, <2>1, Entries
    <3>2. Replaces(at, src[n], g, manifest[n])
      BY <1>1, <1>3, <1>5, <1>7, <2>1, <2>2, <2>3, <2>4, <3>1 DEF Replaces
    <3>. QED  BY <1>1, <1>3, <3>2, Touched
  <2>6. \A k \in 1 .. at' - 1 : k \in DOMAIN Subsets => Done(k)'
    BY <1>2, <2>1, <2>5
  <2>7. src'[Subsets[at'].name] # None /\ at' \in DOMAIN Subsets /\ Subsets[at'].url
    BY <1>1, <1>3, <2>1
  <2>8. LET now == out'[Subsets[at'].name]
            whole == Pick(Subsets[at'], src'[Subsets[at'].name].read)
        IN  now # None /\ Begins(now.recs, whole) /\ (now.torn => now.recs # whole)
    BY <1>3, <2>1, <2>2, <2>3, <2>5
  <2>9. Progress'
    BY <2>1, <2>6, <2>7, <2>8 DEF Progress, InSubset, Begins
  <2>. QED  BY <1>2, <1>4, <2>1, <2>5, <2>9 DEF IInv
<1>. QED  BY <1>8, <1>9

(* The registry is written when every subset is done.                      *)
LEMMA OpenRegistryIInv ==
  ASSUME IInv, OpenRegistry
  PROVE  IInv'
<1>1. /\ pc = "subset" /\ at > Len(Subsets) /\ pc' = "registry" /\ registry' = <<>>
      /\ UNCHANGED <<at, last, src, out, manifest, loaded, asked>>
  BY DEF OpenRegistry, Goto, measurement
<1>2. /\ FileTypes' /\ Genuine'
      /\ \A k \in DOMAIN Subsets : Done(k)' <=> Done(k)
  BY <1>1, Untouched
<1>3. at \in Nat \ {0} /\ last # "ok"
  BY <1>1 DEF IInv, Registered
<1>4. \A k \in DOMAIN Subsets : k \in 1 .. at - 1
  BY <1>1, <1>3, SubsetTypes
<1>5. \A k \in DOMAIN Subsets : Done(k)
  BY <1>1, <1>4 DEF IInv, Progress
<1>6. Progress'
  BY <1>1, <1>2, <1>5 DEF Progress, InSubset
<1>7. Registered'
  BY <1>1, <1>3 DEF Registered, RegistryOf
<1>8. ReadyHasFile'
  BY <1>1 DEF ReadyHasFile
<1>. QED  BY <1>1, <1>2, <1>3, <1>6, <1>7, <1>8 DEF IInv

LEMMA WriteRegistryIInv ==
  ASSUME IInv, WriteRegistry
  PROVE  IInv'
<1>1. /\ pc = "registry" /\ pc' = "idle" /\ last' = "ok"
      /\ registry' = [n \in Named |-> RegistryOf(n)]
      /\ UNCHANGED <<at, src, out, manifest, loaded, asked>>
  BY DEF WriteRegistry, EndRun, measurement, RegistryOf
<1>2. /\ FileTypes' /\ Genuine'
      /\ \A k \in DOMAIN Subsets : Done(k)' <=> Done(k)
  BY <1>1, Untouched
<1>3. \A k \in DOMAIN Subsets : Done(k)
  BY <1>1 DEF IInv, Progress
<1>4. Progress'
  BY <1>1 DEF Progress, InSubset
<1>5. Registered'
  BY <1>1, <1>2, <1>3 DEF Registered, RegistryOf
<1>6. ASSUME NEW k \in DOMAIN Subsets, registry'[Subsets[k].name]
      PROVE  out[Subsets[k].name] # None /\ manifest[Subsets[k].name] # None
  <2>1. RegistryOf(Subsets[k].name)
    BY <1>1, <1>6, SubsetTypes
  <2>2. Subsets[k].url
    BY <2>1, SubsetsAssumption DEF RegistryOf
  <2>3. out[Subsets[k].name] # None /\ out[Subsets[k].name].recs = manifest[Subsets[k].name]
    BY <1>3, <2>2 DEF Done
  <2>4. out[Subsets[k].name].recs \in Seq(Nat)
    BY <2>3, Entries DEF Outputs
  <2>. QED  BY <2>3, <2>4, NoneIsNoFile
<1>7. ReadyHasFile'
  BY <1>1, <1>6 DEF ReadyHasFile
<1>8. at' \in Nat \ {0}
  BY <1>1 DEF IInv
<1>. QED  BY <1>2, <1>4, <1>5, <1>7, <1>8 DEF IInv

LEMMA NextIInv == IInv /\ [Next]_vars => IInv'
<1> SUFFICES ASSUME IInv, [Next]_vars PROVE IInv'
  OBVIOUS
<1>1. ASSUME NEW m \in DOMAIN First, NEW f \in BOOLEAN, StartRun(m, f) PROVE IInv'
  BY <1>1, StartRunIInv
<1>2. CASE Fetch \/ EndFetch
  BY <1>2, FetchIInv
<1>3. CASE BeginSubset
  BY <1>3, BeginSubsetIInv
<1>4. CASE Download
  BY <1>4, DownloadIInv
<1>5. CASE Parse
  BY <1>5, ParseIInv
<1>6. CASE ParseFails \/ Abort
  BY <1>6, EndsEarlyIInv
<1>7. CASE WriteSubset
  BY <1>7, WriteSubsetIInv
<1>8. CASE OpenRegistry
  BY <1>8, OpenRegistryIInv
<1>9. CASE WriteRegistry
  BY <1>9, WriteRegistryIInv
<1>10. CASE Gate \/ Build \/ UNCHANGED vars
  BY <1>10, GateBuildIInv
<1>11. CASE Load
  BY <1>11, LoadIInv
<1>. QED
  BY <1>1, <1>2, <1>3, <1>4, <1>5, <1>6, <1>7, <1>8, <1>9, <1>10, <1>11 DEF Next, RunStep

THEOREM Inductive == Spec => []IInv
BY InitIInv, NextIInv, PTL DEF Spec

-----------------------------------------------------------------------------
(* What the registry says is true of the files beside it, whatever         *)
(* subcommands ran before and wherever they were killed: a data set called *)
(* materialised has its files, and after a run of `subsets` or `all` that  *)
(* ended well these agree with each other and with the source.  `dataset`  *)
(* may overwrite a subset afterwards (prepare.sh 54; the registry is       *)
(* written last, and receipt.py 60 reads nothing else).                    *)
THEOREM TheRegistryIsTrue == Spec => []RegistryIsTrue
<1>1. IInv => RegistryIsTrue
  <2> SUFFICES ASSUME IInv PROVE RegistryIsTrue
    OBVIOUS
  <2>1. ReadyHasFile
    BY DEF IInv
  <2>2. ASSUME last = "ok", mode \in {"all", "subsets"}, NEW k \in Real
        PROVE  LET name == Subsets[k].name
               IN  /\ name \in DOMAIN registry /\ registry[name]
                   /\ out[name] # None /\ src[name] # None
                   /\ ~out[name].torn
                   /\ out[name].recs = manifest[name]
                   /\ out[name].recs = Pick(Subsets[k], src[name].read)
    <3>1. k \in DOMAIN Subsets /\ Subsets[k].url /\ Subsets[k].name \in Named
      BY SubsetTypes DEF Real
    <3>2. Done(k) /\ registry = [n \in Named |-> RegistryOf(n)]
      BY <2>2, <3>1 DEF IInv, Registered
    <3>3. RegistryOf(Subsets[k].name)
      BY <3>1 DEF RegistryOf
    <3>4. Subsets[k].name \in DOMAIN registry /\ registry[Subsets[k].name]
      BY <3>1, <3>2, <3>3
    <3>. QED  BY <3>1, <3>2, <3>4 DEF Done
  <2>. QED  BY <2>1, <2>2 DEF RegistryIsTrue, SuccessIsCoherent
<1>. QED  BY <1>1, Inductive, PTL

(* A measurement that did not allow missing data sets is built from        *)
(* records behind the url in the fixed order, whenever it loads them and   *)
(* whatever prepare.sh is doing then (load_subset, common.py).             *)
THEOREM RealDataIsMeasured == Spec => []MeasuredOnRealData
<1>1. IInv => MeasuredOnRealData
  BY DEF IInv, Genuine, FromUpstream, Begins, MeasuredOnRealData
<1>. QED  BY <1>1, Inductive, PTL

-----------------------------------------------------------------------------
(* The rounds of the sessions.  Lists of cases in which a round but the    *)
(* first directly follows the one before it can be put one behind the      *)
(* other.                                                                  *)
Follows(after, before) ==
  /\ after.session = before.session /\ after.tenant = before.tenant
  /\ before.round = after.round - 1

Chained(list) ==
  \E n \in Nat :
    /\ list = [i \in 1 .. n |-> list[i]]
    /\ \A i \in 1 .. n : list[i].round > 0 => i > 1 /\ Follows(list[i], list[i - 1])

LEMMA ChainsJoin ==
  ASSUME NEW a, NEW b, Chained(a), Chained(b)
  PROVE  Chained(a \o b)
<1>1. PICK m \in Nat :
        /\ a = [i \in 1 .. m |-> a[i]]
        /\ \A i \in 1 .. m : a[i].round > 0 => i > 1 /\ Follows(a[i], a[i - 1])
  BY DEF Chained
<1>2. PICK n \in Nat :
        /\ b = [i \in 1 .. n |-> b[i]]
        /\ \A i \in 1 .. n : b[i].round > 0 => i > 1 /\ Follows(b[i], b[i - 1])
  BY DEF Chained
<1> DEFINE S == {a[i] : i \in 1 .. m} \cup {b[i] : i \in 1 .. n}
           c == a \o b
<1>3. a \in Seq(S) /\ Len(a) = m
  <2>1. a \in [1 .. m -> S]
    BY <1>1
  <2>. QED  BY <2>1, IsASeq, LenProperties
<1>4. b \in Seq(S) /\ Len(b) = n
  <2>1. b \in [1 .. n -> S]
    BY <1>2
  <2>. QED  BY <2>1, IsASeq, LenProperties
<1>5. /\ c \in Seq(S) /\ Len(c) = m + n
      /\ \A i \in 1 .. m + n : c[i] = IF i <= m THEN a[i] ELSE b[i - m]
  <2> HIDE DEF S
  <2>1. /\ a \o b \in Seq(S) /\ Len(a \o b) = Len(a) + Len(b)
        /\ \A i \in 1 .. Len(a) + Len(b) :
             (a \o b)[i] = IF i <= Len(a) THEN a[i] ELSE b[i - Len(a)]
    BY <1>3, <1>4, ConcatProperties, Zenon
  <2>. QED  BY <1>3, <1>4, <2>1, Zenon
<1>6. c = [i \in 1 .. m + n |-> c[i]]
  <2> HIDE DEF c, S
  <2>1. c \in [1 .. Len(c) -> S]
    BY <1>5, LenProperties
  <2>. QED  BY <1>5, <2>1
<1> HIDE DEF c
<1>7. ASSUME NEW i \in 1 .. m + n, c[i].round > 0
      PROVE  i > 1 /\ Follows(c[i], c[i - 1])
  <2>1. CASE i <= m
    <3>1. i \in 1 .. m /\ c[i] = a[i]
      BY <1>5, <2>1
    <3>2. i > 1 /\ Follows(a[i], a[i - 1])
      BY <1>1, <1>7, <3>1
    <3>3. c[i - 1] = a[i - 1]
      BY <1>5, <3>1, <3>2
    <3>. QED  BY <3>1, <3>2, <3>3
  <2>2. CASE i > m
    <3>1. i - m \in 1 .. n /\ c[i] = b[i - m]
      BY <1>5, <2>2
    <3>2. i - m > 1 /\ Follows(b[i - m], b[(i - m) - 1])
      BY <1>2, <1>7, <3>1
    <3>3. i - 1 \in 1 .. m + n /\ ~(i - 1 <= m) /\ (i - 1) - m = (i - m) - 1
      BY <3>2
    <3>4. c[i - 1] = b[(i - m) - 1]
      BY <1>5, <3>3
    <3>. QED  BY <3>1, <3>2, <3>4
  <2>3. i <= m \/ i > m
    OBVIOUS
  <2>. QED  BY <2>1, <2>2, <2>3
<1>8. m + n \in Nat
  OBVIOUS
<1>9. Chained(c)
  BY <1>6, <1>7, <1>8 DEF Chained
<1>. QED  BY <1>9 DEF c

LEMMA Divided ==
  ASSUME NEW n \in Nat, n > 0, NEW m \in Nat
  PROVE  /\ m = n * (m \div n) + (m % n)
         /\ m \div n \in Nat /\ m % n \in 0 .. n - 1
OBVIOUS

LEMMA Quotient ==
  ASSUME NEW n \in Nat, n > 0, NEW q \in Nat, NEW r \in 0 .. n - 1, NEW m \in Nat,
         m = n * q + r
  PROVE  m \div n = q /\ m % n = r
OBVIOUS

(* Numbering goes through the rounds of a session before the next session. *)
LEMMA RoundBefore ==
  ASSUME NEW n \in Nat, n > 0, NEW m \in Nat, m % n > 0
  PROVE  m > 0 /\ (m - 1) \div n = m \div n /\ (m - 1) % n = (m % n) - 1
<1> DEFINE q == m \div n
           r == m % n
<1>1. m = n * q + r /\ q \in Nat /\ r \in 0 .. n - 1
  BY Divided
<1>2. n * q \in Nat
  BY <1>1
<1> HIDE DEF q, r
<1>3. r > 0 /\ r - 1 \in 0 .. n - 1
  BY <1>1 DEF r
<1>4. m - 1 \in Nat /\ m - 1 = n * q + (r - 1)
  BY <1>1, <1>2, <1>3
<1>5. (m - 1) \div n = q /\ (m - 1) % n = r - 1
  BY <1>1, <1>3, <1>4, Quotient
<1>. QED  BY <1>4, <1>5 DEF q, r

LEMMA DialogueChained ==
  ASSUME NEW sub, NEW tenant, NEW sessions \in Nat, NEW rounds \in Nat
  PROVE  Chained(Dialogue(sub, tenant, sessions, rounds))
<1> DEFINE d == Dialogue(sub, tenant, sessions, rounds)
           n == sessions * rounds
<1>1. n \in Nat
  OBVIOUS
<1>2. rounds = 0 => n = 0
  OBVIOUS
<1>3. /\ d = [i \in 1 .. n |-> d[i]]
      /\ \A i \in 1 .. n : /\ d[i].session = (i - 1) \div rounds /\ d[i].tenant = tenant
                           /\ d[i].round = (i - 1) % rounds
  BY DEF Dialogue
<1> HIDE DEF d, n
<1>4. ASSUME NEW i \in 1 .. n, d[i].round > 0
      PROVE  i > 1 /\ Follows(d[i], d[i - 1])
  <2>1. rounds > 0 /\ i - 1 \in Nat
    BY <1>1, <1>2
  <2>2. (i - 1) % rounds > 0
    BY <1>3, <1>4
  <2>3. /\ i - 1 > 0
        /\ ((i - 1) - 1) \div rounds = (i - 1) \div rounds
        /\ ((i - 1) - 1) % rounds = ((i - 1) % rounds) - 1
    BY <2>1, <2>2, RoundBefore
  <2>4. i > 1 /\ i - 1 \in 1 .. n
    BY <1>1, <2>1, <2>3
  <2>. QED  BY <1>3, <2>3, <2>4 DEF Follows
<1>5. Chained(d)
  BY <1>1, <1>3, <1>4 DEF Chained
<1>. QED  BY <1>5 DEF d

LEMMA PlainChained ==
  ASSUME NEW sub, NEW tenant, NEW kind, NEW from, NEW n \in Nat
  PROVE  Chained(Plain(sub, tenant, kind, from, n))
BY DEF Plain, Chained

LEMMA ToolSessionsChained ==
  ASSUME NEW sub, NEW from \in Nat, NEW n \in Nat
  PROVE  Chained(ToolSessions(sub, from, n))
<1> DEFINE t == ToolSessions(sub, from, n)
           k == 2 * n
<1>1. k \in Nat
  OBVIOUS
<1>2. /\ t = [i \in 1 .. k |-> t[i]]
      /\ \A i \in 1 .. k : /\ t[i].session = from + (i - 1) \div 2 /\ t[i].tenant = None
                           /\ t[i].round = (i - 1) % 2
  BY DEF ToolSessions
<1> HIDE DEF t, k
<1>3. ASSUME NEW i \in 1 .. k, t[i].round > 0
      PROVE  i > 1 /\ Follows(t[i], t[i - 1])
  <2>1. i - 1 \in Nat /\ (i - 1) % 2 > 0
    <3>1. t[i].round = (i - 1) % 2
      BY <1>2
    <3>2. i - 1 \in Nat
      BY <1>1
    <3>. QED  BY <1>3, <3>1, <3>2
  <2>2. /\ i - 1 > 0
        /\ ((i - 1) - 1) \div 2 = (i - 1) \div 2
        /\ ((i - 1) - 1) % 2 = ((i - 1) % 2) - 1
    BY <2>1, RoundBefore
  <2>3. i > 1 /\ i - 1 \in 1 .. k
    BY <1>1, <2>1, <2>2
  <2>. QED  BY <1>2, <2>2, <2>3 DEF Follows
<1>4. Chained(t)
  BY <1>1, <1>2, <1>3 DEF Chained
<1>. QED  BY <1>4 DEF t

LEMMA MixedChained ==
  ASSUME NEW dialogue, NEW tool, NEW reason, NEW struct, TenantSide \in Nat
  PROVE  Chained(Mixed(dialogue, tool, reason, struct))
<1> DEFINE n == TenantSide * TenantSide
           first == n \div 2 + n \div 4
           turns == [i \in 1 .. n - first |->
                      [kind |-> "tool_multi_turn", tenant |-> "tool", session |-> first + i - 1,
                       round |-> 0, content |-> Wrap(tool, first + i - 1)]]
           d == Dialogue(dialogue, "dialogue", TenantSide, TenantSide)
           single == Plain(tool, "tool", "tool_single", 0, n \div 2)
           parallel == Plain(tool, "tool", "tool_multi_parallel", n \div 2, n \div 4)
           reasons == Plain(reason, "reasoning", "reason", 0, n)
           structs == Plain(struct, "structured", "struct", 0, n)
<1>1. n \in Nat
  OBVIOUS
<1>2. n \div 2 \in Nat /\ n \div 4 \in Nat /\ n - first \in Nat
  <2> HIDE DEF n
  <2>. QED  BY <1>1
<1>3. Chained(turns)
  <2> DEFINE k == n - first
  <2>1. /\ turns = [i \in 1 .. k |-> turns[i]]
        /\ \A i \in 1 .. k : turns[i].round = 0
    OBVIOUS
  <2>2. k \in Nat
    BY <1>2
  <2> HIDE DEF turns, k
  <2>. QED  BY <2>1, <2>2 DEF Chained
<1>4. Chained(d)
  BY DialogueChained
<1>5. Chained(single) /\ Chained(parallel) /\ Chained(reasons) /\ Chained(structs)
  <2> HIDE DEF n
  <2>. QED  BY <1>1, <1>2, PlainChained
<1>6. Mixed(dialogue, tool, reason, struct)
        = d \o single \o parallel \o turns \o reasons \o structs
  BY DEF Mixed
<1> HIDE DEF d, single, parallel, turns, reasons, structs
<1>7. Chained(d \o single)
  BY <1>4, <1>5, ChainsJoin
<1>8. Chained(d \o single \o parallel)
  BY <1>5, <1>7, ChainsJoin
<1>9. Chained(d \o single \o parallel \o turns)
  BY <1>3, <1>8, ChainsJoin
<1>10. Chained(d \o single \o parallel \o turns \o reasons)
  BY <1>5, <1>9, ChainsJoin
<1>11. Chained(d \o single \o parallel \o turns \o reasons \o structs)
  BY <1>5, <1>10, ChainsJoin
<1>. QED  BY <1>6, <1>11

(* The cases of a1 have no second round, whatever its shapes are.          *)
Ordered(list) == Chained(list) \/ \A i \in DOMAIN list : list[i].round = 0

Contracts == {Expand(a.cell, a.precision, a.smoke) : a \in Asked} \ {None}

LEMMA GeneratedInOrder ==
  ASSUME NEW m \in Contracts, NEW subs
  PROVE  Ordered(GenerateCases(m, subs))
<1> DEFINE cell == m["meta"]["cell"]
           fixed == Get(m, "workload", "dataset_fixed")
           g == GenerateCases(m, subs)
<1>1. /\ Sessions \in Nat /\ Rounds \in Nat /\ Each \in Nat /\ TenantSide \in Nat
      /\ cell \in Cells
      /\ cell = "a2-tool" => {fixed.single, fixed.multi_parallel, fixed.multi_turn} \subseteq Nat
      /\ cell = "a2-long" => {fixed.low, fixed.high} \subseteq Nat
  BY CasesAssumption DEF Contracts
<1>2. CASE cell = "a2-dialogue"
  <2>1. g = Dialogue(subs["sharegpt"], None, Sessions, Rounds)
    BY <1>2 DEF GenerateCases
  <2>. QED  BY <1>1, <2>1, DialogueChained DEF Ordered
<1>3. CASE cell = "a2-tool"
  <2> DEFINE sub == subs["bfcl"]
             one == fixed.single
             par == fixed.multi_parallel
             mul == fixed.multi_turn
             singles == Plain(sub, None, "tool_single", 0, one)
             parallels == Plain(sub, None, "tool_multi_parallel", one, par)
             turns == ToolSessions(sub, one + par, mul)
  <2>1. g = singles \o parallels \o turns
    BY <1>3 DEF GenerateCases, Tool
  <2>2. one \in Nat /\ par \in Nat /\ mul \in Nat
    BY <1>1, <1>3
  <2> HIDE DEF one, par, mul
  <2>3. Chained(singles) /\ Chained(parallels)
    BY <2>2, PlainChained
  <2>4. one + par \in Nat
    BY <2>2
  <2>5. Chained(turns)
    BY <2>2, <2>4, ToolSessionsChained
  <2> HIDE DEF singles, parallels, turns
  <2>6. Chained(singles \o parallels)
    BY <2>3, ChainsJoin
  <2>. QED  BY <2>1, <2>5, <2>6, ChainsJoin DEF Ordered
<1>4. CASE cell = "a2-reason"
  <2>1. g = Plain(subs["gsm8k"], None, "reason", 0, Each)
    BY <1>4 DEF GenerateCases
  <2>. QED  BY <1>1, <2>1, PlainChained DEF Ordered
<1>5. CASE cell = "a2-struct"
  <2>1. g = Plain(subs["jsonschema"], None, "struct", 0, Each)
    BY <1>5 DEF GenerateCases
  <2>. QED  BY <1>1, <2>1, PlainChained DEF Ordered
<1>6. CASE cell = "a2-long"
  <2> DEFINE low == Plain(subs["long"], None, "long_8192", 0, fixed.low)
             high == Plain(subs["long"], None, "long_16384", fixed.low, fixed.high)
  <2>1. g = low \o high
    BY <1>6 DEF GenerateCases
  <2>2. fixed.low \in Nat /\ fixed.high \in Nat
    BY <1>1, <1>6
  <2>3. Chained(low) /\ Chained(high)
    BY <2>2, PlainChained
  <2> HIDE DEF low, high
  <2>. QED  BY <2>1, <2>3, ChainsJoin DEF Ordered
<1>7. CASE cell = "a3-32k"
  <2>1. g = <<[kind |-> "a3_long", tenant |-> None, session |-> None, round |-> 0,
               content |-> subs["long"]]>>
    BY <1>7 DEF GenerateCases
  <2>. QED  BY <2>1 DEF Ordered
<1>8. CASE cell = "a4-mt"
  <2>1. g = Mixed(subs["sharegpt"], subs["bfcl"], subs["gsm8k"], subs["jsonschema"])
    BY <1>8 DEF GenerateCases
  <2>. QED  BY <1>1, <2>1, MixedChained DEF Ordered
<1>9. CASE cell = "a1"
  <2>1. g = [i \in DOMAIN m["workload"]["shapes"] |->
               [kind |-> "synthetic", tenant |-> None, session |-> None, round |-> 0,
                content |-> m["workload"]["shapes"][i]]]
    BY <1>9 DEF GenerateCases
  <2>. QED  BY <2>1 DEF Ordered
<1>. QED  BY <1>1, <1>2, <1>3, <1>4, <1>5, <1>6, <1>7, <1>8, <1>9 DEF Cells

(* What was gated was expanded from what was asked, and what was generated *)
(* is in order.                                                            *)
Contracted ==
  /\ asked \in Asked
  /\ client = "gated" => cfg \in Contracts
  /\ cases # None => Ordered(cases)

LEMMA NextContracted == Contracted /\ [Next]_vars => Contracted'
<1> SUFFICES ASSUME Contracted, [Next]_vars PROVE Contracted'
  OBVIOUS
<1>1. CASE Gate
  <2>1. asked' = asked /\ cases' = cases
    BY <1>1 DEF Gate
  <2>2. client' = "gated" => cfg' \in Contracts
    BY <1>1 DEF Gate, Contracted, Contracts
  <2>. QED  BY <2>1, <2>2 DEF Contracted
<1>2. CASE Build
  <2>1. asked' = asked /\ client' # "gated" /\ cfg \in Contracts
    BY <1>2 DEF Build, Contracted
  <2>2. cases' = cases \/ cases' = GenerateCases(cfg, loaded)
    BY <1>2 DEF Build
  <2>3. cases' # None => Ordered(cases')
    BY <2>1, <2>2, GeneratedInOrder DEF Contracted
  <2>. QED  BY <2>1, <2>3 DEF Contracted
<1>3. CASE Load
  <2>1. UNCHANGED <<asked, cfg, cases>> /\ client = "gated"
    BY <1>3 DEF Load
  <2>. QED  BY <2>1 DEF Contracted
<1>4. CASE ~(Gate \/ Build \/ Load)
  <2>1. UNCHANGED <<asked, client, cfg, cases>>
    BY <1>4 DEF Next, RunStep, StartRun, Fetch, EndFetch, AfterItem, EndRun, BeginSubset, Download, Parse,
                ParseFails, WriteSubset, OpenRegistry, WriteRegistry, Abort, Goto,
                vars, script, files, measurement
  <2>. QED  BY <2>1 DEF Contracted
<1>. QED  BY <1>1, <1>2, <1>3, <1>4

(* The rounds of a session come in order and without a gap, for every      *)
(* number of sessions, rounds and cases (cases.py; the executor builds the *)
(* history of a round from those before it).                               *)
THEOREM SessionsInOrder == Spec => []RoundsInOrder
<1>1. Init => Contracted
  BY DEF Init, Contracted
<1>2. Contracted => RoundsInOrder
  <2> SUFFICES ASSUME Contracted, cases # None,
                      NEW i \in DOMAIN cases, cases[i].round > 0
               PROVE  \E j \in 1 .. i - 1 :
                        /\ cases[j].session = cases[i].session
                        /\ cases[j].tenant = cases[i].tenant
                        /\ cases[j].round = cases[i].round - 1
                        /\ \A k \in j + 1 .. i - 1 :
                             cases[k].session # cases[i].session \/ cases[k].tenant # cases[i].tenant
    BY DEF RoundsInOrder
  <2>1. Chained(cases)
    BY DEF Contracted, Ordered
  <2>2. PICK n \in Nat :
          /\ cases = [x \in 1 .. n |-> cases[x]]
          /\ \A x \in 1 .. n : cases[x].round > 0 => x > 1 /\ Follows(cases[x], cases[x - 1])
    BY <2>1 DEF Chained
  <2>3. i \in 1 .. n /\ i > 1 /\ Follows(cases[i], cases[i - 1])
    BY <2>2
  <2>4. i - 1 \in 1 .. i - 1 /\ (i - 1) + 1 .. i - 1 = {}
    BY <2>3
  <2>. QED  BY <2>3, <2>4 DEF Follows
<1>. QED  BY <1>1, <1>2, NextContracted, PTL DEF Spec
-----------------------------------------------------------------------------
(* The profile.  What the layers, a smoke run and a role do to a           *)
(* configuration, section by section.                                      *)
Base(c) == DeepMerge(Common, CellFiles[c])
Merged(c, p) == DeepMerge(Base(c), Precisions[p])

(* A precision overlay leaves the sections of the client alone, and says   *)
(* alone how the model is quantised.                                       *)
LEMMA Layered ==
  ASSUME NEW c \in DOMAIN CellFiles, NEW p \in DOMAIN Precisions
  PROVE  /\ DOMAIN Merged(c, p) = DOMAIN Base(c) \cup {"meta", "model"}
         /\ \A s \in DOMAIN Base(c) \ {"meta", "model"} : Merged(c, p)[s] = Base(c)[s]
         /\ Merged(c, p)["meta"]["cell"] = Base(c)["meta"]["cell"]
         /\ "quantization" \in DOMAIN Merged(c, p)["model"]
         /\ (Merged(c, p)["model"]["quantization"] # None) = (p = "W8A8")
<1> DEFINE base == Base(c)
           over == Precisions[p]
           m == Merged(c, p)
<1>1. /\ DOMAIN over = {"meta", "model"}
      /\ "cell" \notin DOMAIN over["meta"]
      /\ "quantization" \in DOMAIN over["model"]
      /\ (over["model"]["quantization"] # None) = (p = "W8A8")
  BY LayersAssumption
<1>2. "meta" \in DOMAIN base /\ "cell" \in DOMAIN base["meta"]
  BY LayersAssumption DEF Base
<1>3. m = DeepMerge(base, over)
  BY DEF Merged
<1> HIDE DEF base, over, m
<1>4. DOMAIN m = DOMAIN base \cup {"meta", "model"}
  BY <1>1, <1>3 DEF DeepMerge
<1>5. \A s \in DOMAIN base \ {"meta", "model"} : m[s] = base[s]
  BY <1>1, <1>3 DEF DeepMerge
<1>6. m["meta"]["cell"] = base["meta"]["cell"]
  <2>1. m["meta"] = Update(base["meta"], over["meta"])
    BY <1>1, <1>2, <1>3 DEF DeepMerge
  <2>. QED  BY <1>1, <1>2, <2>1 DEF Update
<1>7. /\ "quantization" \in DOMAIN m["model"]
      /\ m["model"]["quantization"] = over["model"]["quantization"]
  <2>1. m["model"] = over["model"] \/ m["model"] = Update(base["model"], over["model"])
    BY <1>1, <1>3 DEF DeepMerge
  <2>. QED  BY <1>1, <2>1 DEF Update
<1>. QED  BY <1>1, <1>4, <1>5, <1>6, <1>7 DEF base, m

(* A smoke run touches the timeouts and the workload only, and what it     *)
(* makes of them depends on nothing else but the cell.                     *)
LEMMA Smoked ==
  ASSUME NEW m
  PROVE  /\ DOMAIN Smoke(m) = DOMAIN m
         /\ \A s \in DOMAIN m \ {"timeouts", "workload"} : Smoke(m)[s] = m[s]
         /\ "timeouts" \in DOMAIN m =>
              Smoke(m)["timeouts"] = SmokeTimeouts(m["meta"]["cell"], m["timeouts"])
         /\ "workload" \in DOMAIN m =>
              Smoke(m)["workload"] = SmokeWorkload(m["meta"]["cell"], m["workload"], PerRate(Smoke(m)))
<1> DEFINE cell == m["meta"]["cell"]
           times == SmokeTimeouts(cell, m["timeouts"])
           short == [m EXCEPT !["timeouts"] = times]
           work == SmokeWorkload(cell, m["workload"], PerRate(short))
           sm == Smoke(m)
<1>1. sm = [short EXCEPT !["workload"] = work]
  BY DEF Smoke
<1> HIDE DEF cell, times, work, sm
<1>2. /\ DOMAIN short = DOMAIN m
      /\ \A s \in DOMAIN m \ {"timeouts"} : short[s] = m[s]
      /\ "timeouts" \in DOMAIN m => short["timeouts"] = times
  OBVIOUS
<1> HIDE DEF short
<1>3. /\ DOMAIN sm = DOMAIN short
      /\ \A s \in DOMAIN short \ {"workload"} : sm[s] = short[s]
      /\ "workload" \in DOMAIN short => sm["workload"] = work
  BY <1>1
<1>4. PerRate(sm) = PerRate(short)
  BY <1>3 DEF PerRate, Get
<1>5. work = SmokeWorkload(cell, m["workload"], PerRate(sm))
  BY <1>4 DEF work
<1>6. \A s \in DOMAIN m \ {"timeouts", "workload"} : sm[s] = m[s]
  BY <1>2, <1>3
<1>7. "timeouts" \in DOMAIN m => sm["timeouts"] = times
  BY <1>2, <1>3
<1>8. "workload" \in DOMAIN m => sm["workload"] = SmokeWorkload(cell, m["workload"], PerRate(sm))
  BY <1>2, <1>3, <1>5
<1>. QED  BY <1>2, <1>3, <1>6, <1>7, <1>8 DEF sm, cell, times

LEMMA Expanded ==
  ASSUME NEW c \in DOMAIN CellFiles, NEW p, NEW smoke, Expand(c, p, smoke) # None
  PROVE  /\ p \in CellFiles[c]["meta"]["precisions"] /\ p \in DOMAIN Precisions
         /\ Validate(Expand(c, p, smoke))
         /\ Expand(c, p, smoke) = IF smoke THEN Smoke(Merged(c, p)) ELSE Merged(c, p)
<1>1. /\ p \in CellFiles[c]["meta"]["precisions"]
      /\ Expand(c, p, smoke) = IF smoke THEN Smoke(Merged(c, p)) ELSE Merged(c, p)
      /\ Validate(Expand(c, p, smoke))
  BY DEF Expand, Merged, Base
<1>. QED  BY <1>1, LayersAssumption

(* A configuration of this profile.                                        *)
Profile(a, m) == a \in Asked /\ m = Expand(a.cell, a.precision, a.smoke) /\ m # None

LEMMA ProfileSections ==
  ASSUME NEW a, NEW m, Profile(a, m)
  PROVE  /\ a.cell \in DOMAIN CellFiles /\ a.precision \in DOMAIN Precisions
         /\ Validate(m)
         /\ m = IF a.smoke THEN Smoke(Merged(a.cell, a.precision)) ELSE Merged(a.cell, a.precision)
         /\ \A s \in DOMAIN m \ {"timeouts", "workload"} : m[s] = Merged(a.cell, a.precision)[s]
         /\ DOMAIN m = DOMAIN Merged(a.cell, a.precision)
<1>1. a.cell \in DOMAIN CellFiles
  BY LayersAssumption DEF Profile
<1>2. /\ a.precision \in DOMAIN Precisions /\ Validate(m)
      /\ m = IF a.smoke THEN Smoke(Merged(a.cell, a.precision)) ELSE Merged(a.cell, a.precision)
  BY <1>1, Expanded DEF Profile
<1>. QED  BY <1>1, <1>2, Smoked

LEMMA QuantisedAsAsked ==
  ASSUME NEW a, NEW m, Profile(a, m)
  PROVE  ("quantization" \in DOMAIN Argv(m)) = (a.precision = "W8A8")
<1> DEFINE g == GivenFlags(m)
           c == CompileFlags(m)
           e == EagerFlags(m)
<1>1. "model" \in DOMAIN m /\ "quantization" \in DOMAIN m["model"]
      /\ (m["model"]["quantization"] # None) = (a.precision = "W8A8")
  <2>1. /\ a.cell \in DOMAIN CellFiles /\ a.precision \in DOMAIN Precisions
        /\ \A s \in DOMAIN m \ {"timeouts", "workload"} : m[s] = Merged(a.cell, a.precision)[s]
        /\ DOMAIN m = DOMAIN Merged(a.cell, a.precision)
    BY ProfileSections, Zenon
  <2>2. /\ "model" \in DOMAIN m
        /\ "quantization" \in DOMAIN Merged(a.cell, a.precision)["model"]
        /\ (Merged(a.cell, a.precision)["model"]["quantization"] # None) = (a.precision = "W8A8")
    <3>1. /\ DOMAIN Merged(a.cell, a.precision) = DOMAIN Base(a.cell) \cup {"meta", "model"}
          /\ "quantization" \in DOMAIN Merged(a.cell, a.precision)["model"]
          /\ (Merged(a.cell, a.precision)["model"]["quantization"] # None) = (a.precision = "W8A8")
      BY <2>1, Layered, Zenon
    <3>. QED  BY <2>1, <3>1
  <2>3. m["model"] = Merged(a.cell, a.precision)["model"]
    BY <2>1, <2>2
  <2>. QED  BY <2>2, <2>3
<1>2. (Get(m, "model", "quantization") # None) = (a.precision = "W8A8")
  BY <1>1 DEF Get
<1>3. DOMAIN g = {v[2] : v \in {v \in ValueFlags : Get(m, v[1], v[2]) # None}}
  BY DEF GivenFlags
<1>4. ("quantization" \in DOMAIN g) = (Get(m, "model", "quantization") # None)
  <2>1. ASSUME Get(m, "model", "quantization") # None PROVE "quantization" \in DOMAIN g
    <3>1. <<"model", "quantization">> \in ValueFlags
      BY DEF ValueFlags
    <3>. QED  BY <1>3, <2>1, <3>1
  <2>2. ASSUME "quantization" \in DOMAIN g PROVE Get(m, "model", "quantization") # None
    <3>1. PICK v \in ValueFlags : Get(m, v[1], v[2]) # None /\ v[2] = "quantization"
      BY <1>3, <2>2
    <3>2. v[1] = "model"
      BY <3>1 DEF ValueFlags
    <3>. QED  BY <3>1, <3>2
  <2>. QED  BY <2>1, <2>2
<1>5. "quantization" \notin DOMAIN c /\ "quantization" \notin DOMAIN e
  BY DEF CompileFlags, EagerFlags
<1>6. DOMAIN Argv(m) = DOMAIN g \cup DOMAIN c \cup DOMAIN e
  BY DEF Argv, Update
<1>. QED  BY <1>2, <1>4, <1>5, <1>6

(* What is emitted without a value would be the mode of the graphs only,   *)
(* and the schema requires that one.                                       *)
LEMMA FlagsHaveValues ==
  ASSUME NEW a, NEW m, Profile(a, m), NEW f \in DOMAIN Argv(m)
  PROVE  Argv(m)[f] # None
<1> DEFINE g == GivenFlags(m)
           c == CompileFlags(m)
           e == EagerFlags(m)
<1>1. Get(m, "server", "cudagraph_mode") # None
  <2>1. Validate(m)
    BY ProfileSections
  <2>. QED  BY <2>1, LayersAssumption DEF Validate
<1>2. \A x \in DOMAIN c : c[x] # None
  <2>1. CASE Compiled(m)
    <3>1. m["server"]["compile_mode"] # None
      BY <2>1 DEF Compiled, Get
    <3>2. c = [compile_mode |-> m["server"]["compile_mode"],
               cudagraph_mode |-> Get(m, "server", "cudagraph_mode")]
      BY <2>1 DEF CompileFlags
    <3> HIDE DEF c
    <3>. QED  BY <1>1, <3>1, <3>2
  <2>2. CASE ~Compiled(m)
    BY <2>2 DEF CompileFlags
  <2>. QED  BY <2>1, <2>2
<1>3. \A x \in DOMAIN e : e[x] # None
  <2>1. \/ e = [enforce_eager |-> "set"] \/ e = [no_enforce_eager |-> "set"] \/ e = <<>>
    BY DEF EagerFlags
  <2> HIDE DEF e
  <2>. QED  BY <2>1, LayersAssumption
<1>4. \A x \in DOMAIN g : g[x] # None
  <2> SUFFICES ASSUME NEW x \in DOMAIN g PROVE g[x] # None
    OBVIOUS
  <2>1. PICK v \in ValueFlags : Get(m, v[1], v[2]) # None /\ v[2] = x
    BY DEF GivenFlags
  <2> DEFINE w == CHOOSE y \in ValueFlags : y[2] = x
  <2>2. w \in ValueFlags /\ w[2] = x
    BY <2>1
  <2>3. g[x] = m[w[1]][x]
    BY DEF GivenFlags
  <2> HIDE DEF w
  <2>4. w = v
    BY <2>1, <2>2 DEF ValueFlags
  <2>. QED  BY <2>1, <2>3, <2>4 DEF Get
<1>5. /\ DOMAIN Argv(m) = DOMAIN g \cup DOMAIN c \cup DOMAIN e
      /\ \A x \in DOMAIN Argv(m) :
           Argv(m)[x] = IF x \in DOMAIN e THEN e[x] ELSE IF x \in DOMAIN c THEN c[x] ELSE g[x]
  <2> HIDE DEF g, c, e
  <2>1. Argv(m) = Update(Update(g, c), e)
    BY DEF Argv, g, c, e
  <2>. QED  BY <2>1 DEF Update
<1>. QED
  <2> HIDE DEF g, c, e
  <2>. QED  BY <1>2, <1>3, <1>4, <1>5

(* Cutting the rates first or the caps first is the same.                  *)
LEMMA CapsOfFirst ==
  ASSUME NEW rates \in Seq(Nat), NEW per, NEW n \in Nat
  PROVE  RequestCaps(FirstOf(rates, n), per) = FirstOf(RequestCaps(rates, per), n)
<1> DEFINE caps == RequestCaps(rates, per)
           S == {(rates[i] * per + 99) \div 100 : i \in DOMAIN rates}
           k == Least(n, Len(rates))
<1>1. k \in 0 .. Len(rates) /\ Len(rates) \in Nat /\ DOMAIN rates = 1 .. Len(rates)
  BY LenProperties DEF Least
<1>2. caps \in Seq(S) /\ Len(caps) = Len(rates)
  <2>1. caps \in [1 .. Len(rates) -> S]
    BY <1>1 DEF RequestCaps
  <2> HIDE DEF caps, S
  <2>. QED  BY <1>1, <2>1, IsASeq, LenProperties
<1>3. \A i \in 1 .. Len(rates) : caps[i] = (rates[i] * per + 99) \div 100
  BY <1>1 DEF RequestCaps
<1>4. FirstOf(rates, n) = SubSeq(rates, 1, k) /\ FirstOf(caps, n) = SubSeq(caps, 1, k)
  BY <1>2 DEF FirstOf
<1> HIDE DEF caps, S, k
<1>5. /\ SubSeq(rates, 1, k) \in Seq(Nat) /\ Len(SubSeq(rates, 1, k)) = k
      /\ \A i \in 1 .. k : SubSeq(rates, 1, k)[i] = rates[i]
  BY <1>1, SubSeqProperties
<1>6. /\ SubSeq(caps, 1, k) \in Seq(S) /\ Len(SubSeq(caps, 1, k)) = k
      /\ \A i \in 1 .. k : SubSeq(caps, 1, k)[i] = caps[i]
  BY <1>1, <1>2, SubSeqProperties
<1>7. SubSeq(caps, 1, k) = [i \in 1 .. k |-> SubSeq(caps, 1, k)[i]]
  BY <1>6, LenProperties
<1>8. DOMAIN SubSeq(rates, 1, k) = 1 .. k
  BY <1>5, LenProperties
<1>9. RequestCaps(SubSeq(rates, 1, k), per)
        = [i \in 1 .. k |-> (SubSeq(rates, 1, k)[i] * per + 99) \div 100]
  BY <1>8 DEF RequestCaps
<1>10. \A i \in 1 .. k : (SubSeq(rates, 1, k)[i] * per + 99) \div 100 = SubSeq(caps, 1, k)[i]
  <2> SUFFICES ASSUME NEW i \in 1 .. k
               PROVE  (SubSeq(rates, 1, k)[i] * per + 99) \div 100 = SubSeq(caps, 1, k)[i]
    OBVIOUS
  <2>1. i \in 1 .. Len(rates)
    BY <1>1
  <2>2. SubSeq(rates, 1, k)[i] = rates[i] /\ SubSeq(caps, 1, k)[i] = caps[i]
    BY <1>5, <1>6
  <2>. QED  BY <1>3, <2>1, <2>2
<1>11. RequestCaps(SubSeq(rates, 1, k), per) = SubSeq(caps, 1, k)
  BY <1>7, <1>9, <1>10
<1>. QED  BY <1>4, <1>11 DEF caps

(* The caps of the rates are those of the contract, in a smoke run those   *)
(* of its shorter time at a rate.                                          *)
LEMMA CapsFollowRates ==
  ASSUME NEW a, NEW m, Profile(a, m), Get(m, "workload", "caps") # None
  PROVE  m["workload"]["caps"] = RequestCaps(m["workload"]["rates"], PerRate(m))
<1> DEFINE base == Base(a.cell)
           full == Merged(a.cell, a.precision)
<1>1. /\ a.cell \in DOMAIN CellFiles /\ a.precision \in DOMAIN Precisions
      /\ m = IF a.smoke THEN Smoke(full) ELSE full
  BY ProfileSections
<1>2. /\ DOMAIN full = DOMAIN base \cup {"meta", "model"}
      /\ \A s \in DOMAIN base \ {"meta", "model"} : full[s] = base[s]
  BY <1>1, Layered
<1>3. Get(base, "workload", "caps") # None =>
        /\ Get(base, "workload", "rates") \in Seq(Nat) \ {None}
        /\ base["workload"]["caps"] = RequestCaps(base["workload"]["rates"], PerRate(base))
  BY <1>1, LayersAssumption DEF Base
<1> HIDE DEF base, full
<1>4. \A f : Get(full, "workload", f) = Get(base, "workload", f)
  BY <1>2 DEF Get
<1>5. PerRate(full) = PerRate(base)
  BY <1>2 DEF PerRate, Get
<1>6. ASSUME Get(base, "workload", "caps") # None
      PROVE  /\ full["workload"] = base["workload"]
             /\ "workload" \in DOMAIN full /\ Given(full["workload"], "caps")
             /\ Given(full["workload"], "rates") /\ full["workload"]["rates"] \in Seq(Nat)
  <2>1. "workload" \in DOMAIN base
    BY <1>6 DEF Get
  <2>2. "workload" \in DOMAIN full /\ full["workload"] = base["workload"]
    BY <1>2, <2>1
  <2>. QED  BY <1>3, <1>6, <2>1, <2>2 DEF Get, Given
<1>7. CASE ~a.smoke
  <2>1. m = full
    BY <1>1, <1>7
  <2>. QED  BY <1>3, <1>4, <1>5, <1>6, <2>1
<1>8. CASE a.smoke
  <2> DEFINE wl == full["workload"]
             cell == full["meta"]["cell"]
             per == PerRate(m)
             points == IF Given(wl, "b0_capacity_points")
                       THEN [b0_capacity_points |-> SmokePoints(cell, wl["b0_capacity_points"])] ELSE <<>>
             cut == SmokeRates(wl, per)
             inner == Update(Update(wl, SmokeWindows(wl)), points)
  <2>1. m = Smoke(full) /\ DOMAIN m = DOMAIN full
    BY <1>1, <1>8, Smoked
  <2>2. "workload" \in DOMAIN full
    BY <2>1 DEF Get
  <2>3. m["workload"] = SmokeWorkload(cell, wl, per)
    BY <2>1, <2>2, Smoked
  <2>4. m["workload"] = Update(inner, cut)
    BY <2>3 DEF SmokeWorkload
  <2>5. "caps" \in DOMAIN m["workload"] /\ m["workload"]["caps"] # None
    BY DEF Get
  <2>6. Given(wl, "caps")
    <3>1. CASE Given(wl, "rates") /\ Given(wl, "caps")
      BY <3>1
    <3>2. CASE ~(Given(wl, "rates") /\ Given(wl, "caps"))
      <4>1. "caps" \notin DOMAIN cut
        BY <3>2 DEF SmokeRates
      <4>2. "caps" \notin DOMAIN SmokeWindows(wl) /\ "caps" \notin DOMAIN points
        BY DEF SmokeWindows
      <4> HIDE DEF cut, points
      <4>3. "caps" \in DOMAIN wl /\ m["workload"]["caps"] = wl["caps"]
        BY <2>4, <2>5, <4>1, <4>2 DEF Update
      <4>. QED  BY <2>5, <4>3 DEF Given
    <3>. QED  BY <3>1, <3>2
  <2>7. Get(base, "workload", "caps") # None
    <3>1. Get(full, "workload", "caps") # None
      BY <2>2, <2>6 DEF Get, Given
    <3>. QED  BY <1>4, <3>1
  <2>8. Given(wl, "rates") /\ wl["rates"] \in Seq(Nat)
    BY <1>6, <2>7
  <2>9. cut = [rates |-> FirstOf(wl["rates"], 2), caps |-> FirstOf(RequestCaps(wl["rates"], per), 2)]
    BY <2>6, <2>8 DEF SmokeRates
  <2> HIDE DEF cut, inner
  <2>10. /\ m["workload"]["rates"] = FirstOf(wl["rates"], 2)
         /\ m["workload"]["caps"] = FirstOf(RequestCaps(wl["rates"], per), 2)
    BY <2>4, <2>9 DEF Update
  <2>. QED  BY <2>8, <2>10, CapsOfFirst
<1>. QED  BY <1>7, <1>8

(* What the client asks of the server does not depend on the precision.    *)
LEMMA ClientSections ==
  ASSUME NEW c \in DOMAIN CellFiles, NEW p \in DOMAIN Precisions, NEW q \in DOMAIN Precisions,
         NEW smoke, NEW m, NEW o,
         m = IF smoke THEN Smoke(Merged(c, p)) ELSE Merged(c, p),
         o = IF smoke THEN Smoke(Merged(c, q)) ELSE Merged(c, q)
  PROVE  ConfigHash(o) = ConfigHash(m)
<1> DEFINE base == Base(c)
           x == Merged(c, p)
           y == Merged(c, q)
           asked_for == {"workload", "timeouts", "sampling"}
<1>1. /\ DOMAIN x = DOMAIN base \cup {"meta", "model"}
      /\ \A s \in DOMAIN base \ {"meta", "model"} : x[s] = base[s]
      /\ x["meta"]["cell"] = base["meta"]["cell"]
  BY Layered
<1>2. /\ DOMAIN y = DOMAIN base \cup {"meta", "model"}
      /\ \A s \in DOMAIN base \ {"meta", "model"} : y[s] = base[s]
      /\ y["meta"]["cell"] = base["meta"]["cell"]
  BY Layered
<1>3. m = (IF smoke THEN Smoke(x) ELSE x) /\ o = (IF smoke THEN Smoke(y) ELSE y)
  OBVIOUS
<1> HIDE DEF base, x, y
<1>4. /\ DOMAIN x = DOMAIN y /\ x["meta"]["cell"] = y["meta"]["cell"]
      /\ \A s \in asked_for \cap DOMAIN x : x[s] = y[s]
  BY <1>1, <1>2
<1>5. DOMAIN m = DOMAIN o /\ \A s \in asked_for \cap DOMAIN m : m[s] = o[s]
  <2>1. CASE ~smoke
    BY <1>3, <1>4, <2>1
  <2>2. CASE smoke
    <3> DEFINE cell == x["meta"]["cell"]
    <3>1. /\ m = Smoke(x) /\ DOMAIN m = DOMAIN x
          /\ \A s \in DOMAIN x \ {"timeouts", "workload"} : m[s] = x[s]
          /\ "timeouts" \in DOMAIN x => m["timeouts"] = SmokeTimeouts(cell, x["timeouts"])
          /\ "workload" \in DOMAIN x => m["workload"] = SmokeWorkload(cell, x["workload"], PerRate(m))
      BY <1>3, <2>2, Smoked
    <3>2. /\ o = Smoke(y) /\ DOMAIN o = DOMAIN y
          /\ \A s \in DOMAIN y \ {"timeouts", "workload"} : o[s] = y[s]
          /\ "timeouts" \in DOMAIN y => o["timeouts"] = SmokeTimeouts(cell, y["timeouts"])
          /\ "workload" \in DOMAIN y => o["workload"] = SmokeWorkload(cell, y["workload"], PerRate(o))
      BY <1>3, <1>4, <2>2, Smoked
    <3> HIDE DEF cell
    <3>3. DOMAIN m = DOMAIN o
      BY <1>4, <3>1, <3>2
    <3>4. "timeouts" \in DOMAIN m => m["timeouts"] = o["timeouts"]
      BY <1>4, <3>1, <3>2
    <3>5. PerRate(m) = PerRate(o)
      BY <3>3, <3>4 DEF PerRate, Get
    <3>6. "workload" \in DOMAIN m => m["workload"] = o["workload"]
      BY <1>4, <3>1, <3>2, <3>5
    <3>7. "sampling" \in DOMAIN m => m["sampling"] = o["sampling"]
      BY <1>4, <3>1, <3>2
    <3>. QED  BY <3>3, <3>4, <3>6, <3>7
  <2>. QED  BY <2>1, <2>2
<1>. QED  BY <1>5 DEF ConfigHash

LEMMA ContractOfAnyPrecision ==
  ASSUME NEW a, NEW m, Profile(a, m), NEW q \in CellFiles[a.cell]["meta"]["precisions"],
         Expand(a.cell, q, a.smoke) # None
  PROVE  ConfigHash(Expand(a.cell, q, a.smoke)) = ConfigHash(m)
<1>1. /\ a.cell \in DOMAIN CellFiles /\ a.precision \in DOMAIN Precisions
      /\ m = IF a.smoke THEN Smoke(Merged(a.cell, a.precision)) ELSE Merged(a.cell, a.precision)
  BY ProfileSections
<1>2. /\ q \in DOMAIN Precisions
      /\ Expand(a.cell, q, a.smoke)
           = IF a.smoke THEN Smoke(Merged(a.cell, q)) ELSE Merged(a.cell, q)
  BY <1>1, Expanded
<1>. QED  BY <1>1, <1>2, ClientSections

(* What the overlay of a role leaves: of each section but meta the fields  *)
(* of no role, as they were.                                               *)
Candidate == [rf \in {<<"model", "artifact">>} |-> "candidate"]

LEMMA Applied ==
  ASSUME NEW m, NEW role, NEW comparison, NEW values, DOMAIN values \subseteq RoleFields
  PROVE  LET b == ApplyRole(m, role, comparison, values)
         IN  /\ DOMAIN b = DOMAIN m
             /\ \A s \in DOMAIN m \ {"meta"} : \A f :
                  <<s, f>> \notin RoleFields =>
                    /\ f \in DOMAIN b[s] <=> f \in DOMAIN m[s]
                    /\ f \in DOMAIN m[s] => b[s][f] = m[s][f]
             /\ "meta" \in DOMAIN m => \A f :
                  f \notin {"baseline_role", "comparison_type"} =>
                    /\ f \in DOMAIN b["meta"] <=> f \in DOMAIN m["meta"]
                    /\ f \in DOMAIN m["meta"] => b["meta"][f] = m["meta"][f]
<1> DEFINE b == ApplyRole(m, role, comparison, values)
           names(s) == {rf[2] : rf \in {rf \in DOMAIN values : rf[1] = s}}
           new(s) == [f \in names(s) |-> values[<<s, f>>]]
<1>1. DOMAIN b = DOMAIN m
  BY DEF ApplyRole
<1>2. \A s \in DOMAIN m \ {"meta"} : b[s] = Update(m[s], new(s))
  BY DEF ApplyRole
<1>3. "meta" \in DOMAIN m =>
        b["meta"] = Update(m["meta"], [baseline_role |-> role, comparison_type |-> comparison])
  BY DEF ApplyRole
<1>4. \A s, f : f \in names(s) => <<s, f>> \in RoleFields
  <2> SUFFICES ASSUME NEW s, NEW f, f \in names(s) PROVE <<s, f>> \in RoleFields
    OBVIOUS
  <2>1. PICK rf \in DOMAIN values : rf[1] = s /\ rf[2] = f
    OBVIOUS
  <2>2. rf \in RoleFields
    BY <2>1
  <2>. QED  BY <2>1, <2>2 DEF RoleFields
<1>5. \A s : DOMAIN new(s) = names(s)
  OBVIOUS
<1> HIDE DEF b, names, new
<1>6. ASSUME NEW s \in DOMAIN m \ {"meta"}, NEW f, <<s, f>> \notin RoleFields
      PROVE  /\ f \in DOMAIN b[s] <=> f \in DOMAIN m[s]
             /\ f \in DOMAIN m[s] => b[s][f] = m[s][f]
  <2>1. f \notin DOMAIN new(s)
    BY <1>4, <1>5, <1>6
  <2>2. b[s] = Update(m[s], new(s))
    BY <1>2
  <2>. QED  BY <2>1, <2>2 DEF Update
<1>7. ASSUME "meta" \in DOMAIN m, NEW f, f \notin {"baseline_role", "comparison_type"}
      PROVE  /\ f \in DOMAIN b["meta"] <=> f \in DOMAIN m["meta"]
             /\ f \in DOMAIN m["meta"] => b["meta"][f] = m["meta"][f]
  BY <1>3, <1>7 DEF Update
<1>. QED  BY <1>1, <1>6, <1>7 DEF b

LEMMA RolesDiffer ==
  ASSUME NEW m, NEW b0, NEW b1,
         b0 = ApplyRole(m, "B0", "SYSTEM_DELIVERY", <<>>),
         b1 = ApplyRole(m, "B1", "SYSTEM_DELIVERY", Candidate)
  PROVE  /\ RolesEqual(b0, b1) /\ WithoutRoles(b0) = WithoutRoles(b1)
         /\ \A s \in DiffSections \cap DOMAIN b1 : \A f \in DOMAIN b1[s] :
              (<<s, f>> \notin RoleFields /\ b1[s][f] # None) =>
                LET odd == [b1 EXCEPT ![s][f] = None]
                IN  ~RolesEqual(b0, odd) /\ WithoutRoles(b0) # WithoutRoles(odd)
<1> DEFINE kept(s, f) == /\ <<s, f>> \notin RoleFields
                         /\ s = "meta" => f \notin {"baseline_role", "comparison_type"}
<1>1. DOMAIN <<>> \subseteq RoleFields /\ DOMAIN Candidate \subseteq RoleFields
  BY DEF Candidate, RoleFields
<1>2. /\ DOMAIN b0 = DOMAIN m /\ DOMAIN b1 = DOMAIN m
      /\ \A s \in DOMAIN m : \A f : kept(s, f) =>
           /\ f \in DOMAIN b0[s] <=> f \in DOMAIN m[s]
           /\ f \in DOMAIN m[s] => b0[s][f] = m[s][f]
           /\ f \in DOMAIN b1[s] <=> f \in DOMAIN m[s]
           /\ f \in DOMAIN m[s] => b1[s][f] = m[s][f]
  <2>1. /\ DOMAIN b0 = DOMAIN m
        /\ \A s \in DOMAIN m : \A f : kept(s, f) =>
             /\ f \in DOMAIN b0[s] <=> f \in DOMAIN m[s]
             /\ f \in DOMAIN m[s] => b0[s][f] = m[s][f]
    BY <1>1, Applied
  <2>2. /\ DOMAIN b1 = DOMAIN m
        /\ \A s \in DOMAIN m : \A f : kept(s, f) =>
             /\ f \in DOMAIN b1[s] <=> f \in DOMAIN m[s]
             /\ f \in DOMAIN m[s] => b1[s][f] = m[s][f]
    BY <1>1, Applied
  <2> HIDE DEF kept
  <2>. QED  BY <2>1, <2>2
<1>3. /\ DOMAIN b0 = DOMAIN b1
      /\ \A s \in DOMAIN b0 : \A f : kept(s, f) =>
           /\ f \in DOMAIN b0[s] <=> f \in DOMAIN b1[s]
           /\ f \in DOMAIN b0[s] => b0[s][f] = b1[s][f]
  <2> HIDE DEF kept
  <2>. QED  BY <1>2
<1>4. \A s \in DiffSections : \A f : <<s, f>> \notin RoleFields => kept(s, f)
  BY DEF DiffSections
<1>5. RolesEqual(b0, b1)
  <2> HIDE DEF kept
  <2> SUFFICES ASSUME NEW s \in DiffSections, NEW f, <<s, f>> \notin RoleFields
               PROVE  Get(b0, s, f) = Get(b1, s, f)
    BY DEF RolesEqual
  <2>1. kept(s, f)
    BY <1>4
  <2>. QED  BY <1>3, <2>1 DEF Get
<1> DEFINE alone(b, s) == [f \in {f \in DOMAIN b[s] : kept(s, f)} |-> b[s][f]]
<1>6. \A b : WithoutRoles(b) = [s \in DOMAIN b |-> alone(b, s)]
  BY DEF WithoutRoles
<1>7. WithoutRoles(b0) = WithoutRoles(b1)
  <2>1. \A s \in DOMAIN b0 : alone(b0, s) = alone(b1, s)
    <3> SUFFICES ASSUME NEW s \in DOMAIN b0 PROVE alone(b0, s) = alone(b1, s)
      OBVIOUS
    <3> HIDE DEF kept
    <3>1. {f \in DOMAIN b0[s] : kept(s, f)} = {f \in DOMAIN b1[s] : kept(s, f)}
      BY <1>3
    <3>2. \A f \in {f \in DOMAIN b0[s] : kept(s, f)} : b0[s][f] = b1[s][f]
      BY <1>3
    <3>. QED  BY <3>1, <3>2
  <2> HIDE DEF alone
  <2>. QED  BY <1>3, <1>6, <2>1
<1>8. ASSUME NEW s \in DiffSections \cap DOMAIN b1, NEW f \in DOMAIN b1[s],
             <<s, f>> \notin RoleFields, b1[s][f] # None
      PROVE  LET odd == [b1 EXCEPT ![s][f] = None]
             IN  ~RolesEqual(b0, odd) /\ WithoutRoles(b0) # WithoutRoles(odd)
  <2> DEFINE odd == [b1 EXCEPT ![s][f] = None]
  <2>1. DOMAIN odd = DOMAIN b1 /\ DOMAIN odd[s] = DOMAIN b1[s] /\ odd[s][f] = None
    OBVIOUS
  <2> HIDE DEF odd
  <2>2. kept(s, f)
    BY <1>4, <1>8
  <2> HIDE DEF kept
  <2>3. s \in DOMAIN b0 /\ f \in DOMAIN b0[s] /\ b0[s][f] # None
    BY <1>3, <1>8, <2>2
  <2>4. ~RolesEqual(b0, odd)
    <3>1. Get(b0, s, f) # Get(odd, s, f)
      BY <2>1, <2>3 DEF Get
    <3>. QED  BY <1>8, <2>3, <3>1 DEF RolesEqual
  <2>5. WithoutRoles(b0)[s][f] = b0[s][f] /\ WithoutRoles(odd)[s][f] = odd[s][f]
    <3>1. WithoutRoles(b0)[s] = alone(b0, s) /\ WithoutRoles(odd)[s] = alone(odd, s)
      <4> HIDE DEF alone
      <4>. QED  BY <1>6, <2>1, <2>3
    <3>2. alone(b0, s)[f] = b0[s][f]
      BY <2>2, <2>3
    <3>3. alone(odd, s)[f] = odd[s][f]
      BY <2>1, <2>2
    <3> HIDE DEF alone
    <3>. QED  BY <3>1, <3>2, <3>3
  <2>6. WithoutRoles(b0) # WithoutRoles(odd)
    BY <2>1, <2>3, <2>5
  <2>. QED  BY <2>4, <2>6 DEF odd
<1>. QED  BY <1>5, <1>7, <1>8

(* The configuration of a measurement is one that was expanded from what   *)
(* was asked, and nobody goes on without one.                              *)
Configured ==
  /\ asked \in Asked
  /\ cfg # None => Profile(asked, cfg)
  /\ Gated => cfg # None

LEMMA NextConfigured == Configured /\ [Next]_vars => Configured'
<1> SUFFICES ASSUME Configured, [Next]_vars PROVE Configured'
  OBVIOUS
<1>1. CASE Gate
  <2>1. asked' = asked /\ cfg' = Expand(asked.cell, asked.precision, asked.smoke)
    BY <1>1 DEF Gate
  <2>2. client' = "gated" => cfg' # None
    BY <1>1 DEF Gate
  <2>3. client' # "ready"
    BY <1>1 DEF Gate
  <2>. QED  BY <2>1, <2>2, <2>3 DEF Configured, Profile, Gated
<1>2. CASE Load \/ Build
  <2>1. UNCHANGED <<asked, cfg>> /\ client = "gated"
    BY <1>2 DEF Load, Build
  <2>. QED  BY <2>1 DEF Configured, Profile, Gated
<1>3. CASE ~(Gate \/ Build \/ Load)
  <2>1. UNCHANGED <<asked, client, cfg>>
    BY <1>3 DEF Next, RunStep, StartRun, Fetch, EndFetch, AfterItem, EndRun, BeginSubset, Download, Parse,
                ParseFails, WriteSubset, OpenRegistry, WriteRegistry, Abort, Goto,
                vars, script, files, measurement
  <2>. QED  BY <2>1 DEF Configured, Profile, Gated
<1>. QED  BY <1>1, <1>2, <1>3

(* The profile a measurement was started with means the same to operator,  *)
(* server, client and comparison, for all layers of configuration, rates   *)
(* and caps that fit together (acceptance.py, common.py, roles.py).        *)
THEOREM ProfilesAreConsistent == Spec => []ProfileConsistent
<1>1. Init => Configured
  BY DEF Init, Configured, Gated
<1>2. Configured => ProfileConsistent
  <2> SUFFICES ASSUME Configured PROVE ProfileConsistent
    OBVIOUS
  <2>1. CapsSurviveSmoke
    BY CapsFollowRates DEF CapsSurviveSmoke, Configured
  <2>2. PrecisionReachesServer
    BY QuantisedAsAsked DEF PrecisionReachesServer, Configured
  <2>3. EveryFlagHasItsValue
    BY FlagsHaveValues DEF EveryFlagHasItsValue, Configured
  <2>4. SameContract
    BY ContractOfAnyPrecision DEF SameContract, Configured
  <2>5. RolesDifferInRolesOnly
    BY RolesDiffer DEF RolesDifferInRolesOnly, Candidate
  <2>. QED  BY <2>1, <2>2, <2>3, <2>4, <2>5 DEF ProfileConsistent
<1>. QED  BY <1>1, <1>2, NextConfigured, PTL DEF Spec
-----------------------------------------------------------------------------
(* Types.  The script stays within its lists.                              *)
Stations ==
  /\ pc \in {"idle", "fetch", "fetching", "subset", "registry"} \cup InSubset
  /\ at \in 1 .. Len(Items) + Len(Subsets) + 1
  /\ pc = "fetch" => at <= Len(Items) + 1
  /\ pc = "fetching" => at <= Len(Items)
  /\ pc \in {"subset", "registry"} => at <= Len(Subsets) + 1
  /\ pc \in InSubset => at <= Len(Subsets)
  /\ last \in {None, "ok", "failed"}
  /\ aborts \in 0 .. MaxAborts
  /\ fetched \in [DOMAIN Items -> {"absent", "part", "whole"}]

LEMMA NextStations == Stations /\ [Next]_vars => Stations'
<1> SUFFICES ASSUME Stations, [Next]_vars PROVE Stations'
  OBVIOUS
<1> DEFINE F == Len(Items)
           S == Len(Subsets)
<1>1. /\ F = 3 /\ S \in Nat /\ MaxAborts \in Nat
      /\ DOMAIN Items = 1 .. F /\ DOMAIN Subsets = 1 .. S
  BY FetchesAssumption, SubsetsAssumption DEF Items
<1> HIDE DEF F, S
<1>2. CASE RunStep \/ \E m \in DOMAIN First, f \in BOOLEAN : StartRun(m, f)
  <2>1. CASE \E m \in DOMAIN First, f \in BOOLEAN : StartRun(m, f)
    <3>1. PICK m \in DOMAIN First, f \in BOOLEAN : StartRun(m, f)
      BY <2>1
    <3>2. /\ \/ pc' = "fetch" /\ at' \in 1 .. 3
             \/ pc' = "subset" /\ at' = 1
          /\ last' = None /\ UNCHANGED <<aborts, fetched>>
      BY <3>1 DEF StartRun, First, files
    <3>. QED  BY <1>1, <3>2 DEF Stations, InSubset, F, S
  <2>2. CASE Fetch \/ EndFetch
    <3>1. /\ aborts' = aborts /\ last' \in {last, "ok"}
          /\ \/ pc = "fetch" /\ at > F /\ pc' = "subset" /\ at' = 1
             \/ pc = "fetch" /\ at <= F /\ pc' = "fetch" /\ at' = at + 1
             \/ pc = "fetch" /\ at <= F /\ pc' = "fetching" /\ at' = at
             \/ pc = "fetching" /\ pc' = "fetch" /\ at' = at + 1
             \/ pc' = "idle" /\ at' = at
      BY <1>1, <2>2 DEF Stations, Fetch, EndFetch, AfterItem, EndRun, Goto, F
    <3>2. \/ fetched' = fetched
          \/ fetched' = [fetched EXCEPT ![at] = "part"]
          \/ fetched' = [fetched EXCEPT ![at] = fetched[at]]
          \/ fetched' = [fetched EXCEPT ![at] = "whole"]
      BY <2>2 DEF Fetch, EndFetch, files
    <3>3. fetched' \in [DOMAIN Items -> {"absent", "part", "whole"}]
      BY <3>2 DEF Stations
    <3>. QED  BY <1>1, <3>1, <3>3 DEF Stations, InSubset, F, S
  <2>3. CASE BeginSubset \/ Download \/ Parse \/ WriteSubset
    <3>1. /\ UNCHANGED <<last, aborts, fetched>>
          /\ pc \in {"subset"} \cup InSubset /\ at <= S
          /\ \/ pc' = "subset" /\ at' = at + 1
             \/ pc' \in InSubset /\ at' = at
      BY <2>3 DEF Stations, BeginSubset, Download, Parse, WriteSubset, Goto, InSubset, files, S
    <3>. QED  BY <1>1, <3>1 DEF Stations, InSubset, F, S
  <2>4. CASE OpenRegistry \/ ParseFails \/ WriteRegistry
    <3>1. /\ UNCHANGED <<at, aborts, fetched>>
          /\ \/ pc = "subset" /\ pc' = "registry" /\ last' = last
             \/ pc' = "idle" /\ last' \in {"ok", "failed"}
      BY <2>4 DEF OpenRegistry, ParseFails, WriteRegistry, EndRun, Goto, files
    <3>. QED  BY <1>1, <3>1 DEF Stations, InSubset, F, S
  <2>. QED  BY <1>2, <2>1, <2>2, <2>3, <2>4 DEF RunStep
<1>3. CASE Abort
  <2>1. /\ pc' = "idle" /\ at' = at /\ last' = "failed" /\ fetched' = fetched
        /\ aborts' = aborts + 1 /\ aborts < MaxAborts
    BY <1>3 DEF Abort, files
  <2>. QED  BY <1>1, <2>1 DEF Stations, InSubset
<1>4. CASE Gate \/ Load \/ Build \/ UNCHANGED vars
  <2>1. UNCHANGED <<pc, at, last, aborts, fetched>>
    BY <1>4 DEF Gate, Load, Build, vars, script, files
  <2>. QED  BY <2>1 DEF Stations
<1>. QED  BY <1>2, <1>3, <1>4 DEF Next

(* A measurement loads subsets of the list only.                           *)
LoadsNamed ==
  /\ client \in {"idle", "gated", "refused", "raised", "ready"}
  /\ DOMAIN loaded \subseteq Named /\ IsFiniteSet(DOMAIN loaded)

LEMMA LoadsAreLists ==
  \A c \in Cells : Len(Loads(c)) \in Nat /\ DOMAIN Loads(c) = 1 .. Len(Loads(c))
<1> DEFINE List(s) == Len(s) \in Nat /\ DOMAIN s = 1 .. Len(s)
<1>1. /\ Loads("a2-dialogue") = <<"sharegpt">> /\ Loads("a2-tool") = <<"bfcl">>
      /\ Loads("a2-reason") = <<"gsm8k">> /\ Loads("a2-struct") = <<"jsonschema">>
      /\ Loads("a2-long") = <<"long">> /\ Loads("a3-32k") = <<"long">>
      /\ Loads("a4-mt") = <<"sharegpt", "bfcl", "gsm8k", "jsonschema">>
      /\ Loads("a1") = <<>>
  BY DEF Loads
<1>2. \A x : List(<<x>>)
  OBVIOUS
<1>3. List(<<"sharegpt", "bfcl", "gsm8k", "jsonschema">>) /\ List(<<>>)
  OBVIOUS
<1> HIDE DEF List
<1>4. \A c \in Cells : List(Loads(c))
  BY <1>1, <1>2, <1>3, Zenon DEF Cells
<1>. QED  BY <1>4 DEF List

LEMMA NextLoadsNamed == Contracted /\ LoadsNamed /\ [Next]_vars => LoadsNamed'
<1> SUFFICES ASSUME Contracted, LoadsNamed, [Next]_vars PROVE LoadsNamed'
  OBVIOUS
<1>1. CASE Load
  <2> DEFINE list == Loads(cfg["meta"]["cell"])
             i == Cardinality(DOMAIN loaded) + 1
  <2>1. cfg["meta"]["cell"] \in Cells
    <3>1. cfg \in Contracts
      BY <1>1 DEF Load, Contracted
    <3>. QED  BY <3>1, CasesAssumption DEF Contracts
  <2>2. i \in DOMAIN list
    <3>1. Cardinality(DOMAIN loaded) \in Nat
      BY FS_CardinalityType DEF LoadsNamed
    <3>2. Cardinality(DOMAIN loaded) < Len(list)
      BY <1>1 DEF Load
    <3>3. Len(list) \in Nat /\ DOMAIN list = 1 .. Len(list)
      BY <2>1, LoadsAreLists
    <3> HIDE DEF list
    <3>. QED  BY <3>1, <3>2, <3>3
  <2>3. list[i] \in Named
    BY <2>1, <2>2, FetchesAssumption
  <2>4. \/ loaded' = loaded /\ client' = "raised"
        \/ DOMAIN loaded' = DOMAIN loaded \cup {list[i]} /\ client' = client
    BY <1>1 DEF Load, Loaded
  <2> HIDE DEF list, i
  <2>. QED  BY <2>3, <2>4, FS_AddElement DEF LoadsNamed
<1>2. CASE Gate \/ Build
  BY <1>2 DEF Gate, Build, LoadsNamed
<1>3. CASE ~(Gate \/ Build \/ Load)
  <2>1. UNCHANGED <<client, loaded>>
    BY <1>3 DEF Next, RunStep, StartRun, Fetch, EndFetch, AfterItem, EndRun, BeginSubset, Download, Parse,
                ParseFails, WriteSubset, OpenRegistry, WriteRegistry, Abort, Goto,
                vars, script, files, measurement
  <2>. QED  BY <2>1 DEF LoadsNamed
<1>. QED  BY <1>1, <1>2, <1>3

(* A pick is not longer than what it is made of.                           *)
LEMMA PickLength ==
  ASSUME NEW k \in DOMAIN Subsets, NEW read \in 0 .. Len(Upstream[Subsets[k].name])
  PROVE  Len(Pick(Subsets[k], read)) <= Len(Upstream[Subsets[k].name])
<1> DEFINE up  == Upstream[Subsets[k].name]
           ids == {i \in 1 .. read : ~up[i][2]}
           m   == Least(Subsets[k].n, Cardinality(ids))
<1>1. Len(up) \in Nat /\ read \in Nat /\ read <= Len(up) /\ Subsets[k].n \in Nat
  BY SubsetTypes
<1>2. IsFiniteSet(1 .. read) /\ Cardinality(1 .. read) = read /\ ids \subseteq 1 .. read
  BY <1>1, FS_Interval
<1>3. Cardinality(ids) \in Nat /\ Cardinality(ids) <= read
  BY <1>2, FS_Subset, FS_CardinalityType
<1>4. DOMAIN Pick(Subsets[k], read) = 1 .. m
  BY DEF Pick, m, ids
<1> HIDE DEF ids
<1>5. m \in Nat /\ m <= read
  BY <1>1, <1>3 DEF Least
<1> HIDE DEF m
<1>6. Len(Pick(Subsets[k], read)) = m
  BY <1>4, <1>5, PickType, LenProperties
<1>. QED  BY <1>1, <1>5, <1>6

(* Type correctness.                                                       *)
THEOREM TypeCorrect == Spec => []TypeOK
<1>1. Init => Stations /\ LoadsNamed /\ Contracted
  BY FetchesAssumption, SubsetTypes, FS_EmptySet
  DEF Init, Stations, LoadsNamed, Contracted, InSubset
<1>2. IInv /\ Stations /\ LoadsNamed => TypeOK
  <2> SUFFICES ASSUME IInv, Stations, LoadsNamed PROVE TypeOK
    OBVIOUS
  <2>1. \A n \in Named : src[n] # None => src[n].read \in 0 .. Len(Upstream[n])
    <3> SUFFICES ASSUME NEW n \in Named, src[n] # None
                 PROVE  src[n].read \in 0 .. Len(Upstream[n])
      OBVIOUS
    <3>1. PICK k \in DOMAIN Subsets : n = Subsets[k].name
      BY DEF Named
    <3>2. src[n].read <= Len(Upstream[n]) /\ Len(Upstream[n]) \in Nat
      BY <3>1, SubsetTypes DEF IInv, Genuine
    <3>3. src[n].read \in Nat
      BY DEF IInv, FileTypes, Sources
    <3>. QED  BY <3>2, <3>3
  <2>2. \A n \in Named : out[n] # None => Len(out[n].recs) <= Len(Upstream[n])
    <3> SUFFICES ASSUME NEW n \in Named, out[n] # None
                 PROVE  Len(out[n].recs) <= Len(Upstream[n])
      OBVIOUS
    <3>1. PICK k \in DOMAIN Subsets : n = Subsets[k].name
      BY DEF Named
    <3>2. PICK read \in 0 .. Len(Upstream[n]) : Len(out[n].recs) <= Len(Pick(Subsets[k], read))
      BY <3>1 DEF IInv, Genuine, FromUpstream, Begins
    <3>3. Len(Pick(Subsets[k], read)) <= Len(Upstream[n]) /\ Len(Pick(Subsets[k], read)) \in Nat
      BY <3>1, <3>2, PickLength, PickType, LenProperties
    <3>4. Len(out[n].recs) \in Nat /\ Len(Upstream[n]) \in Nat
      BY <3>1, SubsetTypes DEF IInv, FileTypes, Outputs
    <3>. QED  BY <3>2, <3>3, <3>4
  <2>3. DOMAIN registry \in {{}, Named}
    BY DEF IInv, Registered
  <2>. QED  BY <2>1, <2>2, <2>3 DEF TypeOK, Stations, LoadsNamed, InSubset
<1>3. Spec => [](Contracted /\ LoadsNamed)
  BY <1>1, NextContracted, NextLoadsNamed, PTL DEF Spec
<1>4. Spec => []Stations
  BY <1>1, NextStations, PTL DEF Spec
<1>. QED  BY <1>2, <1>3, <1>4, Inductive, PTL
=============================================================================
