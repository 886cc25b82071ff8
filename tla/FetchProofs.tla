---------------------------- MODULE FetchProofs ----------------------------
(***************************************************************************)
(* Proofs about Fetch for any number of invocations, files and chunks.     *)
(* VerifiedUse and PromotesPinned are proved under ~Overlap: the digest of *)
(* the partial file is taken by path and the rename is a later step, so    *)
(* both rest on nobody else opening the same path in between.              *)
(***************************************************************************)
EXTENDS Fetch, TLAPS

OneFetcher == \A f, g \in Fetchers : pc[f] # "idle" /\ pc[g] # "idle" => f = g

VerifiedReplace ==
  \A f \in Fetchers : pc[f] = "replace" => partial # None /\ Pinned(partial)

FetchInv == TypeOK /\ OneFetcher /\ VerifiedReplace /\ VerifiedUse

LEMMA Constants == Chunks \in Nat \ {0} /\ None \notin Inodes
BY FetchAssumption DEF FetchAssumption

LEMMA TypeInit == Init => TypeOK
<1> SUFFICES ASSUME Init PROVE TypeOK
  OBVIOUS
<1>1. content \in [Inodes -> [1..Chunks -> Bytes]]
  <2>1. [1..Chunks -> {"good", "bad"}] \subseteq [1..Chunks -> Bytes]
    BY DEF Bytes
  <2> QED BY <2>1 DEF Init
<1> QED BY <1>1, Constants DEF Init, TypeOK, Labels

LEMMA TypeStep == TypeOK /\ [Next]_vars => TypeOK'
<1> SUFFICES ASSUME TypeOK, [Next]_vars PROVE TypeOK'
  OBVIOUS
<1> USE Constants
<1>1. ASSUME NEW f \in Fetchers, Begin(f) \/ CheckCache(f) \/ VerifyPartial(f) \/ Use(f)
      PROVE  TypeOK'
  BY <1>1 DEF TypeOK, Begin, CheckCache, VerifyPartial, Use, Goto, Labels
<1>2. ASSUME NEW f \in Fetchers, OpenPartial(f) PROVE TypeOK'
  <2>1. PICK i \in Inodes : /\ partial' = i
                            /\ content' = [content EXCEPT ![i] = [k \in 1..Chunks |-> "hole"]]
                            /\ fd' = [fd EXCEPT ![f] = i]
    BY <1>2 DEF OpenPartial
  <2>2. content' \in [Inodes -> [1..Chunks -> Bytes]]
    BY <2>1 DEF TypeOK, Bytes
  <2>3. pos' \in [Fetchers -> 1..Chunks + 1] /\ server' \in [Fetchers -> {"good", "bad"}]
    BY <1>2 DEF TypeOK, OpenPartial
  <2> QED BY <1>2, <2>1, <2>2, <2>3 DEF TypeOK, OpenPartial, Goto, Labels
<1>3. ASSUME NEW f \in Fetchers, WriteChunk(f) PROVE TypeOK'
  <2>1. fd[f] \in Inodes /\ pos[f] \in 1..Chunks /\ server[f] \in Bytes
    BY <1>3 DEF TypeOK, WriteChunk, Bytes
  <2>2. [content[fd[f]] EXCEPT ![pos[f]] = server[f]] \in [1..Chunks -> Bytes]
    BY <2>1 DEF TypeOK
  <2>3. content' \in [Inodes -> [1..Chunks -> Bytes]]
    BY <1>3, <2>1, <2>2 DEF TypeOK, WriteChunk
  <2>4. pos' \in [Fetchers -> 1..Chunks + 1]
    BY <1>3, <2>1 DEF TypeOK, WriteChunk
  <2> QED BY <1>3, <2>3, <2>4 DEF TypeOK, WriteChunk
<1>4. ASSUME NEW f \in Fetchers, CurlReturns(f) \/ Promote(f) \/ Fails(f) PROVE TypeOK'
  BY <1>4 DEF TypeOK, CurlReturns, Promote, Fails, Goto, Labels
<1>5. CASE Damage
  <2>1. PICK k \in 1..Chunks : content' = [content EXCEPT ![dest][k] = "bad"]
    BY <1>5 DEF Damage
  <2>2. dest \in Inodes
    BY <1>5 DEF Damage, TypeOK
  <2>3. [content[dest] EXCEPT ![k] = "bad"] \in [1..Chunks -> Bytes]
    BY <2>2 DEF TypeOK, Bytes
  <2>4. content' \in [Inodes -> [1..Chunks -> Bytes]]
    BY <2>1, <2>2, <2>3 DEF TypeOK
  <2> QED BY <1>5, <2>4 DEF TypeOK, Damage
<1>6. CASE UNCHANGED vars
  BY <1>6 DEF TypeOK, vars
<1> QED BY <1>1, <1>2, <1>3, <1>4, <1>5, <1>6 DEF Next, FetchStep

(* Every variable of Fetch keeps its type. *)
THEOREM FetchTyped == Spec => []TypeOK
BY TypeInit, TypeStep, PTL DEF Spec

-----------------------------------------------------------------------------
LEMMA InvInit == Init => FetchInv
BY TypeInit DEF Init, FetchInv, OneFetcher, VerifiedReplace, VerifiedUse

(* The steps of one invocation, while no other runs. *)
LEMMA InvStep == ~Overlap /\ FetchInv /\ [Next]_vars => FetchInv'
<1> SUFFICES ASSUME ~Overlap, FetchInv, [Next]_vars PROVE FetchInv'
  OBVIOUS
<1>0. TypeOK /\ TypeOK'
  BY TypeStep DEF FetchInv
<1>1. ASSUME NEW f \in Fetchers, Begin(f) PROVE FetchInv'
  BY <1>0, <1>1 DEF FetchInv, TypeOK, OneFetcher, VerifiedReplace, VerifiedUse, CachePinned,
    Pinned, Begin, Goto
<1>2. ASSUME NEW f \in Fetchers, FetchStep(f) \/ Fails(f) PROVE FetchInv'
  <2>1. pc[f] # "idle" /\ pc' = [pc EXCEPT ![f] = pc'[f]]
    BY <1>0, <1>2 DEF FetchStep, Fails, CheckCache, OpenPartial, WriteChunk, CurlReturns,
      VerifyPartial, Promote, Use, Goto, TypeOK
  <2>2. \A g \in Fetchers \ {f} : pc[g] = "idle" /\ pc'[g] = "idle"
    BY <1>0, <2>1 DEF FetchInv, OneFetcher, TypeOK
  <2>3. pc'[f] = "use" => CachePinned'
    BY <1>0, <1>2 DEF FetchInv, VerifiedReplace, CachePinned, Pinned, TypeOK, FetchStep, Fails,
      CheckCache, OpenPartial, WriteChunk, CurlReturns, VerifyPartial, Promote, Use, Goto
  <2>4. pc'[f] = "replace" => (partial # None /\ Pinned(partial))'
    BY <1>0, <1>2 DEF Pinned, TypeOK, FetchStep, Fails,
      CheckCache, OpenPartial, WriteChunk, CurlReturns, VerifyPartial, Promote, Use, Goto
  <2> QED
    BY <1>0, <2>2, <2>3, <2>4 DEF FetchInv, OneFetcher, VerifiedReplace, VerifiedUse
<1>3. CASE Damage
  BY <1>0, <1>3 DEF FetchInv, OneFetcher, VerifiedReplace, VerifiedUse, Damage
<1>4. CASE UNCHANGED vars
  BY <1>0, <1>4 DEF FetchInv, OneFetcher, VerifiedReplace, VerifiedUse, CachePinned, Pinned, vars
<1> QED BY <1>1, <1>2, <1>3, <1>4 DEF Next

(* While invocations take turns, what fetch() returns holds the pinned     *)
(* bytes, after any history of damage, failures and interruptions.         *)
THEOREM FetchVerified == ~Overlap => (Spec => []VerifiedUse)
<1> SUFFICES ASSUME ~Overlap PROVE Spec => []VerifiedUse
  OBVIOUS
<1>1. FetchInv => VerifiedUse
  BY DEF FetchInv
<1>2. FetchInv /\ [Next]_vars => FetchInv'
  BY InvStep
<1> QED BY <1>1, <1>2, InvInit, PTL DEF Spec

(* While invocations take turns, no file is promoted without its digest.   *)
THEOREM FetchPromotesPinned == ~Overlap => (Spec => PromotesPinned)
<1> SUFFICES ASSUME ~Overlap PROVE Spec => PromotesPinned
  OBVIOUS
<1>1. FetchInv /\ [Next]_vars => FetchInv'
  BY InvStep
<1>2. FetchInv /\ [Next]_vars => [dest' # dest => CachePinned']_vars
  <2> SUFFICES ASSUME FetchInv, Next, dest' # dest PROVE CachePinned'
    BY DEF vars
  <2>1. PICK f \in Fetchers : Promote(f)
    BY DEF Next, FetchStep, Begin, CheckCache, OpenPartial, WriteChunk, CurlReturns,
      VerifyPartial, Use, Fails, Damage
  <2> QED BY <2>1 DEF Promote, FetchInv, VerifiedReplace, CachePinned, Pinned
<1> QED BY <1>1, <1>2, InvInit, PTL DEF Spec, PromotesPinned
=============================================================================
