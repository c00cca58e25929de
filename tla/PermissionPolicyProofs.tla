----------------------- MODULE PermissionPolicyProofs -----------------------
(* Proofs about PermissionPolicy for every session, call, rule and bound.    *)
EXTENDS PermissionPolicy, FiniteSetTheorems, TLAPS

(* What enforce_cache_bounds keeps of a finite cache is part of it and fits. *)
LEMMA TrimsFit ==
    ASSUME NEW S, IsFiniteSet(S), NEW T \in Trims(S)
    PROVE  /\ T \subseteq S
           /\ IsFiniteSet(T)
           /\ Cardinality(T) <= CacheMax
<1>1. T \subseteq S /\ Cardinality(T) = IF Cardinality(S) > CacheMax THEN CacheMax ELSE Cardinality(S)
  BY DEF Trims
<1>2. IsFiniteSet(T)
  BY <1>1, FS_Subset
<1>3. Cardinality(S) \in Nat
  BY FS_CardinalityType
<1> QED BY <1>1, <1>2, <1>3, PolicyConstants

(* The policy's caches stay well typed and within their bound.               *)
LEMMA TypeAndBoundsStep ==
    ASSUME PolicyTypeOK, CacheBounded, [PolicyNext]_policyVars
    PROVE  PolicyTypeOK' /\ CacheBounded'
<1>1. ASSUME NEW s \in Sessions, NEW c \in Calls, NEW answer \in Answers,
             Record(s, c, answer)
      PROVE  PolicyTypeOK' /\ CacheBounded'
  <2> DEFINE k == <<s, c>>
  <2>0. k \in Keys
    BY DEF Keys
  <2>1. IsFiniteSet(allowed \cup {k}) /\ IsFiniteSet(DOMAIN denied \cup {k})
    BY FS_AddElement DEF CacheBounded
  <2>2. CASE answer = "Deny"
    <3>1. RecordDeny(k)
      BY <1>1, <2>2 DEF Record
    <3>2. PICK T \in Trims(DOMAIN denied \cup {k}) : denied' = [x \in T |-> DeniedWith(k)[x]]
      BY <3>1 DEF RecordDeny
    <3>3. /\ T \subseteq DOMAIN denied \cup {k}
          /\ IsFiniteSet(T) /\ Cardinality(T) <= CacheMax
      BY <2>1, TrimsFit
    <3>4. \A x \in T : DeniedWith(k)[x] \in Nat
      BY <3>3, PolicyConstants DEF DeniedWith, PolicyTypeOK
    <3>5. DOMAIN denied' = T /\ denied' \in [T -> Nat]
      BY <3>2, <3>4
    <3>6. /\ allowed' \subseteq allowed
          /\ IsFiniteSet(allowed') /\ Cardinality(allowed') <= CacheMax
      BY <3>1, TrimsFit DEF RecordDeny, CacheBounded
    <3> QED
      BY <1>1, <2>0, <3>1, <3>3, <3>5, <3>6
      DEF PolicyTypeOK, CacheBounded, Record, RecordDeny
  <2>3. CASE answer # "Deny"
    <3>1. RecordAllow(k)
      BY <1>1, <2>3 DEF Record
    <3>2. PICK T \in Trims(DOMAIN denied) : denied' = [x \in T |-> denied[x]]
      BY <3>1 DEF RecordAllow
    <3>3. T \subseteq DOMAIN denied /\ IsFiniteSet(T) /\ Cardinality(T) <= CacheMax
      BY TrimsFit DEF CacheBounded
    <3>4. DOMAIN denied' = T /\ denied' \in [T -> Nat]
      BY <3>2, <3>3 DEF PolicyTypeOK
    <3>5. /\ allowed' \subseteq allowed \cup {k}
          /\ IsFiniteSet(allowed') /\ Cardinality(allowed') <= CacheMax
      BY <2>1, <3>1, TrimsFit DEF RecordAllow
    <3> QED
      BY <1>1, <2>0, <3>1, <3>3, <3>4, <3>5
      DEF PolicyTypeOK, CacheBounded, Record, RecordAllow
  <2> QED BY <2>2, <2>3
<1>2. ASSUME NEW sc \in Scopes, NEW b \in Buckets, NEW p \in Patterns, AddPattern(sc, b, p)
      PROVE  PolicyTypeOK' /\ CacheBounded'
  BY <1>2 DEF AddPattern, PolicyTypeOK, CacheBounded
<1>3. ASSUME NEW sc \in Scopes, NEW d \in Dirs, AddDir(sc, d)
      PROVE  PolicyTypeOK' /\ CacheBounded'
  BY <1>3 DEF AddDir, PolicyTypeOK, CacheBounded
<1>4. CASE Tick
  BY <1>4 DEF Tick, PolicyTypeOK, CacheBounded
<1>5. CASE UNCHANGED policyVars
  BY <1>5 DEF policyVars, PolicyTypeOK, CacheBounded
<1> QED BY <1>1, <1>2, <1>3, <1>4, <1>5 DEF PolicyNext

LEMMA TypeAndBoundsInit == PolicyInit => PolicyTypeOK /\ CacheBounded
<1> SUFFICES ASSUME PolicyInit PROVE PolicyTypeOK /\ CacheBounded
  OBVIOUS
<1>1. IsFiniteSet({}) /\ Cardinality({}) = 0
  BY FS_EmptySet
<1>2. allowed = {} /\ DOMAIN denied = {} /\ denied \in [DOMAIN denied -> Nat]
  BY DEF PolicyInit
<1> QED BY <1>1, <1>2, PolicyConstants DEF PolicyInit, PolicyTypeOK, CacheBounded

(* Type correctness of the policy (ConfigurablePermissionPolicy).            *)
THEOREM PolicyTypeInvariant == PolicySpec => []PolicyTypeOK
<1>1. PolicySpec => [](PolicyTypeOK /\ CacheBounded)
  BY TypeAndBoundsInit, TypeAndBoundsStep, PTL DEF PolicySpec
<1> QED BY <1>1, PTL

(* However answers come in, neither cache outgrows                           *)
(* permission_cache_max_entries (enforce_cache_bounds).                      *)
THEOREM CacheBoundInvariant == PolicySpec => []CacheBounded
<1>1. PolicySpec => [](PolicyTypeOK /\ CacheBounded)
  BY TypeAndBoundsInit, TypeAndBoundsStep, PTL DEF PolicySpec
<1> QED BY <1>1, PTL

-----------------------------------------------------------------------------
(* The inductive form of AllowNeedsConsent: the cache holds only keys the    *)
(* user consented to.                                                        *)
ConsentInv == allowed \subseteq consented

(* Every step keeps the allowed cache within what was consented to.          *)
LEMMA ConsentStep ==
    ASSUME ConsentInv, [PolicyNext]_policyVars
    PROVE  ConsentInv'
<1>1. ASSUME NEW s \in Sessions, NEW c \in Calls, NEW answer \in Answers,
             Record(s, c, answer)
      PROVE  ConsentInv'
  BY <1>1 DEF ConsentInv, Record, RecordAllow, RecordDeny, Trims
<1>2. CASE UNCHANGED <<allowed, consented>>
  BY <1>2 DEF ConsentInv
<1> QED BY <1>1, <1>2 DEF PolicyNext, AddPattern, AddDir, Tick, policyVars

(* A call to a tool in ask mode is let through only where the user once      *)
(* allowed exactly this call (check_tool_permission, record_permission).     *)
THEOREM ConsentTheorem == PolicySpec => []AllowNeedsConsent
<1>1. PolicyInit => ConsentInv
  BY DEF PolicyInit, ConsentInv
<1>2. ConsentInv /\ [PolicyNext]_policyVars => ConsentInv'
  BY ConsentStep
<1>3. ConsentInv => AllowNeedsConsent
  BY DEF ConsentInv, AllowNeedsConsent, Check, Remembered
<1> QED BY <1>1, <1>2, <1>3, PTL DEF PolicySpec

-----------------------------------------------------------------------------
(* Patterns only accumulate: a pattern that matches goes on matching.        *)
LEMMA PatternsAccumulate ==
    ASSUME PolicyTypeOK, NEW sc \in Scopes, NEW b \in Buckets, NEW p \in Patterns,
           AddPattern(sc, b, p),
           NEW s \in Sessions, NEW c \in Calls, NEW y \in Buckets, PatternHit(y, s, c)
    PROVE  PatternHit(y, s, c)'
<1>1. \A x \in Scopes : patterns[x][y] \subseteq patterns'[x][y]
  BY DEF AddPattern, PolicyTypeOK
<1>2. ScopesOf(s) \subseteq Scopes
  BY DEF ScopesOf, Scopes
<1> QED BY <1>1, <1>2 DEF PatternHit

(* What lets a call through after a step that did not let it through before, *)
(* for each kind of step of the policy.                                      *)
LEMMA GrowthByStep ==
    ASSUME PolicyTypeOK, [PolicyNext]_policyVars
    PROVE  GrowthStep
<1> SUFFICES ASSUME NEW a \in Agents, NEW s \in Sessions, NEW c \in Calls,
                    Check(a, s, c) # "Allow", Check(a, s, c)' = "Allow"
             PROVE  \/ <<s, c>> \in allowed' \ allowed
                    \/ \E sc \in ScopesOf(s) : dirs'[sc] # dirs[sc]
                    \/ DenialLifted(<<s, c>>)
  BY DEF GrowthStep
<1> DEFINE k == <<s, c>>
<1>0. "deny" \in Buckets /\ "ask" \in Buckets
  BY DEF Buckets
<1>1. CASE UNCHANGED <<patterns, dirs>>
  <2>1. PathsAllowed(s, c)' <=> PathsAllowed(s, c)
    BY <1>1 DEF PathsAllowed
  <2>2. \A y \in Buckets : PatternHit(y, s, c)' <=> PatternHit(y, s, c)
    BY <1>1 DEF PatternHit
  <2>3. Remembered(k) # "Allow" /\ Remembered(k)' = "Allow"
    BY <1>0, <2>1, <2>2 DEF Check
  <2>4. k \in allowed' /\ ~FreshDenial(k)'
    BY <2>3 DEF Remembered
  <2>5. FreshDenial(k) \/ k \notin allowed
    BY <2>3 DEF Remembered
  <2> QED BY <2>4, <2>5 DEF DenialLifted
<1>2. ASSUME NEW sc \in Scopes, NEW b \in Buckets, NEW p \in Patterns, AddPattern(sc, b, p)
      PROVE  FALSE
  <2>1. \A y \in Buckets : PatternHit(y, s, c) => PatternHit(y, s, c)'
    BY <1>2, PatternsAccumulate
  <2>2. UNCHANGED <<allowed, denied, dirs, now>>
    BY <1>2 DEF AddPattern
  <2>3. PathsAllowed(s, c)' <=> PathsAllowed(s, c)
    BY <2>2 DEF PathsAllowed
  <2>4. Remembered(k)' = Remembered(k)
    BY <2>2 DEF Remembered, FreshDenial
  <2> QED BY <1>0, <2>1, <2>3, <2>4 DEF Check
<1>3. ASSUME NEW x \in Scopes, NEW d \in Dirs, AddDir(x, d)
      PROVE  \E sc \in ScopesOf(s) : dirs'[sc] # dirs[sc]
  <2> SUFFICES ASSUME \A sc \in ScopesOf(s) : dirs'[sc] = dirs[sc] PROVE FALSE
    OBVIOUS
  <2>1. UNCHANGED <<allowed, denied, patterns, now>>
    BY <1>3 DEF AddDir
  <2>2. PathsAllowed(s, c)' <=> PathsAllowed(s, c)
    <3>1. UNION {dirs'[sc] : sc \in ScopesOf(s)} = UNION {dirs[sc] : sc \in ScopesOf(s)}
      OBVIOUS
    <3> QED BY <3>1 DEF PathsAllowed
  <2>3. \A y \in Buckets : PatternHit(y, s, c)' <=> PatternHit(y, s, c)
    BY <2>1 DEF PatternHit
  <2>4. Remembered(k)' = Remembered(k)
    BY <2>1 DEF Remembered, FreshDenial
  <2> QED BY <1>0, <2>2, <2>3, <2>4 DEF Check
<1> QED
  BY <1>1, <1>2, <1>3 DEF PolicyNext, Record, Tick, policyVars

(* No rule added for tightening widens anything, and no session's answers    *)
(* widen another session (check_tool_permission, record_permission).           *)
THEOREM PrivilegeGrowthTheorem == PolicySpec => PrivilegeGrowth
<1>1. PolicyTypeOK /\ [PolicyNext]_policyVars => [GrowthStep]_policyVars
  BY GrowthByStep
<1> QED BY <1>1, PolicyTypeInvariant, PTL DEF PolicySpec, PrivilegeGrowth

-----------------------------------------------------------------------------
(* Nothing that is refused is refused for longer than the window from now    *)
(* on: what DenialHolds rests on when the window is empty.                   *)
DenialsExpire == \A k \in DOMAIN denied : denied[k] <= now + DenyWindow

LEMMA DenialsExpireStep ==
    ASSUME PolicyTypeOK, DenialsExpire, [PolicyNext]_policyVars
    PROVE  DenialsExpire'
<1>0. now \in Nat /\ DenyWindow \in Nat /\ \A k \in DOMAIN denied : denied[k] \in Nat
  BY PolicyConstants DEF PolicyTypeOK
<1>1. ASSUME NEW k, RecordDeny(k), now' = now PROVE DenialsExpire'
  BY <1>0, <1>1 DEF RecordDeny, Trims, DeniedWith, DenialsExpire
<1>2. ASSUME NEW k, RecordAllow(k), now' = now PROVE DenialsExpire'
  BY <1>0, <1>2 DEF RecordAllow, Trims, DenialsExpire
<1>3. CASE Tick
  BY <1>0, <1>3 DEF Tick, DenialsExpire
<1>4. CASE UNCHANGED <<denied, now>>
  BY <1>4 DEF DenialsExpire
<1> QED
  BY <1>1, <1>2, <1>3, <1>4 DEF PolicyNext, Record, AddPattern, AddDir, policyVars

(* A cache that fits loses nothing to enforce_cache_bounds.                  *)
LEMMA TrimsKeepWhatFits ==
    ASSUME NEW S, IsFiniteSet(S), Cardinality(S) <= CacheMax, NEW T \in Trims(S)
    PROVE  T = S
<1>1. Cardinality(S) \in Nat /\ CacheMax \in Nat
  BY FS_CardinalityType, PolicyConstants
<1>2. T \subseteq S /\ Cardinality(T) = Cardinality(S)
  BY <1>1 DEF Trims
<1> QED BY <1>2, FS_Subset

(* A full cache that takes one more key and drops another takes the new one. *)
LEMMA TrimsEvict ==
    ASSUME NEW S, IsFiniteSet(S), Cardinality(S) <= CacheMax, NEW new,
           NEW T \in Trims(S \cup {new}), NEW k \in S, k \notin T
    PROVE  Cardinality(S) = CacheMax /\ T \ S # {}
<1>1. IsFiniteSet(S \cup {new}) /\ Cardinality(S) \in Nat /\ CacheMax \in Nat
  BY FS_AddElement, FS_CardinalityType, PolicyConstants
<1>2. Cardinality(S \cup {new}) = IF new \in S THEN Cardinality(S) ELSE Cardinality(S) + 1
  BY FS_AddElement
<1>3. T \subseteq S \cup {new} /\ T # S \cup {new} /\ IsFiniteSet(T)
  BY <1>1, FS_Subset DEF Trims
<1>4. Cardinality(T) # Cardinality(S \cup {new})
  BY <1>1, <1>3, FS_Subset
<1>5. Cardinality(S) = CacheMax /\ Cardinality(T) = CacheMax
  BY <1>1, <1>2, <1>4 DEF Trims
<1>6. ~(T \subseteq S)
  <2> SUFFICES ASSUME T \subseteq S PROVE FALSE
    OBVIOUS
  <2>1. T = S
    BY <1>5, FS_Subset
  <2> QED BY <2>1
<1> QED BY <1>5, <1>6

LEMMA DenialByStep ==
    ASSUME PolicyTypeOK, CacheBounded, DenialsExpire, [PolicyNext]_policyVars
    PROVE  DenialStep
<1> SUFFICES ASSUME NEW k \in Keys, FreshDenial(k), ~FreshDenial(k)'
             PROVE  now' >= denied[k] \/ EvictsDenial(k)
  BY DEF DenialStep, DenialLifted
<1>0. /\ k \in DOMAIN denied /\ now < denied[k] /\ denied[k] \in Nat /\ now \in Nat
      /\ DenyWindow \in Nat
  BY PolicyConstants DEF FreshDenial, PolicyTypeOK
<1>1. ASSUME NEW new, RecordDeny(new), now' = now PROVE EvictsDenial(k)
  <2>1. PICK T \in Trims(DOMAIN denied \cup {new}) : denied' = [x \in T |-> DeniedWith(new)[x]]
    BY <1>1 DEF RecordDeny
  <2>2. k \notin T
    <3> SUFFICES ASSUME k \in T PROVE FALSE
      OBVIOUS
    <3>1. denied'[k] = IF k = new THEN now + DenyWindow ELSE denied[k]
      BY <2>1, <1>0 DEF DeniedWith
    <3>2. denied[k] <= now + DenyWindow
      BY <1>0 DEF DenialsExpire
    <3>3. denied'[k] > now
      BY <1>0, <3>1, <3>2
    <3> QED BY <1>1, <2>1, <3>3, <1>0 DEF FreshDenial
  <2>3. Cardinality(DOMAIN denied) = CacheMax /\ T \ DOMAIN denied # {}
    BY <1>0, <2>2, TrimsEvict DEF CacheBounded
  <2> QED BY <2>1, <2>2, <2>3 DEF EvictsDenial
<1>2. ASSUME NEW new, RecordAllow(new), now' = now PROVE FALSE
  <2>1. PICK T \in Trims(DOMAIN denied) : denied' = [x \in T |-> denied[x]]
    BY <1>2 DEF RecordAllow
  <2>2. T = DOMAIN denied
    BY TrimsKeepWhatFits DEF CacheBounded
  <2> QED BY <1>0, <1>2, <2>1, <2>2 DEF FreshDenial
<1>3. CASE Tick
  BY <1>0, <1>3 DEF Tick, FreshDenial
<1>4. CASE UNCHANGED <<denied, now>>
  BY <1>4, <1>0 DEF FreshDenial
<1> QED
  BY <1>1, <1>2, <1>3, <1>4 DEF PolicyNext, Record, AddPattern, AddDir, policyVars

(* A remembered denial is lifted by its expiry, or by another denial when    *)
(* the cache is full; no answer "allow" and no rule lifts it                 *)
(* (record_permission, enforce_cache_bounds).                                *)
THEOREM DenialTheorem == PolicySpec => DenialHolds
<1> DEFINE Inv == PolicyTypeOK /\ CacheBounded /\ DenialsExpire
<1>1. PolicyInit => Inv
  BY TypeAndBoundsInit DEF PolicyInit, DenialsExpire
<1>2. Inv /\ [PolicyNext]_policyVars => Inv' /\ [DenialStep]_policyVars
  BY TypeAndBoundsStep, DenialsExpireStep, DenialByStep
<1> QED BY <1>1, <1>2, PTL DEF PolicySpec, DenialHolds
=============================================================================
