-------------------- MODULE KeyMetadataConversionProofs --------------------
(***************************************************************************)
(* Proof, for every bound and every convert_from_wire, that the           *)
(* authorizations store_new_key returns carry the security level that     *)
(* enforces each parameter (AuthorizationsProvenance).                    *)
(***************************************************************************)
EXTENDS KeyMetadataConversion, SequenceTheorems, TLAPS

(* A parameter list of KeyCharacteristics is a sequence of wire           *)
(* parameters.                                                            *)
LEMMA BoundedSeqIsSeq ==
  ASSUME NEW S, NEW n \in Nat, NEW s \in SeqOf(S, n)
  PROVE  s \in Seq(S)
  BY SeqDef DEF SeqOf

(* A function on 1..n is a sequence of length n.                         *)
LEMMA FunIsSeq ==
  ASSUME NEW S, NEW n \in Nat, NEW f \in [1..n -> S]
  PROVE  f \in Seq(S)
  BY SeqDef

(* Tagging every parameter of a list with a level gives a sequence of the *)
(* same length whose i-th element is the i-th parameter, converted.       *)
LEMMA TagList ==
  ASSUME ConversionAssumption, NEW l \in Seq(WireParams), NEW lvl
  PROVE  LET m == [i \in 1..Len(l) |-> [value |-> FromWire[l[i]], level |-> lvl]]
         IN  /\ m \in Seq([value: Values, level: {lvl}])
             /\ Len(m) = Len(l)
             /\ \A i \in 1..Len(l) : m[i] = [value |-> FromWire[l[i]], level |-> lvl]
<1> DEFINE m == [i \in 1..Len(l) |-> [value |-> FromWire[l[i]], level |-> lvl]]
<1>1. \A i \in 1..Len(l) : l[i] \in WireParams
  BY ElementOfSeq
<1>2. m \in [1..Len(l) -> [value: Values, level: {lvl}]]
  BY <1>1 DEF ConversionAssumption
<1>3. Len(l) \in Nat
  BY LenProperties
<1>4. m \in Seq([value: Values, level: {lvl}])
  BY <1>2, <1>3, FunIsSeq
<1>. QED
  BY <1>3, <1>4

(* key_parameters_to_authorizations of key_characteristics_to_internal:   *)
(* the hardware-enforced parameters with the given level, then the        *)
(* software-enforced ones with SOFTWARE, in order, none lost or added.    *)
LEMMA ConversionProvenance ==
  ASSUME ConversionAssumption, NEW k \in Characteristics
  PROVE  LET a  == KeyParametersToAuthorizations(KeyCharacteristicsToInternal(k, HwLevel))
             hw == k.hardwareEnforced
             sw == k.softwareEnforced
         IN  /\ Len(a) = Len(hw) + Len(sw)
             /\ \A i \in 1..Len(hw) :
                  a[i] = [securityLevel |-> HwLevel, keyParameter |-> FromWire[hw[i]]]
             /\ \A i \in 1..Len(sw) :
                  a[Len(hw) + i] = [securityLevel |-> Software, keyParameter |-> FromWire[sw[i]]]
<1> DEFINE hw == k.hardwareEnforced
           sw == k.softwareEnforced
           H  == [i \in 1..Len(hw) |-> [value |-> FromWire[hw[i]], level |-> HwLevel]]
           W  == [i \in 1..Len(sw) |-> [value |-> FromWire[sw[i]], level |-> Software]]
           R  == [value: Values, level: {HwLevel, Software}]
           ps == H \o W
           a  == KeyParametersToAuthorizations(ps)
<1>1. hw \in Seq(WireParams) /\ sw \in Seq(WireParams)
  BY BoundedSeqIsSeq, ConversionAssumption DEF Characteristics
<1>2. /\ H \in Seq([value: Values, level: {HwLevel}])
      /\ Len(H) = Len(hw)
      /\ \A i \in 1..Len(hw) : H[i] = [value |-> FromWire[hw[i]], level |-> HwLevel]
  BY <1>1, TagList
<1>3. /\ W \in Seq([value: Values, level: {Software}])
      /\ Len(W) = Len(sw)
      /\ \A i \in 1..Len(sw) : W[i] = [value |-> FromWire[sw[i]], level |-> Software]
  BY <1>1, TagList
<1>4. H \in Seq(R) /\ W \in Seq(R)
  <2>1. [value: Values, level: {HwLevel}] \subseteq R /\ [value: Values, level: {Software}] \subseteq R
    OBVIOUS
  <2>. QED
    BY <1>2, <1>3, <2>1, SeqMonotonic
<1>5. /\ ps \in Seq(R)
      /\ Len(ps) = Len(H) + Len(W)
      /\ \A i \in 1..Len(H) + Len(W) : ps[i] = IF i <= Len(H) THEN H[i] ELSE W[i - Len(H)]
  BY <1>4, ConcatProperties
<1>6. DOMAIN ps = 1..Len(ps)
  BY <1>5, LenProperties
<1>8. Len(hw) \in Nat /\ Len(sw) \in Nat
  BY <1>1, LenProperties
<1>7. a \in Seq([securityLevel: {HwLevel, Software}, keyParameter: Values])
      /\ Len(a) = Len(ps)
      /\ \A i \in 1..Len(ps) : a[i] = IntoAuthorization(ps[i])
  <2>1. ASSUME NEW i \in 1..Len(ps)
        PROVE  IntoAuthorization(ps[i]) \in [securityLevel: {HwLevel, Software}, keyParameter: Values]
    <3>1. ps[i] \in R
      BY <1>5, ElementOfSeq
    <3>. QED
      BY <3>1 DEF IntoAuthorization, R
  <2>2. Len(ps) \in Nat
    BY <1>5, LenProperties
  <2>3. a \in [1..Len(ps) -> [securityLevel: {HwLevel, Software}, keyParameter: Values]]
    BY <1>6, <2>1 DEF KeyParametersToAuthorizations, a
  <2>4. a \in Seq([securityLevel: {HwLevel, Software}, keyParameter: Values])
    BY <2>2, <2>3, FunIsSeq
  <2>5. Len(a) = Len(ps)
    BY <2>2, <2>3, <2>4, LenProperties
  <2>6. \A i \in 1..Len(ps) : a[i] = IntoAuthorization(ps[i])
    BY <1>6 DEF KeyParametersToAuthorizations, a
  <2>. QED
    BY <2>4, <2>5, <2>6
<1>9. Len(a) = Len(hw) + Len(sw)
  BY <1>2, <1>3, <1>5, <1>7
<1>10. ASSUME NEW i \in 1..Len(hw)
       PROVE  a[i] = [securityLevel |-> HwLevel, keyParameter |-> FromWire[hw[i]]]
  <2>1. i \in 1..Len(ps) /\ i <= Len(H)
    BY <1>2, <1>3, <1>5, <1>8
  <2>2. a[i] = IntoAuthorization(H[i])
    BY <1>5, <1>7, <2>1
  <2>. QED
    BY <1>2, <2>2 DEF IntoAuthorization
<1>11. ASSUME NEW i \in 1..Len(sw)
       PROVE  a[Len(hw) + i] = [securityLevel |-> Software, keyParameter |-> FromWire[sw[i]]]
  <2>1. Len(hw) + i \in 1..Len(ps) /\ ~(Len(hw) + i <= Len(H)) /\ (Len(hw) + i) - Len(H) = i
    BY <1>2, <1>3, <1>5, <1>8
  <2>2. a[Len(hw) + i] = IntoAuthorization(W[i])
    BY <1>5, <1>7, <2>1
  <2>. QED
    BY <1>3, <2>2 DEF IntoAuthorization
<1>12. KeyCharacteristicsToInternal(k, HwLevel) = ps
  BY DEF KeyCharacteristicsToInternal
<1>. QED
  BY <1>9, <1>10, <1>11, <1>12
-----------------------------------------------------------------------------
(* The inductive invariant: the characteristics stay a KeyMint result,    *)
(* so that whatever store_new_key stores is their conversion.             *)
ProvInv == kc \in Characteristics /\ AuthorizationsProvenance

(* Before store_new_key no authorizations exist.                          *)
LEMMA ProvInvInit ==
  Init => ProvInv
  BY DEF Init, ProvInv, AuthorizationsProvenance

(* store_new_key stores the conversion of unchanged characteristics.      *)
LEMMA ProvInvStep ==
  ProvInv /\ [Next]_vars => ProvInv'
<1> SUFFICES ASSUME ProvInv, [Next]_vars PROVE ProvInv'
  OBVIOUS
<1>1. CASE Next
  <2>1. kc' = kc /\ kc \in Characteristics
    BY <1>1 DEF Next, StoreNewKey, ProvInv
  <2>2. auths' = KeyParametersToAuthorizations(KeyCharacteristicsToInternal(kc, HwLevel))
    BY <1>1 DEF Next, StoreNewKey
  <2>. QED
    BY <2>1, <2>2, ConversionProvenance, ConversionAssumption
       DEF ProvInv, AuthorizationsProvenance
<1>2. CASE UNCHANGED vars
  BY <1>2 DEF vars, ProvInv, AuthorizationsProvenance
<1>. QED
  BY <1>1, <1>2

(* For every bound and every convert_from_wire: once store_new_key has    *)
(* returned, each authorization in KeyMetadata carries the level that     *)
(* enforces its parameter (key_characteristics_to_internal followed by    *)
(* key_parameters_to_authorizations), in KeyMint's order, none lost.      *)
THEOREM AuthorizationsCarryLevels == Spec => []AuthorizationsProvenance
<1>1. ProvInv => AuthorizationsProvenance
  BY DEF ProvInv
<1>. QED
  BY ProvInvInit, ProvInvStep, <1>1, PTL DEF Spec
=============================================================================
