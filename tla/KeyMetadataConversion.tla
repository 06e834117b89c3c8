------------------------- MODULE KeyMetadataConversion -------------------------
(***************************************************************************)
(* The conversions store_new_key applies to what KeyMint returns for a new *)
(* key (security_level.rs, utils.rs): the certificate chain is split into  *)
(* the leaf certificate and the concatenated rest, and the key             *)
(* characteristics become the key parameters stored with the entry, then   *)
(* the authorizations of the KeyMetadata returned to the caller.          *)
(*                                                                         *)
(* A certificate is its sequence of bytes.  KeyParameterValue::            *)
(* convert_from_wire and KeyParameter::into_authorization are not under    *)
(* src/: the first is an arbitrary function FromWire of the wire           *)
(* parameter, the second pairs a parameter's value with its security      *)
(* level.                                                                  *)
(***************************************************************************)
EXTENDS Naturals, Sequences, SequencesExt

CONSTANTS
  Bytes,        \* byte values certificates are made of
  WireParams,   \* KeyMint KeyParameters (tag and value) on the wire
  Values,       \* KeyParameterValues
  FromWire,     \* KeyParameterValue::convert_from_wire
  HwLevel,      \* the security level of this service instance
  Software,     \* SecurityLevel::SOFTWARE
  MaxCertLen,   \* bound on the length of a certificate
  MaxChainLen,  \* bound on the number of certificates in a chain
  MaxParams,    \* bound on the number of parameters in each list
  None          \* absent value (Option::None)

ASSUME ConversionAssumption ==
  /\ FromWire \in [WireParams -> Values]
  /\ HwLevel # Software
  /\ {MaxCertLen, MaxChainLen, MaxParams} \subseteq Nat
  /\ None \notin Seq(Bytes)

Certs == SeqOf(Bytes, MaxCertLen)

(* Option<Vec<Certificate>> from generateKey / importKey, and None from    *)
(* importWrappedKey.                                                       *)
Chains == SeqOf(Certs, MaxChainLen) \cup {None}

(* KeyCharacteristics: the hardware- and software-enforced lists.          *)
Characteristics ==
  [hardwareEnforced: SeqOf(WireParams, MaxParams),
   softwareEnforced: SeqOf(WireParams, MaxParams)]

VARIABLES
  chain,    \* the certificate chain KeyMint returned
  kc,       \* the key characteristics KeyMint returned
  cert,     \* KeyMetadata.certificate
  certChain,\* KeyMetadata.certificateChain
  auths     \* KeyMetadata.authorizations

vars == <<chain, kc, cert, certChain, auths>>

-----------------------------------------------------------------------------
(* Variant that decides on the chain part from the length before the leaf *)
(* is removed.                                                             *)
CertSplitLenFirst(c) ==
  IF c = None \/ Len(c) = 0 THEN <<None, None>>
  ELSE <<c[1], FlattenSeq(Tail(c))>>

(* store_new_key: Some(chain) gives the leaf (chain.remove(0)), if any,    *)
(* and the remaining certificates concatenated, if any remain; None gives  *)
(* neither.                                                                *)
CertSplit(c) ==
  IF c = None THEN <<None, None>>
  ELSE <<IF Len(c) = 0 THEN None ELSE Head(c),
         IF Len(c) <= 1 THEN None ELSE FlattenSeq(Tail(c))>>

(* Variant that tags the software-enforced list with the hardware level.   *)
KeyCharacteristicsAllHw(k, hw) ==
  [i \in 1..Len(k.hardwareEnforced) |-> [value |-> FromWire[k.hardwareEnforced[i]], level |-> hw]]
  \o [i \in 1..Len(k.softwareEnforced) |-> [value |-> FromWire[k.softwareEnforced[i]], level |-> hw]]

(* key_characteristics_to_internal: the hardware-enforced parameters with  *)
(* the service's level, chained with the software-enforced ones with       *)
(* SOFTWARE.                                                               *)
KeyCharacteristicsToInternal(k, hw) ==
  [i \in 1..Len(k.hardwareEnforced) |-> [value |-> FromWire[k.hardwareEnforced[i]], level |-> hw]]
  \o [i \in 1..Len(k.softwareEnforced) |-> [value |-> FromWire[k.softwareEnforced[i]], level |-> Software]]

(* KeyParameter::into_authorization.                                       *)
IntoAuthorization(p) == [securityLevel |-> p.level, keyParameter |-> p.value]

(* key_parameters_to_authorizations.                                       *)
KeyParametersToAuthorizations(ps) == [i \in DOMAIN ps |-> IntoAuthorization(ps[i])]

Init ==
  /\ chain \in Chains
  /\ kc \in Characteristics
  /\ cert = None
  /\ certChain = None
  /\ auths = None

(* store_new_key for a stored key: the chain is split, the parameters are  *)
(* converted and stored, and the KeyMetadata carries both.                 *)
StoreNewKey ==
  /\ auths = None
  /\ cert' = CertSplit(chain)[1]
  /\ certChain' = CertSplit(chain)[2]
  /\ auths' = KeyParametersToAuthorizations(KeyCharacteristicsToInternal(kc, HwLevel))
  /\ UNCHANGED <<chain, kc>>

Next == StoreNewKey

Spec == Init /\ [][Next]_vars

-----------------------------------------------------------------------------
(* Reference definitions.                                                  *)

(* The certificates of a chain, concatenated, first certificate first.  *)
Concat[s \in Seq(Seq(Bytes))] == IF s = <<>> THEN <<>> ELSE Head(s) \o Concat[Tail(s)]

BytesOf(c) == IF c = None THEN <<>> ELSE c

(* Spec 4.2, step 1: the leaf is the first certificate, the chain the      *)
(* remaining ones concatenated, present only when some remain; together    *)
(* they hold every byte of the chain, in order, whatever the lengths.      *)
CertificatesKept ==
  auths # None =>
    IF chain = None THEN cert = None /\ certChain = None
    ELSE /\ BytesOf(cert) \o BytesOf(certChain) = Concat[chain]
         /\ cert = IF chain = <<>> THEN None ELSE chain[1]
         /\ (certChain = None <=> Len(chain) <= 1)

(* Spec 3: each authorization returned carries the level that enforces    *)
(* the parameter: hardware-enforced ones the service's level, software-    *)
(* enforced ones SOFTWARE, in KeyMint's order, and none is lost or added.  *)
AuthorizationsProvenance ==
  auths # None =>
    LET hw == kc.hardwareEnforced
        sw == kc.softwareEnforced
    IN /\ Len(auths) = Len(hw) + Len(sw)
       /\ \A i \in 1..Len(hw) :
            auths[i] = [securityLevel |-> HwLevel, keyParameter |-> FromWire[hw[i]]]
       /\ \A i \in 1..Len(sw) :
            auths[Len(hw) + i] = [securityLevel |-> Software, keyParameter |-> FromWire[sw[i]]]

(* Type invariant.                                                         *)
TypeOK ==
  /\ chain \in Chains
  /\ kc \in Characteristics
  /\ cert \in Certs \cup {None}
  /\ certChain \in Seq(Bytes) \cup {None}
  /\ auths \in Seq([securityLevel: {HwLevel, Software}, keyParameter: Values]) \cup {None}
=============================================================================
