---------------------------- MODULE ConfigProofs ----------------------------
(***************************************************************************)
(* The Config account, proved for any number of wallets and mints, any     *)
(* list capacity and any arguments.                                        *)
(***************************************************************************)
EXTENDS Config, ArithmeticProofs

LEMMA UpdatedValue ==
    ASSUME NEW T, NEW option, IsOption(option, T), NEW old \in T
    PROVE  Updated(option, old) \in T /\ Updated(option, old) \in option \cup {old}
BY DEF Updated, IsOption

\* What update_config writes, field by field: the arguments given, within
\* their types, and everything else as it was.
LEMMA UpdateConfigWrites ==
    ASSUME ConfigTypeOK, NEW signer \in Wallets, NEW args \in UpdateConfigArgs,
           UpdateConfig(signer, args)
    PROVE  /\ ConfigTypeOK'
           /\ config'.authority = config.authority
           /\ config'.allowed_mints = config.allowed_mints
<1>1. /\ Updated(args.fee_recipient, config.fee_recipient)
             \in Treasuries \cup {Nobody}
      /\ Updated(args.fee_recipient, config.fee_recipient)
             \in args.fee_recipient \cup {config.fee_recipient}
      /\ Updated(args.bps, config.default_commission_bps) \in Nat
      /\ Updated(args.bps, config.default_commission_bps)
             \in args.bps \cup {config.default_commission_bps}
      /\ Updated(args.paused, config.paused) \in BOOLEAN
      /\ Updated(args.pending_authority, config.pending_authority)
             \in Wallets \cup {Nobody}
      /\ Updated(args.platform_authority, config.platform_authority)
             \in Platforms \cup {Nobody}
  BY ConfigAssumption, UpdatedValue DEF ConfigTypeOK, ConfigRecord
<1>2. config' = [ config EXCEPT
          !.fee_recipient = Updated(args.fee_recipient, @),
          !.default_commission_bps = Updated(args.bps, @),
          !.paused = Updated(args.paused, @),
          !.pending_authority = Updated(args.pending_authority, @),
          !.platform_authority = Updated(args.platform_authority, @) ]
  BY DEF UpdateConfig
<1>3. /\ config' \in ConfigRecord /\ config'.authority = config.authority
      /\ config'.allowed_mints = config.allowed_mints
  BY <1>1, <1>2 DEF ConfigTypeOK, ConfigRecord
<1>4. /\ config'.default_commission_bps <= MaxCommissionRateBps
      /\ config'.fee_recipient \in args.fee_recipient \cup {config.fee_recipient}
  BY <1>1, <1>2 DEF UpdateConfig, ConfigTypeOK, ConfigRecord
<1> QED
  BY <1>3, <1>4 DEF UpdateConfig, ConfigTypeOK, ConfigExists

\* Every instruction on the Config account keeps it well-formed.
LEMMA ConfigNextTypeOK ==
    ASSUME ConfigTypeOK, ConfigNext
    PROVE  ConfigTypeOK'
<1> USE DEF ConfigTypeOK, ConfigRecord, ConfigExists
<1>1. ASSUME NEW signer \in Wallets, NEW args \in InitConfigArgs,
             InitConfig(signer, args.fee_recipient, args.bps, args.mints)
      PROVE  ConfigTypeOK'
  BY <1>1, ConfigAssumption DEF InitConfig
<1>2. ASSUME NEW signer \in Wallets, NEW args \in UpdateConfigArgs,
             UpdateConfig(signer, args)
      PROVE  ConfigTypeOK'
  BY <1>2, UpdateConfigWrites
<1>3. ASSUME NEW signer \in Wallets, AcceptAuthority(signer)
      PROVE  ConfigTypeOK'
  BY <1>3 DEF AcceptAuthority
<1>4. ASSUME NEW signer \in Wallets, NEW mint \in Mints,
             AddAllowedMint(signer, mint) \/ RemoveAllowedMint(signer, mint)
      PROVE  ConfigTypeOK'
  BY <1>4 DEF AddAllowedMint, RemoveAllowedMint
<1> QED
  BY <1>1, <1>2, <1>3, <1>4 DEF ConfigNext

LEMMA NoConfigTypeOK ==
    config = NoConfig => ConfigTypeOK
BY DEF NoConfig, ConfigTypeOK, ConfigRecord, ConfigExists, MaxCommissionRateBps

-----------------------------------------------------------------------------

\* Before init_config there is no list an entry could leave.
ConfigInv ==
    /\ ConfigTypeOK
    /\ ~ConfigExists => \A mint \in Mints : config.allowed_mints[mint] = 0

LEMMA ConfigInvInductive ==
    ASSUME ConfigInv, [ConfigNext]_config
    PROVE  ConfigInv'
<1>1. CASE UNCHANGED config
  BY <1>1 DEF ConfigInv, ConfigTypeOK, ConfigExists
<1>2. CASE ConfigNext
  <2>1. ConfigTypeOK'
    BY <1>2, ConfigNextTypeOK DEF ConfigInv
  <2>2. ConfigExists'
    <3>1. ASSUME NEW signer \in Wallets, NEW args \in UpdateConfigArgs,
                 UpdateConfig(signer, args)
          PROVE  ConfigExists'
      BY <3>1, UpdateConfigWrites DEF ConfigInv, UpdateConfig, ConfigExists
    <3>2. ASSUME NEW signer \in Wallets, NEW args \in InitConfigArgs,
                 InitConfig(signer, args.fee_recipient, args.bps, args.mints)
          PROVE  ConfigExists'
      BY <3>2, ConfigAssumption DEF InitConfig, ConfigExists
    <3>3. ASSUME NEW signer \in Wallets, AcceptAuthority(signer)
          PROVE  ConfigExists'
      BY <3>3 DEF AcceptAuthority, ConfigExists, ConfigInv, ConfigTypeOK, ConfigRecord
    <3>4. ASSUME NEW signer \in Wallets, NEW mint \in Mints,
                 AddAllowedMint(signer, mint) \/ RemoveAllowedMint(signer, mint)
          PROVE  ConfigExists'
      BY <3>4 DEF AddAllowedMint, RemoveAllowedMint, ConfigExists, ConfigInv,
                  ConfigTypeOK, ConfigRecord
    <3> QED
      BY <1>2, <3>1, <3>2, <3>3, <3>4 DEF ConfigNext
  <2> QED
    BY <2>1, <2>2 DEF ConfigInv
<1> QED
  BY <1>1, <1>2

\* What no single instruction does: drop some copies of a mint and keep
\* others, or move the admin key otherwise than by acceptance.
LEMMA ConfigStep ==
    ASSUME ConfigInv, [ConfigNext]_config
    PROVE  /\ \A mint \in Mints :
                 config'.allowed_mints[mint] < config.allowed_mints[mint]
                 => config'.allowed_mints[mint] = 0
           /\ ConfigExists /\ config'.authority # config.authority =>
                 /\ config'.authority = config.pending_authority
                 /\ config'.pending_authority = Nobody
<1> DEFINE Delisted == \A mint \in Mints :
                config'.allowed_mints[mint] < config.allowed_mints[mint]
                => config'.allowed_mints[mint] = 0
           HandedOver == ConfigExists /\ config'.authority # config.authority =>
                /\ config'.authority = config.pending_authority
                /\ config'.pending_authority = Nobody
<1>1. config \in ConfigRecord /\ config.allowed_mints \in [Mints -> Nat]
  BY DEF ConfigInv, ConfigTypeOK, ConfigRecord
<1>2. CASE config'.allowed_mints = config.allowed_mints
           /\ config'.authority = config.authority
  BY <1>1, <1>2
<1>3. ASSUME NEW signer \in Wallets, NEW args \in UpdateConfigArgs,
             UpdateConfig(signer, args)
      PROVE  Delisted /\ HandedOver
  BY <1>2, <1>3, UpdateConfigWrites DEF ConfigInv
<1>4. ASSUME NEW signer \in Wallets, NEW args \in InitConfigArgs,
             InitConfig(signer, args.fee_recipient, args.bps, args.mints)
      PROVE  Delisted /\ HandedOver
  <2>1. \A mint \in Mints : config.allowed_mints[mint] = 0
    BY <1>4 DEF InitConfig, ConfigInv
  <2>2. config'.allowed_mints \in [Mints -> Nat]
    BY <1>4, ConfigAssumption DEF InitConfig
  <2> QED
    BY <1>4, <2>1, <2>2 DEF InitConfig
<1>5. ASSUME NEW signer \in Wallets, AcceptAuthority(signer)
      PROVE  Delisted /\ HandedOver
  BY <1>1, <1>5 DEF AcceptAuthority, ConfigRecord
<1>6. ASSUME NEW signer \in Wallets, NEW mint \in Mints,
             AddAllowedMint(signer, mint) \/ RemoveAllowedMint(signer, mint)
      PROVE  Delisted /\ HandedOver
  BY <1>1, <1>6 DEF AddAllowedMint, RemoveAllowedMint, ConfigRecord
<1>7. CASE UNCHANGED config
  BY <1>2, <1>7
<1> QED
  BY <1>3, <1>4, <1>5, <1>6, <1>7 DEF ConfigNext

LEMMA ConfigInvariance == ConfigSpec => []ConfigInv
<1>1. ConfigInit => ConfigInv
  BY NoConfigTypeOK DEF ConfigInit, ConfigInv, NoConfig
<1> QED
  BY <1>1, ConfigInvInductive, PTL DEF ConfigSpec

\* remove_allowed_mint leaves no copy behind, whatever init_config stored.
THEOREM DelistingIsComplete == ConfigSpec => DelistingComplete
<1>1. ConfigInv /\ [ConfigNext]_config =>
          [\A mint \in Mints :
              config'.allowed_mints[mint] < config.allowed_mints[mint]
              => config'.allowed_mints[mint] = 0]_config
  BY ConfigStep
<1> QED
  BY <1>1, ConfigInvariance, PTL DEF ConfigSpec, DelistingComplete

\* The admin key passes only to the nominee, and uses the nomination up.
THEOREM AdminKeyHandedOver == ConfigSpec => HandoffInTwoSteps
<1>1. ConfigInv /\ [ConfigNext]_config =>
          [ConfigExists /\ config'.authority # config.authority =>
              /\ config'.authority = config.pending_authority
              /\ config'.pending_authority = Nobody]_config
  BY ConfigStep
<1> QED
  BY <1>1, ConfigInvariance, PTL DEF ConfigSpec, HandoffInTwoSteps

-----------------------------------------------------------------------------
(* The length of the mint list is a sum over all mints. *)

\* An instruction adds a mint that is not in the list, or removes one with all
\* its copies: the length changes by that mint's part alone.
LEMMA LengthReplace ==
    ASSUME NEW mints \in [Mints -> Nat], NEW mint \in Mints, NEW n \in Nat
    PROVE  /\ ListLength([mints EXCEPT ![mint] = n])
              = ListLength(mints) - mints[mint] + n
           /\ ListLength(mints) \in Nat
<1> DEFINE other == [mints EXCEPT ![mint] = n]
<1>1. other \in [Mints -> Nat] /\ other[mint] = n
      /\ \A m \in Mints \ {mint} : mints[m] = other[m]
  OBVIOUS
<1>2. IsFiniteSet(Mints)
  BY ConfigAssumption
<1>3. ListLength(other) = SumFunctionOnSet(other, Mints)
      /\ ListLength(mints) = SumFunctionOnSet(mints, Mints)
  BY <1>1 DEF ListLength, SumFunction
<1> HIDE DEF other
<1>4. SumFunctionOnSet(other, Mints) = SumFunctionOnSet(mints, Mints) - mints[mint] + n
  BY <1>1, <1>2, SumReplace
<1>5. SumFunctionOnSet(mints, Mints) \in Nat
  BY <1>2, SumNat
<1> QED
  BY <1>3, <1>4, <1>5 DEF other

LEMMA LengthOfNone == ListLength(NoConfig.allowed_mints) = 0
<1> DEFINE none == [mint \in Mints |-> 0]
<1>1. NoConfig.allowed_mints = none
  BY DEF NoConfig
<1>2. SumFunctionOnSet(none, Mints) = 0
  BY ConfigAssumption, SumOfZeros
<1> QED
  BY <1>1, <1>2 DEF ListLength, SumFunction

LEMMA AllowlistInductive ==
    ASSUME ConfigTypeOK, AllowlistBounded, [ConfigNext]_config
    PROVE  AllowlistBounded'
<1>1. config \in ConfigRecord /\ config.allowed_mints \in [Mints -> Nat]
  BY DEF ConfigTypeOK, ConfigRecord
<1>2. CASE config'.allowed_mints = config.allowed_mints
  BY <1>2 DEF AllowlistBounded
<1>3. ASSUME NEW signer \in Wallets, NEW args \in InitConfigArgs,
             InitConfig(signer, args.fee_recipient, args.bps, args.mints)
      PROVE  AllowlistBounded'
  <2>1. config'.allowed_mints = args.mints /\ ListLength(args.mints) <= MaxAllowedMints
    BY <1>3 DEF InitConfig
  <2> QED
    BY <2>1 DEF AllowlistBounded
<1>4. ASSUME NEW signer \in Wallets, NEW args \in UpdateConfigArgs,
             UpdateConfig(signer, args)
      PROVE  AllowlistBounded'
  BY <1>2, <1>4, UpdateConfigWrites
<1>5. ASSUME NEW signer \in Wallets, AcceptAuthority(signer)
      PROVE  AllowlistBounded'
  BY <1>1, <1>2, <1>5 DEF AcceptAuthority, ConfigRecord
<1>6. ASSUME NEW signer \in Wallets, NEW mint \in Mints, AddAllowedMint(signer, mint)
      PROVE  AllowlistBounded'
  <2>1. /\ config'.allowed_mints = [config.allowed_mints EXCEPT ![mint] = 1]
        /\ config.allowed_mints[mint] = 0
        /\ ListLength(config.allowed_mints) < MaxAllowedMints
    BY <1>1, <1>6 DEF AddAllowedMint, ConfigRecord
  <2>2. /\ ListLength(config'.allowed_mints) = ListLength(config.allowed_mints) - 0 + 1
        /\ ListLength(config.allowed_mints) \in Nat
    BY <1>1, <2>1, LengthReplace
  <2> QED
    BY <2>1, <2>2, ConfigAssumption DEF AllowlistBounded
<1>7. ASSUME NEW signer \in Wallets, NEW mint \in Mints, RemoveAllowedMint(signer, mint)
      PROVE  AllowlistBounded'
  <2>1. config'.allowed_mints = [config.allowed_mints EXCEPT ![mint] = 0]
    BY <1>1, <1>7 DEF RemoveAllowedMint, ConfigRecord
  <2>2. /\ ListLength(config'.allowed_mints)
             = ListLength(config.allowed_mints) - config.allowed_mints[mint] + 0
        /\ ListLength(config.allowed_mints) \in Nat
        /\ config.allowed_mints[mint] \in Nat
    BY <1>1, <2>1, LengthReplace
  <2> QED
    BY <2>2, ConfigAssumption DEF AllowlistBounded
<1>8. CASE UNCHANGED config
  BY <1>2, <1>8
<1> QED
  BY <1>3, <1>4, <1>5, <1>6, <1>7, <1>8 DEF ConfigNext

\* The list never outgrows the account: whatever is added, removed, or passed
\* with duplicates to init_config.
THEOREM AllowlistFits == ConfigSpec => []AllowlistBounded
<1>1. ConfigInit => AllowlistBounded
  BY LengthOfNone, ConfigAssumption DEF ConfigInit, AllowlistBounded
<1>2. ConfigInv /\ AllowlistBounded /\ [ConfigNext]_config => AllowlistBounded'
  BY AllowlistInductive DEF ConfigInv
<1> QED
  BY <1>1, <1>2, ConfigInvariance, PTL DEF ConfigSpec
=============================================================================
