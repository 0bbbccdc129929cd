------------------------------- MODULE Config -------------------------------
(***************************************************************************)
(* The singleton Config account: admin authority with a two-step handoff,  *)
(* treasury, pause switch, SPL mint allowlist and the canonical platform   *)
(* key that create_escrow and open_period pin.  Every instruction of the   *)
(* program is one atomic Solana transaction, so every handler is one       *)
(* action; a failing handler is a disabled action.                         *)
(*                                                                         *)
(* Keys are elements of the constant sets below.  The sets may overlap: a  *)
(* treasury wallet may be the platform key, a user may be named platform,  *)
(* and the code's own checks decide what is refused.                       *)
(***************************************************************************)
EXTENDS Naturals, FiniteSets, Functions, Commission

CONSTANTS
    Users,            \* wallets that hire and work
    Platforms,        \* keys an admin may name as platform authority
    Treasuries,       \* wallets an admin may name as fee recipient
    Admins,           \* wallets that may send init_config (anyone may)
    Mints,            \* SPL token mints
    SOL,              \* System Program id: the "mint" of a native escrow
    Nobody,           \* Pubkey::default()
    Rates,            \* commission rates callers pass, valid or not
    MaxAllowedMints,  \* MAX_ALLOWED_MINTS (30 in the code)
    InitConfigArgs,   \* argument records submitted to init_config
    UpdateConfigArgs  \* argument records submitted to update_config

Wallets == Users \cup Platforms \cup Treasuries \cup Admins

Assets == Mints \cup {SOL}

\* An Option<T> argument: the empty set is None, a singleton is Some.
IsOption(o, T) == o \subseteq T /\ \A x, y \in o : x = y

ASSUME ConfigAssumption ==
    /\ Nobody \notin Wallets
    /\ SOL \notin Mints /\ IsFiniteSet(Mints)
    /\ Rates \subseteq Nat
    /\ MaxAllowedMints \in Nat
    /\ \A args \in InitConfigArgs :
          /\ args.fee_recipient \in Treasuries \cup {Nobody}
          /\ args.bps \in Nat
          /\ args.mints \in [Mints -> Nat]
    /\ \A args \in UpdateConfigArgs :
          /\ IsOption(args.fee_recipient, Treasuries \cup {Nobody})
          /\ IsOption(args.bps, Nat)
          /\ IsOption(args.paused, BOOLEAN)
          /\ IsOption(args.pending_authority, Wallets \cup {Nobody})
          /\ IsOption(args.platform_authority, Platforms \cup {Nobody})

VARIABLE config

\* allowed_mints is a list whose order nothing reads: it is modelled by how
\* often each mint is in it.

ConfigRecord ==
    [ authority : Wallets \cup {Nobody},
      pending_authority : Wallets \cup {Nobody},
      fee_recipient : Treasuries \cup {Nobody},
      default_commission_bps : Nat,
      paused : BOOLEAN,
      allowed_mints : [Mints -> Nat],
      platform_authority : Platforms \cup {Nobody} ]

\* The Config PDA before init_config: no authority can sign for it.
NoConfig ==
    [ authority |-> Nobody, pending_authority |-> Nobody,
      fee_recipient |-> Nobody, default_commission_bps |-> 0, paused |-> FALSE,
      allowed_mints |-> [mint \in Mints |-> 0], platform_authority |-> Nobody ]

ConfigExists == config.authority # Nobody

IsMintAllowed(mint) == mint # SOL => config.allowed_mints[mint] > 0

\* allowed_mints.len()
ListLength(mints) == SumFunction(mints)

-----------------------------------------------------------------------------

\* The caller's list is stored as passed: duplicates are not refused.
InitConfig(authority, fee_recipient, bps, mints) ==
    /\ ~ConfigExists
    /\ bps <= MaxCommissionRateBps
    /\ ListLength(mints) <= MaxAllowedMints
    /\ fee_recipient # Nobody
    /\ config' = [ authority |-> authority, pending_authority |-> Nobody,
                   fee_recipient |-> fee_recipient,
                   default_commission_bps |-> bps, paused |-> FALSE,
                   allowed_mints |-> mints, platform_authority |-> Nobody ]

\* The stored value after `if let Some(x) = option { field = x }`.
Updated(option, old) == IF option = {} THEN old ELSE CHOOSE x \in option : TRUE

\* Fault: a nominated authority takes over without accepting.
UpdateConfigAtOnce(signer, args) ==
    /\ ConfigExists /\ signer = config.authority
    /\ config' = [ config EXCEPT
           !.authority = Updated(args.pending_authority, @),
           !.pending_authority = Nobody ]

UpdateConfig(signer, args) ==
    /\ ConfigExists /\ signer = config.authority
    /\ Nobody \notin args.fee_recipient
    /\ \A rate \in args.bps : rate <= MaxCommissionRateBps
    /\ config' = [ config EXCEPT
           !.fee_recipient = Updated(args.fee_recipient, @),
           !.default_commission_bps = Updated(args.bps, @),
           !.paused = Updated(args.paused, @),
           !.pending_authority = Updated(args.pending_authority, @),
           !.platform_authority = Updated(args.platform_authority, @) ]

AcceptAuthority(signer) ==
    /\ ConfigExists
    /\ config.pending_authority # Nobody
    /\ signer = config.pending_authority
    /\ config' = [config EXCEPT !.authority = config.pending_authority,
                                !.pending_authority = Nobody]

\* Fault: the length check is off by one.
AddOneTooMany(signer, mint) ==
    /\ ConfigExists /\ signer = config.authority
    /\ config.allowed_mints[mint] = 0
    /\ ListLength(config.allowed_mints) <= MaxAllowedMints
    /\ config' = [config EXCEPT !.allowed_mints[mint] = 1]

AddAllowedMint(signer, mint) ==
    /\ ConfigExists /\ signer = config.authority
    /\ config.allowed_mints[mint] = 0
    /\ ListLength(config.allowed_mints) < MaxAllowedMints
    /\ config' = [config EXCEPT !.allowed_mints[mint] = 1]

\* Fault: only the first copy is removed.
RemoveFirstCopy(signer, mint) ==
    /\ ConfigExists /\ signer = config.authority
    /\ config.allowed_mints[mint] > 0
    /\ config' = [config EXCEPT !.allowed_mints[mint] = @ - 1]

\* `retain` drops every copy of the mint; removing an absent mint is an error.
RemoveAllowedMint(signer, mint) ==
    /\ ConfigExists /\ signer = config.authority
    /\ config.allowed_mints[mint] > 0
    /\ config' = [config EXCEPT !.allowed_mints[mint] = 0]

-----------------------------------------------------------------------------

ConfigNext ==
    \E signer \in Wallets :
        \/ \E args \in InitConfigArgs :
              /\ signer \in Admins
              /\ InitConfig(signer, args.fee_recipient, args.bps, args.mints)
        \/ \E args \in UpdateConfigArgs : UpdateConfig(signer, args)
        \/ AcceptAuthority(signer)
        \/ \E mint \in Mints :
              AddAllowedMint(signer, mint) \/ RemoveAllowedMint(signer, mint)

\* Well-formedness of the Config account.
ConfigTypeOK ==
    /\ config \in ConfigRecord
    /\ config.default_commission_bps <= MaxCommissionRateBps
    /\ ConfigExists => config.fee_recipient # Nobody
-----------------------------------------------------------------------------
(* The Config account on its own. *)

ConfigInit == config = NoConfig

ConfigSpec == ConfigInit /\ [][ConfigNext]_config

\* However init_config, add and remove follow each other, the list stays within
\* the space allocated for MAX_ALLOWED_MINTS entries.
AllowlistBounded == ListLength(config.allowed_mints) <= MaxAllowedMints

\* A delisted mint is refused at once: init_config may have stored a mint
\* twice, and no copy survives its removal.
DelistingComplete ==
    [][\A mint \in Mints :
          config'.allowed_mints[mint] < config.allowed_mints[mint]
          => config'.allowed_mints[mint] = 0]_config

\* The admin key only ever passes to the key the previous admin nominated last,
\* and by that key's own acceptance, which uses the nomination up.
HandoffInTwoSteps ==
    [][ConfigExists /\ config'.authority # config.authority =>
          /\ config'.authority = config.pending_authority
          /\ config'.pending_authority = Nobody]_config
=============================================================================
