---------------------------- MODULE MCEvmWallets ----------------------------
(***************************************************************************)
(* MCEvmWallets.cfg: one wallet and two operations, one after the other,   *)
(* each of an approval and its last transaction.                           *)
(* MCEvmWalletsSponsor.cfg: two wallets that share the sponsor.            *)
(***************************************************************************)
EXTENDS EvmWallets, FiniteSets, TLC

CONSTANT
    MaxSponsored    \* transactions signed for the sponsor

FewSponsored ==
    Cardinality({p \in Scope \X (Gas \cup Start) : signings[p[1]][p[2]] > 0}) <= MaxSponsored

Symmetry == Permutations(Request)
=============================================================================
