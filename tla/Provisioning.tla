---------------------------- MODULE Provisioning ----------------------------
(***************************************************************************)
(* How a network gets its permanent assets: scripts/provision.js and       *)
(* scripts/provision-oracles.js over src/registry.js, run by an operator,  *)
(* one script at a time.  Every asset is looked up in the registry,        *)
(* confirmed with the mirror, and created if that fails; a script may die  *)
(* at any step, and is then run again.  With them what an operator runs    *)
(* later: associate-pool.js, replenish-demo.js, and sweep.js, which        *)
(* empties the accounts whose keys were kept.                              *)
(***************************************************************************)
EXTENDS Integers, Sequences, FiniteSets, Functions

CONSTANTS
    Oracles,       \* how many oracle accounts
    MaxAssets,     \* bound: what is ever created
    MaxKeys,       \* bound: how often the oracle keys are generated
    MaxCrashes     \* bound: how many scripts die

ProvisioningAssumption == {Oracles, MaxAssets, MaxKeys, MaxCrashes} \subseteq Nat

\* What ensure() resolves, in order, and where the script is.
Slots == <<"pool", "share", "policy", "demo", "topic">>
Slot == {Slots[i] : i \in DOMAIN Slots}
Steps == Slot \cup {"off", "keys", "associate", "lp", "oracles", "payer",
                    "join", "top up", "submitted", "noted", "sweep"}
Nobody == 0

VARIABLES
    pc, recreate,
    at,            \* the oracle account the loop is at
    made,          \* on the ledger: [kind, id, keys]
    associated,    \* the pools that can hold the settlement token
    registry,      \* on disk: id by slot; 0 if none
    keys,          \* on disk: which oracle keys; 0 if none
    kept,          \* on disk, in the registry or the key file, now or before: ids
    held,          \* created by the running script and not yet saved
    crashes,       \* how many scripts died
    torn,          \* one of them with new oracle keys and the old pool
    topped,        \* pools filled to the target
    sent, noted,   \* replenishments submitted: to which pool; and how many ids a file has
    swept,         \* accounts emptied
    named          \* accounts sweep.js called unreachable, their keys 'never saved'

provVars == <<pc, recreate, at, made, associated, registry, keys, kept, held, crashes, torn,
              topped, sent, noted, swept, named>>
upkeep == <<topped, sent, noted, swept, named>>

Init ==
    /\ pc = "off" /\ recreate = FALSE /\ at = 1
    /\ made = {} /\ associated = {} /\ kept = {} /\ held = {}
    /\ registry = [s \in Slot \cup {"payer"} |-> Nobody]
    /\ keys = 0 /\ crashes = 0 /\ torn = FALSE
    /\ topped = {} /\ sent = <<>> /\ noted = 0 /\ swept = {} /\ named = {}

Ids(assets) == {a.id : a \in assets}
New(kind) == [kind |-> kind, id |-> Cardinality(made) + 1, keys |-> IF kind = "pool" THEN keys ELSE 0]

\* create(): the transaction of an asset and its receipt; nothing is on disk yet.
Create(kind) ==
    /\ Cardinality(made) < MaxAssets
    /\ made' = made \cup {New(kind)} /\ held' = held \cup {New(kind)}

-----------------------------------------------------------------------------
Provision(again) ==
    /\ pc = "off" /\ pc' = "keys" /\ recreate' = again
    /\ UNCHANGED <<at, made, associated, registry, keys, kept, held, crashes, torn, upkeep>>

\* The oracles' keys are generated once, or again with RECREATE=1, and saved at once.
OracleKeys ==
    /\ pc = "keys" /\ pc' = "pool"
    /\ keys' = IF keys = 0 \/ recreate THEN keys + 1 ELSE keys
    /\ keys' <= MaxKeys
    /\ UNCHANGED <<recreate, at, made, associated, registry, kept, held, crashes, torn, upkeep>>

After(slot) ==
    IF slot = "topic" THEN "associate"
    ELSE Slots[1 + CHOOSE i \in DOMAIN Slots : Slots[i] = slot]

\* exists(): a mirror that fails, or has not indexed the asset yet, is a no.
Reuse(slot) ==
    /\ pc = slot /\ held = {} /\ ~recreate /\ registry[slot] # Nobody
    /\ pc' = After(slot)
    /\ UNCHANGED <<recreate, at, made, associated, registry, keys, kept, held, crashes, torn, upkeep>>

Make(slot) ==
    /\ pc = slot /\ \A a \in held : a.kind # slot
    /\ Create(slot)
    /\ UNCHANGED <<pc, recreate, at, associated, registry, keys, kept, crashes, torn, upkeep>>

Saved(assets) ==
    /\ registry' = [s \in DOMAIN registry |->
                        IF \E a \in assets : a.kind = s THEN (CHOOSE a \in assets : a.kind = s).id
                        ELSE registry[s]]
    /\ kept' = kept \cup Ids(assets)
    /\ held' = held \ assets

\* A mutant: the registry is written once, when everything is there.
SaveTogether(slot) == Saved(IF slot = "topic" THEN held ELSE {})

\* save(): the new id replaces the old one before the next asset is looked at.
Save(slot) == Saved(held)

Register(slot) ==
    /\ pc = slot /\ \E a \in held : a.kind = slot
    /\ Save(slot) /\ pc' = After(slot)
    /\ UNCHANGED <<recreate, at, made, associated, keys, crashes, torn, upkeep>>

-----------------------------------------------------------------------------
PoolKeys == {a.keys : a \in {a \in made : a.id = registry["pool"]}}

\* A script throws, is stopped, or the machine fails: what it held is gone.
Die ==
    /\ pc # "off" /\ crashes < MaxCrashes
    /\ pc' = "off"
    /\ held' = {} /\ at' = 1 /\ crashes' = crashes + 1
    /\ torn' = (torn \/ (recreate /\ pc = "pool"))
    /\ UNCHANGED <<recreate, made, associated, registry, keys, kept, upkeep>>

\* Skipped if the mirror shows it; else two oracles sign with the agent.  associate-pool.js
\* does the same on its own.
AssociatePool(shown) ==
    /\ pc \in {"associate", "join"}
    /\ shown => registry["pool"] \in associated
    /\ shown \/ (registry["pool"] \notin associated /\ PoolKeys = {keys})
    /\ associated' = associated \cup {registry["pool"]}
    /\ pc' = IF pc = "join" THEN "off" ELSE "lp"
    /\ UNCHANGED <<recreate, at, made, registry, keys, kept, held, crashes, torn, upkeep>>

RunAssociate ==
    /\ pc = "off" /\ registry["pool"] # Nobody /\ pc' = "join"
    /\ UNCHANGED <<recreate, at, made, associated, registry, keys, kept, held, crashes, torn, upkeep>>

\* A new LP account each run: created, then its key remembered ...
CreateLp ==
    /\ pc = "lp" /\ held = {} /\ Create("lp")
    /\ UNCHANGED <<pc, recreate, at, associated, registry, keys, kept, crashes, torn, upkeep>>

\* ... then it deposits (DemoAccounts has the steps of a deposit).
RememberLp ==
    /\ pc = "lp" /\ held # {}
    /\ Saved(held) /\ pc' = "off"
    /\ UNCHANGED <<recreate, at, made, associated, keys, crashes, torn, upkeep>>

-----------------------------------------------------------------------------
ProvisionOracles ==
    /\ pc = "off" /\ keys # 0
    /\ pc' = "oracles" /\ at' = 1
    /\ UNCHANGED <<recreate, made, associated, registry, keys, kept, held, crashes, torn, upkeep>>

\* The loop: an account the registry lists and the mirror shows is left, any other made.
OracleAccount(fresh) ==
    /\ pc = "oracles" /\ at <= Oracles
    /\ fresh \/ \E a \in made : a.kind = "oracle" /\ a.id \in kept
    /\ IF fresh THEN Create("oracle") ELSE UNCHANGED <<made, held>>
    /\ at' = at + 1
    /\ UNCHANGED <<pc, recreate, associated, registry, keys, kept, crashes, torn, upkeep>>

\* After the loop all of them are saved.
SaveOracles ==
    /\ pc = "oracles" /\ at > Oracles
    /\ Saved(held) /\ pc' = "payer"
    /\ UNCHANGED <<recreate, at, made, associated, keys, crashes, torn, upkeep>>

\* The payer is created and associated before its key is saved.
CreatePayer ==
    /\ pc = "payer" /\ held = {} /\ Create("payer")
    /\ UNCHANGED <<pc, recreate, at, associated, registry, keys, kept, crashes, torn, upkeep>>

SavePayer ==
    /\ pc = "payer" /\ (held # {} \/ registry["payer"] # Nobody)
    /\ Saved(held) /\ pc' = "off"
    /\ UNCHANGED <<recreate, at, made, associated, keys, crashes, torn, upkeep>>

-----------------------------------------------------------------------------
(* replenish-demo.js: the registered pool is filled to the target, once *)

RunReplenish ==
    /\ pc = "off" /\ registry["pool"] \in associated /\ registry["pool"] \notin topped
    /\ Len(sent) <= MaxCrashes
    /\ pc' = "top up"
    /\ UNCHANGED <<recreate, at, made, associated, registry, keys, kept, held, crashes, torn, upkeep>>

Submit ==
    /\ pc = "top up" /\ pc' = "submitted" /\ sent' = Append(sent, registry["pool"])
    /\ UNCHANGED <<recreate, at, made, associated, registry, keys, kept, held, crashes, torn,
                   topped, noted, swept, named>>

\* 'Persist the submitted identifier BEFORE waiting for consensus.'
NoteId ==
    /\ pc = "submitted" /\ pc' = "noted" /\ noted' = noted + 1
    /\ UNCHANGED <<recreate, at, made, associated, registry, keys, kept, held, crashes, torn,
                   topped, sent, swept, named>>

\* Consensus, seen by the script or after it died.
Replenished(pool) ==
    /\ pool \in Range(sent) \ topped /\ topped' = topped \cup {pool}
    /\ UNCHANGED <<pc, recreate, at, made, associated, registry, keys, kept, held, crashes, torn,
                   sent, noted, swept, named>>

ReplenishEnds ==
    /\ pc = "noted" /\ registry["pool"] \in topped /\ pc' = "off"
    /\ UNCHANGED <<recreate, at, made, associated, registry, keys, kept, held, crashes, torn, upkeep>>

-----------------------------------------------------------------------------
(* sweep.js: what the key file opens is emptied into the operator's account *)

\* createFundedAccount and remember: the accounts that are in the key file.
KeyFile == {a \in made : a.kind = "lp" /\ a.id \in kept}

RunSweep ==
    /\ pc = "off" /\ pc' = "sweep"
    /\ UNCHANGED <<recreate, at, made, associated, registry, keys, kept, held, crashes, torn, upkeep>>

\* The pool is left alone; a transfer that fails is passed over.
SweepAccount(a) ==
    /\ pc = "sweep" /\ a \in KeyFile /\ a.id # registry["pool"]
    /\ swept' = swept \cup {a.id}
    /\ UNCHANGED <<pc, recreate, at, made, associated, registry, keys, kept, held, crashes, torn,
                   topped, sent, noted, named>>

\* Accounts this operator created, still funded and in no key file - as far as the mirror
\* answers.
Stranded(seen) ==
    {a.id : a \in {a \in seen \ KeyFile : a.kind \in {"pool", "lp", "oracle", "payer"}}}
        \ (swept \cup {registry["pool"]})

EndSweep ==
    /\ pc = "sweep" /\ pc' = "off"
    /\ \E seen \in {{}, made} : named' = named \cup Stranded(seen)
    /\ UNCHANGED <<recreate, at, made, associated, registry, keys, kept, held, crashes, torn,
                   topped, sent, noted, swept>>

Next ==
    \/ \E again \in BOOLEAN : Provision(again)
    \/ OracleKeys
    \/ \E s \in Slot : Reuse(s) \/ Make(s) \/ Register(s)
    \/ \E shown \in BOOLEAN : AssociatePool(shown)
    \/ CreateLp
    \/ RememberLp
    \/ ProvisionOracles
    \/ \E fresh \in BOOLEAN : OracleAccount(fresh)
    \/ SaveOracles
    \/ CreatePayer
    \/ SavePayer
    \/ Die
    \/ RunAssociate
    \/ RunReplenish \/ Submit \/ NoteId \/ (\E pool \in Range(sent) : Replenished(pool)) \/ ReplenishEnds
    \/ RunSweep \/ (\E a \in made : SweepAccount(a)) \/ EndSweep

-----------------------------------------------------------------------------
TypeOK ==
    /\ pc \in Steps /\ recreate \in BOOLEAN /\ at \in 1..(Oracles + 1)
    /\ Ids(made) = 1..Cardinality(made) /\ kept \subseteq Ids(made)
    /\ held \subseteq made /\ keys \in 0..MaxKeys /\ associated \subseteq Ids(made)
    /\ registry \in [Slot \cup {"payer"} -> 0..MaxAssets]
    /\ topped \subseteq Ids(made) /\ noted <= Len(sent) /\ swept \cup named \subseteq Ids(made)

\* What was created and that no file ever named: a dead script loses one asset at most,
\* or the oracle accounts of one loop, which are saved together.
OneLostPerCrash ==
    LET lost == {a \in made \ held : a.id \notin kept}
        oracles == {a \in lost : a.kind = "oracle"}
    IN  /\ Cardinality(lost \ oracles) <= crashes
        /\ Cardinality(oracles) <= Oracles * (crashes - Cardinality(lost \ oracles))

\* scripts/provision.js:34 - 'Reusing the pool means reusing the keys that can open it':
\* once a script has the pool, the keys on disk are those of its key - except after a
\* RECREATE run that died between the two.
KeysOpenThePool ==
    pc \in {After(s) : s \in Slot} \cup {"lp", "join"} /\ ~torn => PoolKeys = {keys}

\* A submission whose id no file has is of a script that died, or of the one that runs.
SubmissionsAreNoted ==
    Len(sent) - noted <= crashes + (IF pc = "submitted" THEN 1 ELSE 0)

\* A sweep leaves every pool and oracle alone, and what it calls unreachable is: an account
\* of a script that died, a pool another one took the place of, or - their keys are in the
\* registry, where sweep.js does not look - the oracles' and the payer's.
SweepIsRight ==
    \A a \in made :
        /\ a.id \in swept => a.kind = "lp" /\ a.id \in kept
        /\ a.id \in named => a.id \notin kept \/ a.kind \in {"pool", "oracle", "payer"}

NothingIsStranded == OneLostPerCrash /\ KeysOpenThePool /\ SubmissionsAreNoted /\ SweepIsRight
-----------------------------------------------------------------------------
(***************************************************************************)
(* The inductive invariant.                                                *)
(***************************************************************************)
Kinds == Slot \cup {"lp", "oracle", "payer"}

\* Every asset has an id of its own, and what files and submissions name was created.
AssetsAreApart ==
    /\ IsFiniteSet(made) /\ Cardinality(made) <= MaxAssets
    /\ made \subseteq [kind : Kinds, id : Nat, keys : Nat]
    /\ \A a1, a2 \in made : a1.id = a2.id => a1 = a2
    /\ \A s \in DOMAIN registry : registry[s] \in Ids(made) \cup {Nobody}
    /\ sent \in Seq(Ids(made)) /\ noted \in Nat /\ crashes \in Nat
    /\ pc = "top up" => registry["pool"] \in Ids(made)
    /\ pc = "submitted" => noted < Len(sent)

\* What a script that dies loses: the one asset it is at, or the oracles made so far.
HeldIsAtHand ==
    /\ pc \in Slot \cup {"lp", "payer"} => \A a1, a2 \in held : a1 = a2 /\ a1.kind = pc
    /\ pc = "oracles" => Cardinality(held) < at /\ \A a \in held : a.kind = "oracle"
    /\ pc \notin Slot \cup {"lp", "payer", "oracles"} => held = {}
    /\ Ids(held) \cap named = {}

\* The one time the keys on disk are not the pool's: between a RECREATE run's new keys and
\* its new pool.
KeysAreThePools ==
    /\ keys = 0 => registry["pool"] = Nobody
    /\ pc = "pool" => keys # 0 /\ \A a \in held : a.keys = keys
    /\ pc \in {"share", "policy", "demo", "topic", "associate", "lp", "join"} => registry["pool"] # Nobody
    /\ ~torn /\ ~(recreate /\ pc = "pool") => registry["pool"] = Nobody \/ PoolKeys = {keys}

ScriptsInv == TypeOK /\ AssetsAreApart /\ HeldIsAtHand /\ KeysAreThePools /\ NothingIsStranded
=============================================================================
