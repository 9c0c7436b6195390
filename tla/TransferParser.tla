--------------------------- MODULE TransferParser ---------------------------
(***************************************************************************)
(* calculate_token_transfer of src/requests/types.rs: the transfers, mints *)
(* and burns of one transaction, collected from its instructions and from  *)
(* the inner instructions they caused, and the rows of token_transfers     *)
(* that write_token_transfers makes of them (src/db/transactions.rs).      *)
(*                                                                         *)
(* The two loops are the actions: one step per instruction.  A transaction *)
(* whose signature could not be marked is fetched, parsed and saved again. *)
(*                                                                         *)
(* Absent fields are None.  An amount is a number, or Unparsable.  Left    *)
(* out are the columns that no other one depends on: authority, direction  *)
(* (always "unknown") and amount_ui.                                       *)
(***************************************************************************)
EXTENDS Integers, Sequences, SequencesExt

CONSTANTS
    Transactions,  \* the transactions that the service may answer with
    None,          \* an absent field
    Unparsable     \* an amount that is not a number

\* The service reports the inner instructions of an instruction in one group.
ASSUME TransferParserAssumption ==
    /\ None \notin Int /\ Unparsable \notin Int
    /\ \A t \in Transactions :
          /\ \A s \in {t.keys, t.writable, t.readonly, t.pre, t.post} : s \in Seq(Range(s))
          /\ Len(t.outer) \in Nat
          /\ Len(t.inner) \in Nat
          /\ \A g \in 1 .. Len(t.inner) :
                /\ t.inner[g].index \in Nat
                /\ Len(t.inner[g].instructions) \in Nat
          /\ \A g, h \in 1 .. Len(t.inner) : t.inner[g].index = t.inner[h].index => g = h

VARIABLES
    tx,     \* the transaction
    at,     \* "outer" and "inner": in the loops; "parsed"; "saved"
    group,  \* the group of inner instructions, from 1
    pos,    \* instructions of the message, or of the group, that are done
    out,    \* the transfers so far
    rows    \* the rows of token_transfers of this transaction

vars == <<tx, at, group, pos, out, rows>>

-----------------------------------------------------------------------------
(* Accounts and balances.                                                  *)

\* Option::or
OrElse(x, y) == IF x # None THEN x ELSE y

\* The keys of the message, then the loaded ones, writable before readonly.
AllAccountKeys(t) == t.keys \o t.writable \o t.readonly

\* HashMap::insert
Insert(map, key, value) ==
    [k \in DOMAIN map \cup {key} |-> IF k = key THEN value ELSE map[k]]

\* The map after the balances, one by one: an index that is none is skipped.
MetaMap(keys, balances) ==
    LET map[n \in 0 .. Len(balances)] ==
            IF n = 0 THEN <<>>
            ELSE IF balances[n].account_index < Len(keys)
                 THEN Insert(map[n - 1], keys[balances[n].account_index + 1], balances[n])
            ELSE map[n - 1]
    IN  map[Len(balances)]

\* Mutant: the balances before the transaction win.
MetaMapReversed(t) == MetaMap(AllAccountKeys(t), t.post \o t.pre)

\* token_account_meta_map: owner, mint and decimals of the token accounts, those
\* after the transaction replacing those before.
TokenAccountMetaMap(t) == MetaMap(AllAccountKeys(t), t.pre \o t.post)

\* A field of what is known about an account, if the account is known.
Lookup(meta, account, field) ==
    IF account \in DOMAIN meta THEN meta[account][field] ELSE None

-----------------------------------------------------------------------------
(* One instruction.                                                        *)

Normalized(type) ==
    CASE type \in {"transfer", "transferChecked"} -> "transfer"
      [] type \in {"mintTo", "mintToChecked"}     -> "mint"
      [] type \in {"burn", "burnChecked"}         -> "burn"

IsRelevant(type) ==
    type \in {"transfer", "transferChecked", "mintTo", "mintToChecked", "burn", "burnChecked"}

IsSystem(i) == i.program_id = "System" \/ i.program = "system"

IsSpl(i) == i.program_id = "Token" \/ i.program \in {"spl-token", "spl-token-2022"}

\* Lamports move between owners; there is nothing to look up.
ParseNativeTransfer(info, kind, idx, inner) ==
    IF info.lamports = None THEN <<>>
    ELSE <<[asset_type |-> "native", transfer_type |-> kind,
            token_mint |-> None, token_program |-> None,
            source_owner |-> info.source, destination_owner |-> info.destination,
            source_token_account |-> None, destination_token_account |-> None,
            amount_raw |-> info.lamports, decimals |-> 9,
            instruction_idx |-> idx, inner_idx |-> inner]>>

\* Mutant: the account of a burn is not looked at.
SourceOfTransferOnly(info, kind) == info.source

\* A mint credits, and a burn debits, the field account.
Source(info, kind) == IF kind = "burn" THEN OrElse(info.account, info.source) ELSE info.source

Destination(info, kind) ==
    IF kind = "mint" THEN OrElse(info.account, info.destination) ELSE info.destination

\* Mutant: only the source is asked.
KnownAtSource(meta, source, destination, field) == Lookup(meta, source, field)

\* What the source, or else the destination, says about the token.
KnownAtEnds(meta, source, destination, field) ==
    OrElse(Lookup(meta, source, field), Lookup(meta, destination, field))

\* token_amount comes before amount, and brings its decimals.
Amount(info) == IF info.token_amount # None THEN info.token_amount.amount ELSE info.amount

GivenDecimals(info) ==
    IF info.token_amount # None THEN info.token_amount.decimals ELSE info.decimals

\* What is missing in the instruction is looked up at its ends.
ParseSplTransfer(info, kind, program_id, meta, idx, inner) ==
    LET source == Source(info, kind)
        destination == Destination(info, kind)
    IN  IF Amount(info) \in {None, Unparsable} THEN <<>>
        ELSE <<[asset_type |-> "spl", transfer_type |-> kind,
                token_mint |-> OrElse(info.mint, KnownAtEnds(meta, source, destination, "mint")),
                token_program |-> program_id,
                source_owner |-> Lookup(meta, source, "owner"),
                destination_owner |-> Lookup(meta, destination, "owner"),
                source_token_account |-> source, destination_token_account |-> destination,
                amount_raw |-> Amount(info),
                decimals |-> OrElse(GivenDecimals(info), KnownAtEnds(meta, source, destination, "decimals")),
                instruction_idx |-> idx, inner_idx |-> inner]>>

\* collect_token_transfer: the transfer of an instruction, if it is one.
CollectTokenTransfer(i, idx, inner, meta) ==
    IF i.parsed = None \/ ~IsRelevant(i.parsed.type) THEN <<>>
    ELSE IF IsSpl(i)
         THEN ParseSplTransfer(i.parsed.info, Normalized(i.parsed.type), i.program_id,
                               meta, idx, inner)
    ELSE IF IsSystem(i)
         THEN ParseNativeTransfer(i.parsed.info, Normalized(i.parsed.type), idx, inner)
    ELSE <<>>

-----------------------------------------------------------------------------
(* What the service answers with.                                          *)

OuterPlaces(t) == 1 .. Len(t.outer)

InnerPlaces(t) ==
    UNION {{g} \X (1 .. Len(t.inner[g].instructions)) : g \in 1 .. Len(t.inner)}

\* The instructions of all levels.
Instructions(t) ==
    {t.outer[p] : p \in OuterPlaces(t)}
      \cup {t.inner[q[1]].instructions[q[2]] : q \in InnerPlaces(t)}

\* Balance b is of account a.
IsOf(keys, b, a) == b.account_index < Len(keys) /\ keys[b.account_index + 1] = a

\* The balances of the transaction that belong to account a.
BalancesOf(t, balances, a) == {b \in Range(balances) : IsOf(AllAccountKeys(t), b, a)}

\* A token account has one balance at a time, which names its mint.
ASSUME BalancesAssumption ==
    \A t \in Transactions :
        LET keys == AllAccountKeys(t) IN
        /\ None \notin Range(keys)
        /\ \A s \in {t.pre, t.post} :
              /\ \A k \in 1 .. Len(s) : /\ s[k].account_index \in Nat
                                        /\ s[k].mint # None /\ s[k].decimals # None
              /\ \A k, l \in 1 .. Len(s), a \in Range(keys) :
                    IsOf(keys, s[k], a) /\ IsOf(keys, s[l], a) => k = l

\* The accounts that an instruction of a token program moves tokens between.
Ends(i) ==
    {Source(i.parsed.info, Normalized(i.parsed.type)),
     Destination(i.parsed.info, Normalized(i.parsed.type))}

\* The token programs move tokens between accounts of one mint, and refuse
\* another mint or other decimals; an account keeps its mint while it exists.
OneMint(t, i) ==
    LET info == i.parsed.info
    IN  \A a, c \in Ends(i) : \A b \in BalancesOf(t, t.pre \o t.post, a) :
            /\ \A d \in BalancesOf(t, t.pre \o t.post, c) : b.mint = d.mint /\ b.decimals = d.decimals
            /\ info.mint \in {None, b.mint}
            /\ GivenDecimals(info) \in {None, b.decimals}

\* What jsonParsed gives for the instructions of the token programs and of the
\* system program: a mint or a burn names its account, and has no other end; the
\* system program has only one of the instructions, with its lamports.
ASSUME InstructionsAssumption ==
    \A t \in Transactions : \A i \in Instructions(t) :
        i.parsed # None /\ IsRelevant(i.parsed.type) =>
            /\ IsSpl(i) =>
                  /\ ~IsSystem(i)
                  /\ OneMint(t, i)
                  /\ Amount(i.parsed.info) \in Int \cup {None, Unparsable}
                  /\ Normalized(i.parsed.type) = "mint" =>
                        i.parsed.info.account # None /\ i.parsed.info.source = None
                  /\ Normalized(i.parsed.type) = "burn" =>
                        i.parsed.info.account # None /\ i.parsed.info.destination = None
            /\ IsSystem(i) => i.parsed.type = "transfer" /\ i.parsed.info.lamports \in Int

-----------------------------------------------------------------------------
(* The loops.                                                              *)

\* What the instruction at place p of the message, or of group g, contributes.
OuterTransfers(t, p) ==
    CollectTokenTransfer(t.outer[p], p - 1, None, TokenAccountMetaMap(t))

\* Mutant: the group is numbered by its place.
InnerTransfersByPlace(t, g, p) ==
    CollectTokenTransfer(t.inner[g].instructions[p], g - 1, p - 1, TokenAccountMetaMap(t))

\* Mutant: the place within the group is not kept.
InnerTransfersUnplaced(t, g, p) ==
    CollectTokenTransfer(t.inner[g].instructions[p], t.inner[g].index, None,
                         TokenAccountMetaMap(t))

InnerTransfers(t, g, p) ==
    CollectTokenTransfer(t.inner[g].instructions[p], t.inner[g].index, p - 1,
                         TokenAccountMetaMap(t))

Begin == at' = "outer" /\ group' = 1 /\ pos' = 0 /\ out' = <<>>

Init ==
    /\ tx \in Transactions
    /\ at = "outer"
    /\ group = 1
    /\ pos = 0
    /\ out = <<>>
    /\ rows = {}

CollectOuter ==
    /\ at = "outer"
    /\ pos < Len(tx.outer)
    /\ out' = out \o OuterTransfers(tx, pos + 1)
    /\ pos' = pos + 1
    /\ UNCHANGED <<tx, at, group, rows>>

OuterDone ==
    /\ at = "outer"
    /\ pos = Len(tx.outer)
    /\ at' = "inner"
    /\ pos' = 0
    /\ UNCHANGED <<tx, group, out, rows>>

CollectInner ==
    /\ at = "inner"
    /\ group <= Len(tx.inner)
    /\ pos < Len(tx.inner[group].instructions)
    /\ out' = out \o InnerTransfers(tx, group, pos + 1)
    /\ pos' = pos + 1
    /\ UNCHANGED <<tx, at, group, rows>>

\* Mutant: the place within the group is not set back.
NextGroupFromPlace ==
    /\ at = "inner"
    /\ group <= Len(tx.inner)
    /\ pos >= Len(tx.inner[group].instructions)
    /\ group' = group + 1
    /\ UNCHANGED <<tx, at, pos, out, rows>>

NextGroup ==
    /\ at = "inner"
    /\ group <= Len(tx.inner)
    /\ pos = Len(tx.inner[group].instructions)
    /\ group' = group + 1
    /\ pos' = 0
    /\ UNCHANGED <<tx, at, out, rows>>

\* The transfers become token_transfer_changes.
Finish ==
    /\ at = "inner"
    /\ group > Len(tx.inner)
    /\ at' = "parsed"
    /\ UNCHANGED <<tx, group, pos, out, rows>>

\* write_token_transfers.  The unique index covers every column and takes nulls
\* for equal, and ON CONFLICT DO NOTHING drops a row that is there.
Save ==
    /\ at = "parsed"
    /\ rows' = rows \cup Range(out)
    /\ at' = "saved"
    /\ UNCHANGED <<tx, group, pos, out>>

\* The transfers are not saved, or they are and the signature is not marked: the
\* transaction is fetched again by another round, job or process.
Refetch ==
    /\ at \in {"parsed", "saved"}
    /\ Begin
    /\ UNCHANGED <<tx, rows>>

Next ==
    \/ CollectOuter \/ OuterDone \/ CollectInner \/ NextGroup \/ Finish
    \/ Save \/ Refetch

Spec == Init /\ [][Next]_vars

-----------------------------------------------------------------------------
\* Type correctness: the loops stay within the instructions.
TypeOK ==
    /\ tx \in Transactions
    /\ at \in {"outer", "inner", "parsed", "saved"}
    /\ group \in 1 .. Len(tx.inner) + 1
    /\ pos \in Nat
    /\ at = "outer" => pos <= Len(tx.outer) /\ group = 1
    /\ at = "inner" =>
          pos <= IF group <= Len(tx.inner) THEN Len(tx.inner[group].instructions) ELSE 0
    /\ at \in {"parsed", "saved"} => group = Len(tx.inner) + 1

\* The unique index of migration 20260511060000 neither swallows a transfer of
\* the transaction (two equal ones, in one instruction or in different groups,
\* are different rows) nor lets a repetition add one.
RowPerTransfer == at = "saved" => Cardinality(rows) = Len(out)

When(condition, n) == IF condition THEN n ELSE 0

\* What the token programs and the system program do to account a: the change of
\* its tokens, or of its lamports, by instruction i.
TokenEffect(i, a) ==
    IF i.parsed = None \/ ~IsSpl(i) \/ Amount(i.parsed.info) \in {None, Unparsable} THEN 0
    ELSE LET info == i.parsed.info
             amount == Amount(info)
         IN  CASE i.parsed.type \in {"transfer", "transferChecked"} ->
                      When(info.destination = a, amount) - When(info.source = a, amount)
               [] i.parsed.type \in {"mintTo", "mintToChecked"} -> When(info.account = a, amount)
               [] i.parsed.type \in {"burn", "burnChecked"} -> - When(info.account = a, amount)
               [] OTHER -> 0

LamportEffect(i, a) ==
    IF i.parsed = None \/ ~IsSystem(i) \/ i.parsed.type # "transfer" THEN 0
    ELSE LET info == i.parsed.info
         IN  When(info.destination = a, info.lamports) - When(info.source = a, info.lamports)

\* The two ledgers that a transfer can be about, and what it does there.
Assets == {"spl", "native"}

Effect(asset, i, a) == IF asset = "spl" THEN TokenEffect(i, a) ELSE LamportEffect(i, a)

\* The change of account a that transfer r says.
Change(asset, r, a) ==
    IF r.asset_type # asset THEN 0
    ELSE IF asset = "spl"
         THEN When(r.destination_token_account = a, r.amount_raw)
                - When(r.source_token_account = a, r.amount_raw)
    ELSE When(r.destination_owner = a, r.amount_raw) - When(r.source_owner = a, r.amount_raw)

\* f[1] + ... + f[n]
Total(f, n) ==
    LET sum[k \in 0 .. n] == IF k = 0 THEN 0 ELSE sum[k - 1] + f[k]
    IN  sum[n]

Recorded(asset, a) == Total([k \in 1 .. Len(out) |-> Change(asset, out[k], a)], Len(out))

\* What the instructions of the message, those of a group, and the groups do.
OuterEffects(asset, t, a) == [p \in 1 .. Len(t.outer) |-> Effect(asset, t.outer[p], a)]

InnerEffects(asset, t, g, a) ==
    [p \in 1 .. Len(t.inner[g].instructions) |-> Effect(asset, t.inner[g].instructions[p], a)]

GroupEffects(asset, t, a) ==
    [g \in 1 .. Len(t.inner) |-> Total(InnerEffects(asset, t, g, a), Len(t.inner[g].instructions))]

\* The transfers of a transaction that succeeded account for every change of
\* every balance that its transfers, mints and burns have made, on whatever
\* level and by whichever program they were called.
TransfersExplainBalances ==
    at = "parsed" => \A a \in Range(AllAccountKeys(tx)), asset \in Assets :
        Recorded(asset, a) = Total(OuterEffects(asset, tx, a), Len(tx.outer))
                               + Total(GroupEffects(asset, tx, a), Len(tx.inner))

\* Owner o of account a is the one after the transaction, the one before it if
\* the account was closed, and none if there is no balance of the account.
IsOwnerAfter(o, a) ==
    /\ \A b \in BalancesOf(tx, tx.post, a) : o = b.owner
    /\ BalancesOf(tx, tx.post, a) = {} => \A b \in BalancesOf(tx, tx.pre, a) : o = b.owner
    /\ BalancesOf(tx, tx.pre \o tx.post, a) = {} => o = None

\* The owners of a token transfer are those that the accounts end up with,
\* although accounts may be created, closed or handed over in the transaction,
\* and may come from an address table.
OwnersAreLatest ==
    \A k \in 1 .. Len(out) : out[k].asset_type = "spl" =>
        /\ IsOwnerAfter(out[k].source_owner, out[k].source_token_account)
        /\ IsOwnerAfter(out[k].destination_owner, out[k].destination_token_account)

\* A token transfer that touches an account with a balance has the mint and the
\* decimals of that account, on whichever end it is and however little the
\* instruction says: amount_raw is never scaled by another token's decimals.
TransfersAreResolved ==
    \A k \in 1 .. Len(out) : out[k].asset_type = "spl" =>
        \A a \in {out[k].source_token_account, out[k].destination_token_account} :
            \A b \in BalancesOf(tx, tx.pre \o tx.post, a) :
                out[k].token_mint = b.mint /\ out[k].decimals = b.decimals

\* The place in the transaction that a transfer names.
Key(t) == <<t.instruction_idx, t.inner_idx>>

\* The amounts that instruction i mentions.
AmountsOf(i) ==
    IF i.parsed = None THEN {}
    ELSE LET info == i.parsed.info
         IN  {info.amount, info.lamports}
               \cup (IF info.token_amount = None THEN {} ELSE {info.token_amount.amount})

\* instruction_idx and inner_idx point to the instruction that the transfer was
\* made of: the one that mentions its amount, under the index that the service
\* gave its group.
KeysPointBack ==
    \A k \in 1 .. Len(out) :
        \/ \E p \in 1 .. Len(tx.outer) :
              /\ Key(out[k]) = <<p - 1, None>>
              /\ out[k].amount_raw \in AmountsOf(tx.outer[p])
        \/ \E g \in 1 .. Len(tx.inner) : \E p \in 1 .. Len(tx.inner[g].instructions) :
              /\ Key(out[k]) = <<tx.inner[g].index, p - 1>>
              /\ out[k].amount_raw \in AmountsOf(tx.inner[g].instructions[p])

-----------------------------------------------------------------------------
(* The inductive invariant.                                                *)

\* The places of the message and of the groups that the loops have passed.
OuterPassed(p) == at = "outer" => p <= pos

InnerPassed(g, p) ==
    /\ at # "outer"
    /\ at = "inner" => g < group \/ (g = group /\ p <= pos)

\* Every transfer of transaction t.
AllTransfers(t) ==
    (UNION {Range(OuterTransfers(t, p)) : p \in OuterPlaces(t)})
      \cup (UNION {Range(InnerTransfers(t, q[1], q[2])) : q \in InnerPlaces(t)})

\* The transfers so far are those of the places that were passed.
OutIsExact ==
    /\ out \in Seq(AllTransfers(tx))
    /\ \A t \in Range(out) :
          \/ \E p \in OuterPlaces(tx) : OuterPassed(p) /\ t \in Range(OuterTransfers(tx, p))
          \/ \E q \in InnerPlaces(tx) :
                InnerPassed(q[1], q[2]) /\ t \in Range(InnerTransfers(tx, q[1], q[2]))
    /\ \A p \in OuterPlaces(tx) : OuterPassed(p) => Range(OuterTransfers(tx, p)) \subseteq Range(out)
    /\ \A q \in InnerPlaces(tx) :
          InnerPassed(q[1], q[2]) => Range(InnerTransfers(tx, q[1], q[2])) \subseteq Range(out)

\* No two of them name the same place.
KeysAreDistinct ==
    \A k, l \in 1 .. Len(out) : Key(out[k]) = Key(out[l]) => k = l

\* What is saved is all of them, however often it was saved.
RowsOK ==
    /\ rows = {} \/ rows = AllTransfers(tx)
    /\ at = "saved" => rows = AllTransfers(tx)

ParserInv == TypeOK /\ OutIsExact /\ KeysAreDistinct /\ RowsOK

\* What the places that were passed do to account a.
EffectPassed(asset, a) ==
    IF at = "outer" THEN Total(OuterEffects(asset, tx, a), pos)
    ELSE Total(OuterEffects(asset, tx, a), Len(tx.outer))
           + Total(GroupEffects(asset, tx, a), group - 1)
           + (IF at = "inner" /\ group <= Len(tx.inner)
              THEN Total(InnerEffects(asset, tx, group, a), pos) ELSE 0)

\* The transfers so far account for them.
SumsOK ==
    \A a \in Range(AllAccountKeys(tx)), asset \in Assets : Recorded(asset, a) = EffectPassed(asset, a)
=============================================================================
