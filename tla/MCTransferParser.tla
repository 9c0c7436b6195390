-------------------------- MODULE MCTransferParser --------------------------
(***************************************************************************)
(* Small transactions for TransferParser, of the shape that jsonParsed     *)
(* gives them.  Token accounts a1, a2 of one mint and a3 of another; a1    *)
(* and a3 are in the message, a2 comes from an address table; o1 and o2    *)
(* own them.                                                               *)
(***************************************************************************)
EXTENDS TransferParser

CONSTANTS a1, a2, a3, o1, o2, m1, m2

Blank == [token_amount |-> None, amount |-> None, decimals |-> None, mint |-> None,
          lamports |-> None, source |-> None, destination |-> None, account |-> None]

Ins(program_id, program, type, info) ==
    [program_id |-> program_id, program |-> program, parsed |-> [type |-> type, info |-> info]]

\* transfer names no mint; the other instructions of the token programs do.
Transfer(from, to) ==
    Ins("Token", "spl-token", "transfer",
        [Blank EXCEPT !.source = from, !.destination = to, !.amount = 5])

Checked == Ins("Token22", "spl-token-2022", "transferChecked",
               [Blank EXCEPT !.source = a2, !.destination = a1, !.mint = m1,
                             !.token_amount = [amount |-> 3, decimals |-> 2]])

MintTo == Ins("Token", None, "mintTo", [Blank EXCEPT !.account = a3, !.mint = m2, !.amount = 7])

BurnChecked == Ins("Token", "spl-token", "burnChecked",
                   [Blank EXCEPT !.account = a1, !.mint = m1,
                                 !.token_amount = [amount |-> 4, decimals |-> 2]])

Lamports == Ins("System", "system", "transfer",
                [Blank EXCEPT !.source = o1, !.destination = o2, !.lamports = 6])

\* Instructions that are no transfers: an account that is created with lamports,
\* another program's transfer, one without a usable amount, and one that the
\* service does not parse.
Create == Ins("System", "system", "createAccount",
              [Blank EXCEPT !.source = o1, !.lamports = 8])

Foreign == Ins("Vault", "vault", "transfer",
               [Blank EXCEPT !.source = a1, !.destination = a2, !.amount = 9])

Garbled == Ins("Token", "spl-token", "transfer",
               [Blank EXCEPT !.source = a1, !.destination = a2, !.amount = Unparsable])

Opaque == [program_id |-> "Memo", program |-> None, parsed |-> None]

Outers == {Transfer(a1, a2), MintTo, BurnChecked, Lamports, Create, Foreign, Garbled, Opaque}
Inners == {Transfer(a2, a1), Checked, Lamports}

Balance(index, owner, mint, decimals) ==
    [account_index |-> index, owner |-> owner, mint |-> mint, decimals |-> decimals]

\* a2 is closed, or a1 is handed over and a3 created; the last index is none.
Befores == {<<Balance(2, o1, m1, 2), Balance(4, o2, m1, 2)>>, <<Balance(4, o2, m1, 2)>>}
Afters == {<<Balance(2, o1, m1, 2)>>,
           <<Balance(2, o2, m1, 2), Balance(3, o1, m2, 0), Balance(9, o1, m2, 0)>>}

Groups(index, n) == [index : {index}, instructions : [1 .. n -> Inners]]

\* One instruction or two, with the groups that n instructions can have.
OuterLists(n) == [1 .. n -> Outers]
InnerLists(n) ==
    {<<>>} \cup {<<g>> : g \in Groups(n - 1, 2)}
           \cup (IF n = 2 THEN {<<g, h>> : g \in Groups(0, 1), h \in Groups(1, 1)} ELSE {})

SmallTransactions ==
    UNION {[keys : {<<o1, o2, a1, a3>>}, writable : {<<a2>>}, readonly : {<<>>},
            outer : OuterLists(n), inner : InnerLists(n),
            pre : Befores, post : Afters] : n \in 1 .. 2}
=============================================================================
