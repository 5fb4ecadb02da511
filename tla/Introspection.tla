---------------------------- MODULE Introspection ----------------------------
(* introspectSchema: five queries of the catalog, one after the other, and the *)
(* schema put together from their rows. Relations and columns are numbers, in  *)
(* the order of the queries' ORDER BY.                                         *)
(*                                                                             *)
(* Of a relation a catalog says whether it was granted to the role as a whole, *)
(* which of its columns were granted one by one, its columns, and those of its *)
(* primary key in order; of a foreign key its name, both ends and the pairs of *)
(* columns in order.                                                           *)
EXTENDS Integers, Sequences, FiniteSets, SequencesExt

CONSTANTS MaxTables, MaxColumns      \* maxTables and maxColumns of the caller

ASSUME CapsAssumption == {MaxTables, MaxColumns} \subseteq Nat \ {0}

Earlier(r, s) ==
    \E i \in 1..Len(r) : r[i] < s[i] /\ \A j \in 1..(i - 1) : r[j] = s[j]

\* A set in the order of a relation: the n-th is the one that n - 1 go before.
InOrder(before, S) ==
    [n \in 1..Cardinality(S) |->
        CHOOSE x \in S : Cardinality({y \in S : <<y, x>> \in before}) = n - 1]

\* ORDER BY.
Sorted(rows) == InOrder({p \in rows \X rows : Earlier(p[1], p[2])}, rows)

\* What is at some places of a list, in the order of the list.
Picked(list, places) ==
    LET order == InOrder({p \in places \X places : p[1] < p[2]}, places)
    IN  [n \in DOMAIN order |-> list[order[n]]]

AtMost(n, rows) == SubSeq(rows, 1, IF n < Len(rows) THEN n ELSE Len(rows))

\* Slip: asking for no more than the cap.
LimitExact(cap) == cap

\* The queries. One row more than the cap is asked for, to know of what is left out.
Limit(cap) == cap + 1

TableRows(cat) == AtMost(Limit(MaxTables), Sorted({<<t>> : t \in cat.granted}))

\* has_column_privilege: a grant of the whole is one of every column.
MayRead(cat, t, c) == t \in cat.granted \/ c \in cat.byColumn[t]

\* has_table_privilege is asked for as well, which a grant of columns is not enough for.
ColumnRows(cat) ==
    AtMost(Limit(MaxColumns),
           Sorted(UNION {{<<t, c>> : c \in {d \in cat.columns[t] : MayRead(cat, t, d)}} : t \in cat.granted}))

\* <<relation, ordinal, column>>; a key column the role may not read is left out.
KeyRows(cat) ==
    Sorted(UNION {{<<t, i, cat.key[t][i]>> : i \in {j \in DOMAIN cat.key[t] : MayRead(cat, t, cat.key[t][j])}}
                  : t \in cat.granted})

\* <<relation, name, ordinal, column, other relation, other column>>; both ends must be granted.
LinkRows(cat) ==
    Sorted(UNION {{<<l.from, l.name, i, l.pairs[i][1], l.to, l.pairs[i][2]>> : i \in DOMAIN l.pairs}
                  : l \in {k \in cat.links : {k.from, k.to} \subseteq cat.granted}})

Queries == <<"whoami", "tables", "columns", "keys", "links">>

Answers(query, cat) ==
    CASE query = "whoami" -> <<>>
      [] query = "tables" -> TableRows(cat)
      [] query = "columns" -> ColumnRows(cat)
      [] query = "keys" -> KeyRows(cat)
      [] query = "links" -> LinkRows(cat)

\* The key columns pushed on a relation, row after row.
KeyOf(rows, t) ==
    LET mine == Picked(rows, {i \in DOMAIN rows : rows[i][1] = t}) IN [i \in DOMAIN mine |-> mine[i][3]]

\* One row per key column: the rows of one constraint of one relation are folded into one key.
SameLink(r, s) == r[1] = s[1] /\ r[2] = s[2]

Folded(rows) ==
    {LET mine == Picked(rows, {i \in DOMAIN rows : SameLink(r, rows[i])})
     IN  [name |-> mine[1][2], from |-> mine[1][1], to |-> mine[1][5],
          pairs |-> [i \in DOMAIN mine |-> <<mine[i][4], mine[i][6]>>]]
     : r \in ToSet(rows)}

(***************************************************************************)
(* The schema out of the rows of tables, columns, keys and links. What is   *)
(* over a cap is cut off and said to be; a column whose relation was cut     *)
(* off, or was not there when the relations were read, is passed over.       *)
(***************************************************************************)
Assemble(rows) ==
    LET kept == {r[1] : r \in ToSet(AtMost(MaxTables, rows[2]))}
        columns == ToSet(AtMost(MaxColumns, rows[3]))
    IN  [tables |-> [t \in kept |->
            [columns |-> {r[2] : r \in {s \in columns : s[1] = t}}, key |-> KeyOf(rows[4], t)]],
         links |-> Folded(rows[5]),
         truncated |-> Len(rows[2]) > MaxTables \/ Len(rows[3]) > MaxColumns]

\* The relations granted as a whole, said of the catalog and without a cap: each with all
\* its columns and its key, and the foreign keys among them.
Visible(cat) ==
    [tables |-> [t \in cat.granted |-> [columns |-> cat.columns[t], key |-> cat.key[t]]],
     links |-> {l \in cat.links : {l.from, l.to} \subseteq cat.granted},
     truncated |-> FALSE]
=============================================================================
