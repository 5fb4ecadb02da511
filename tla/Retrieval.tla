----------------------------- MODULE Retrieval ------------------------------
(***************************************************************************)
(* selectTables (core/src/plan/retrieve.ts): which tables of the schema go *)
(* into the prompt of a question.  A word is what terms() leaves of one; a *)
(* table is [id, name, columns, note, notes, size], the four in the middle *)
(* being the words of its name, columns, comment and column comments and   *)
(* size the tokens it renders to.  A foreign key is [from, to], of ids,    *)
(* and may name a table the reader cannot see.                             *)
(***************************************************************************)
EXTENDS Integers, Sequences, FiniteSets, FiniteSetsExt, SequencesExt

Ids(tables) == {t.id : t \in tables}

\* index: a word counts once, for the best place it is found in.
Score(t, asked) ==
  10 * Cardinality(asked \cap t.name)
    + 3 * Cardinality(asked \cap (t.columns \ t.name))
    + 2 * Cardinality(asked \cap (t.note \ (t.name \union t.columns)))
    + Cardinality(asked \cap (t.notes \ (t.name \union t.columns \union t.note)))

\* A key of a table to itself counts twice.
Degree(schema, id) ==
  Cardinality({k \in schema.keys : k.from = id}) + Cardinality({k \in schema.keys : k.to = id})

\* A set in the order of a relation: the n-th is the one that n - 1 go before.
InOrderOf(before, S) ==
  [n \in 1..Cardinality(S) |-> CHOOSE x \in S : Cardinality({y \in S : <<y, x>> \in before}) = n - 1]

\* By relevance, then by how connected a table is, then by name.
Ahead(schema, asked) ==
  {p \in schema.tables \X schema.tables :
     LET byScore  == Score(p[1], asked) - Score(p[2], asked)
         byDegree == Degree(schema, p[1].id) - Degree(schema, p[2].id)
     IN  \/ byScore > 0
         \/ byScore = 0 /\ byDegree > 0
         \/ byScore = 0 /\ byDegree = 0 /\ p[1].id < p[2].id}

Matches(schema, asked) == \E t \in schema.tables : Score(t, asked) > 0

\* The tables that match; without a match every table, the hub tables first.
Direct(schema, asked) ==
  InOrderOf(Ahead(schema, asked),
            {t \in schema.tables : Matches(schema, asked) => Score(t, asked) > 0})

Linked(schema, s, t) == \E k \in schema.keys : {k.from, k.to} = {s.id, t.id}

(***************************************************************************)
(* One hop: the tables not queued yet that are linked with one of the last *)
(* hop, in the order of the first they are linked with, then by name.      *)
(***************************************************************************)
Hop(schema, walk) ==
  LET at(t)   == {n \in DOMAIN walk.next : Linked(schema, walk.next[n], t)}
      reached == {t \in schema.tables \ Range(walk.order) : at(t) # {}}
      before  == {p \in reached \X reached :
                    \/ Min(at(p[1])) < Min(at(p[2]))
                    \/ Min(at(p[1])) = Min(at(p[2])) /\ p[1].id < p[2].id}
      found   == InOrderOf(before, reached)
  IN  [order |-> walk.order \o found, next |-> found]

\* linkDepth hops outwards from the first maxTables of the direct ones.
Order(schema, asked, options) ==
  LET direct == Direct(schema, asked)
      count  == IF Len(direct) < options.maxTables THEN Len(direct) ELSE options.maxTables
      walk[h \in 0..options.linkDepth] ==
        IF h = 0 THEN [order |-> direct, next |-> SubSeq(direct, 1, count)]
        ELSE Hop(schema, walk[h - 1])
  IN  walk[options.linkDepth].order

Among(keys, ids) == {k \in keys : k.from \in ids /\ k.to \in ids}

\* renderSchema and estimateTokens: a key is shown when both its ends are.
Tokens(schema, chosen) ==
  LET sizes[n \in 0..Len(chosen)] == IF n = 0 THEN 0 ELSE sizes[n - 1] + chosen[n].size
  IN  sizes[Len(chosen)] + Cardinality(Among(schema.keys, Ids(Range(chosen))))

\* The first table is kept whatever it costs; one that is too big is passed over.
Fits(schema, chosen, t, options) ==
  /\ Len(chosen) < options.maxTables
  /\ chosen = <<>> \/ Tokens(schema, Append(chosen, t)) <= options.maxTokens

Chosen(schema, order, options) ==
  LET kept[n \in 0..Len(order)] ==
        IF n = 0 THEN <<>>
        ELSE IF Fits(schema, kept[n - 1], order[n], options) THEN Append(kept[n - 1], order[n])
        ELSE kept[n - 1]
  IN  kept[Len(order)]

SelectTables(schema, asked, options) ==
  LET chosen == Chosen(schema, Order(schema, asked, options), options)
  IN  [tables |-> Range(chosen), keys |-> Among(schema.keys, Ids(Range(chosen))),
       matched |-> Matches(schema, asked), tokens |-> Tokens(schema, chosen)]
=============================================================================
