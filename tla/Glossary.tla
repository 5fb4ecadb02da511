------------------------------ MODULE Glossary ------------------------------
(***************************************************************************)
(* The host's glossary (core/src/semantic): how it is indexed, vetted      *)
(* against a schema, matched in a question and rendered into a prompt.     *)
(*                                                                         *)
(* A phrase is the sequence of words terms() leaves of it.  An entry is    *)
(* [forms, defined, refs, sql]: the phrases of its term and synonyms, in   *)
(* order; whether it has a definition; the sequence of [table, columns] it *)
(* declares; and NoFragment or [unsafe, long, names, passed] - what        *)
(* fragmentIssues looks for in the expression, the names it mentions, and  *)
(* those of them it passes over.  A table has the name it is known by, its *)
(* schema aside (called), and the columns the reader can see (holds).      *)
(***************************************************************************)
EXTENDS Integers, Sequences, FiniteSets, SequencesExt

CONSTANT NoFragment  (* The sql of an entry without one. *)

(***************************************************************************)
(* defineGlossary: the first entry to claim a phrase keeps it.             *)
(***************************************************************************)
Phrases(entries) == (UNION {Range(entries[i].forms) : i \in DOMAIN entries}) \ {<<>>}

FirstClaim(entries, phrase) ==
  CHOOSE i \in DOMAIN entries :
    /\ phrase \in Range(entries[i].forms)
    /\ \A j \in 1..(i - 1) : phrase \notin Range(entries[j].forms)

DefineGlossary(entries) ==
  [entries |-> entries,
   byPhrase |-> [phrase \in Phrases(entries) |-> FirstClaim(entries, phrase)],
   longest |-> Max({0} \union {Len(phrase) : phrase \in Phrases(entries)})]

(***************************************************************************)
(* validateGlossary.                                                       *)
(***************************************************************************)
Found(ref, tables) == {t \in tables : t.called = ref.table}

RefIssues(ref, schema) ==
  LET found == Found(ref, schema.tables) IN
  CASE found = {} -> {"unknown_table"}
    [] Cardinality(found) > 1 -> {"ambiguous_table"}
    [] OTHER -> IF \A t \in found : ref.columns \subseteq t.holds THEN {} ELSE {"unknown_column"}

\* What checkRefs lets an expression mention.
Declared(entry, tables) ==
  UNION {UNION {{t.called} \union (ref.columns \cap t.holds) : t \in Found(ref, tables)} :
           ref \in Range(entry.refs)}

\* What is named has to be declared, but for what is passed over: a bare word
\* that is a keyword, as date or text are, or that stands before a parenthesis.
FragmentIssues(sql, allowed) ==
  (IF sql.unsafe THEN {"sql_unsafe"} ELSE {})
    \union (IF sql.long THEN {"sql_too_long"} ELSE {})
    \union (IF sql.names \ sql.passed \subseteq allowed THEN {} ELSE {"sql_unknown_identifier"})

TermIssues(glossary, i) ==
  LET entry == glossary.entries[i] IN
  (IF <<>> \in Range(entry.forms) THEN {"unsearchable_term"} ELSE {})
    \union (IF \E p \in Range(entry.forms) \ {<<>>} : glossary.byPhrase[p] # i
            THEN {"duplicate_term"} ELSE {})
    \union (IF ~entry.defined /\ entry.sql = NoFragment /\ entry.refs = <<>>
            THEN {"empty_entry"} ELSE {})

SqlIssues(entry, tables) ==
  IF entry.sql = NoFragment THEN {}
  ELSE IF entry.refs = <<>> THEN {"sql_without_refs"}
  ELSE FragmentIssues(entry.sql, Declared(entry, tables))

Unambiguous(entry, schema) ==
  {t \in schema.tables : \E ref \in Range(entry.refs) : Found(ref, schema.tables) = {t}}

EntryIssues(glossary, i, schema) ==
  LET entry == glossary.entries[i] IN
  TermIssues(glossary, i)
    \union (UNION {RefIssues(ref, schema) : ref \in Range(entry.refs)})
    \union SqlIssues(entry, Unambiguous(entry, schema))

Errors == {"unknown_table", "unknown_column", "ambiguous_table", "sql_without_refs", "sql_unsafe"}

\* The entries of the report that are dropped.
Broken(glossary, schema) ==
  {i \in DOMAIN glossary.entries : EntryIssues(glossary, i, schema) \cap Errors # {}}

\* In their order: the n-th entry kept is the one that n of them do not come after.
Keep(entries, kept) ==
  [n \in 1..Cardinality(kept) |-> entries[CHOOSE i \in kept : Cardinality({j \in kept : j <= i}) = n]]

\* glossaryGate: what is left is indexed again.
Vetted(glossary, schema) ==
  IF Broken(glossary, schema) = {} THEN glossary
  ELSE DefineGlossary(Keep(glossary.entries, DOMAIN glossary.entries \ Broken(glossary, schema)))

(***************************************************************************)
(* expandQuestion: at each position the longest phrase that is claimed is  *)
(* taken, and what it covers is passed over.                               *)
(***************************************************************************)
\* Slip: the shortest phrase at a position is taken.
ShortestAt(glossary, asked, i) ==
  LET lengths == {n \in 1..glossary.longest :
                    i + n - 1 <= Len(asked) /\ SubSeq(asked, i, i + n - 1) \in DOMAIN glossary.byPhrase}
  IN  IF lengths = {} THEN 0 ELSE CHOOSE n \in lengths : \A m \in lengths : n <= m

\* The number of words that match at a position, 0 when none do.
LongestAt(glossary, asked, i) ==
  LET lengths == {n \in 1..glossary.longest :
                    i + n - 1 <= Len(asked) /\ SubSeq(asked, i, i + n - 1) \in DOMAIN glossary.byPhrase}
  IN  IF lengths = {} THEN 0 ELSE CHOOSE n \in lengths : \A m \in lengths : n >= m

MatchAt(glossary, asked, i, n) ==
  [entry |-> glossary.byPhrase[SubSeq(asked, i, i + n - 1)], from |-> i, to |-> i + n - 1]

\* A match whose entry is not there is skipped like no match.
Expansion(glossary, asked) ==
  LET walk[i \in 1..(Len(asked) + 1)] ==
        LET n == IF i > Len(asked) THEN 0 ELSE LongestAt(glossary, asked, i)
            m == MatchAt(glossary, asked, i, n)
        IN  IF i > Len(asked) THEN <<>>
            ELSE IF n = 0 THEN walk[i + 1]
            ELSE IF m.entry \notin DOMAIN glossary.entries THEN walk[i + 1]
            ELSE <<m>> \o walk[i + n]
  IN  walk[1]

Words(phrases) == FoldLeft(LAMBDA acc, p : acc \o p, <<>>, phrases)

\* The words of its forms, and of the tables and columns it declares.
EntryTerms(entry) ==
  Words(entry.forms)
    \o FoldLeft(LAMBDA acc, ref : acc \o <<ref.table>> \o SetToSeq(ref.columns), <<>>, entry.refs)

\* The words searched for: those asked, and at most maxTerms that are new.
SearchWords(glossary, asked, maxTerms) ==
  LET add(acc, word) == IF word \in Range(asked) \union Range(acc) \/ Len(acc) >= maxTerms
                        THEN acc ELSE Append(acc, word)
      offered == Words([m \in DOMAIN Expansion(glossary, asked) |->
                         EntryTerms(glossary.entries[Expansion(glossary, asked)[m].entry])])
  IN  Range(asked) \union Range(FoldLeft(add, <<>>, offered))

(***************************************************************************)
(* renderGlossary: entries about the tables that were selected, and those  *)
(* about none.  An expression is shown only when every ref was found whole *)
(* and nothing in it is undeclared.                                        *)
(***************************************************************************)
Relevant(entry, tables) == entry.refs = <<>> \/ \E ref \in Range(entry.refs) : Found(ref, tables) # {}

Complete(entry, tables) ==
  /\ entry.refs # <<>>
  /\ \A ref \in Range(entry.refs) :
       /\ Found(ref, tables) # {}
       /\ \A t \in Found(ref, tables) : ref.columns \subseteq t.holds

ShowsSql(entry, tables) ==
  /\ entry.sql # NoFragment
  /\ Complete(entry, tables)
  /\ FragmentIssues(entry.sql, Declared(entry, tables)) = {}

\* A ref to a whole table names the table, one to columns names those that are there.
Uses(entry, tables) ==
  UNION {UNION {IF ref.columns = {} THEN {t.called}
                ELSE IF ref.columns \cap t.holds = {} THEN {}
                ELSE {t.called} \union (ref.columns \cap t.holds) : t \in Found(ref, tables)} :
           ref \in Range(entry.refs)}

\* What a line names, its prose aside, and what its expression mentions.
Line(entry, tables) ==
  [names  |-> Uses(entry, tables),
   sql    |-> IF ShowsSql(entry, tables) THEN entry.sql.names ELSE {},
   passed |-> IF ShowsSql(entry, tables) THEN entry.sql.passed ELSE {}]

Shown(entry, tables) ==
  /\ Relevant(entry, tables)
  /\ entry.defined \/ Uses(entry, tables) # {} \/ ShowsSql(entry, tables)

\* The budget counts lines: their lengths are not modelled.
RenderGlossary(glossary, tables, maxEntries) ==
  LET shown == SelectSeq(glossary.entries, LAMBDA e : Shown(e, tables))
      count == IF Len(shown) < maxEntries THEN Len(shown) ELSE maxEntries
  IN  [n \in 1..count |-> Line(shown[n], tables)]
=============================================================================
