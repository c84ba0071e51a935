----------------------------- MODULE ListQuery -----------------------------
(***************************************************************************)
(* What a list request means (crates/banto-storage/src/list_query.rs): the *)
(* rows its filters keep and the order its sort puts them in, as the SQL   *)
(* says it, beside the two implementations in the browser that have to     *)
(* agree with it: the in-memory provider (inMemory.ts) and the grid's      *)
(* client sort (sort.ts).                                                  *)
(*                                                                         *)
(* A database may return rows that tie in any order, another one for every *)
(* query: a query is the SET of the sequences it may return.  A state is   *)
(* one case: a table with a request, or a text with what is searched in it.*)
(***************************************************************************)
EXTENDS Naturals, Sequences, FiniteSets

CONSTANTS
    Tables,     \* sequences of rows, in insertion order
    Sorts,      \* sequences of [field, direction]
    Filters,    \* sequences of [field, op, value]
    Texts,      \* sequences of characters
    Needles,
    Null

VARIABLES table, sort, filters, text, needle

-----------------------------------------------------------------------------
\* ColumnMap: the fields a request may name.  The unique key is `id` by
\* convention, a declared field, or none.
Columns == {"id", "grp", "score"}

UniqueKeyColumn == "id"

Resolves(field) == field \in Columns

\* order_by_entries: the known keys, then the unique key in the direction of
\* the last of them.
Known(entries) ==
    LET K[n \in 0 .. Len(entries)] ==
            IF n = 0 THEN <<>>
            ELSE IF Resolves(entries[n].field) THEN Append(K[n - 1], entries[n]) ELSE K[n - 1]
    IN K[Len(entries)]

LastDirection(entries) == IF entries = <<>> THEN "asc" ELSE entries[Len(entries)].direction

MutOrderByEntries(entries) == Known(entries)

OrderByEntries(entries) ==
    LET known == Known(entries)
    IN IF \E i \in DOMAIN known : known[i].field = UniqueKeyColumn THEN known
       ELSE Append(known, [field |-> UniqueKeyColumn, direction |-> LastDirection(known)])

\* append_order_by: ASC or DESC, NULLS LAST.
SqlBefore(a, b, e) ==
    LET va == a[e.field]
        vb == b[e.field]
    IN IF va = Null \/ vb = Null THEN va # Null /\ vb = Null
       ELSE IF e.direction = "asc" THEN va < vb ELSE vb < va

Ties(a, b, e) == a[e.field] = b[e.field]

\* One key after the other.
Precedes(a, b, entries) ==
    \E i \in DOMAIN entries :
        SqlBefore(a, b, entries[i]) /\ \A j \in 1 .. (i - 1) : Ties(a, b, entries[j])

-----------------------------------------------------------------------------
\* push_condition: a comparison with NULL is not true.
Compares(op, v, w) ==
    CASE op = "eq" -> v = w
      [] op = "ne" -> v # w
      [] op = "lt" -> v < w
      [] op = "lte" -> v <= w
      [] op = "gt" -> v > w
      [] op = "gte" -> v >= w

Holds(row, f) ==
    LET v == row[f.field]
    IN CASE f.op = "is_null" -> v = Null
         [] f.op = "not_null" -> v # Null
         [] f.op = "in" -> v # Null /\ v \in f.value
         [] OTHER -> v # Null /\ Compares(f.op, v, f.value)

\* append_where: an unknown field is a bad request, unlike in a sort.
IsBadRequest == \E i \in DOMAIN filters : ~Resolves(filters[i].field)

Selected == {n \in DOMAIN table : \A i \in DOMAIN filters : Holds(table[n], filters[i])}

\* The sequences of the selected rows, named by their place in the table.
Listings(selected) ==
    {s \in [1 .. Cardinality(selected) -> selected] : \A i, j \in DOMAIN s : i # j => s[i] # s[j]}

\* apply_list_params without the page: what ORDER BY leaves open is any order.
SqlListings ==
    {s \in Listings(Selected) : \A i, j \in DOMAIN s :
        i < j => ~Precedes(table[s[j]], table[s[i]], OrderByEntries(sort))}

\* append_pagination: LIMIT and OFFSET.
Page(s, offset, limit) == SubSeq(s, offset + 1, IF offset + limit < Len(s)
                                                THEN offset + limit ELSE Len(s))

\* What pages read one after the other show: each is a query of its own.
ReadByPages(limit) ==
    LET pages == {n \in 0 .. Len(table) : n * limit < Cardinality(Selected)}
    IN {[n \in pages |-> Page(choice[n], n * limit, limit)] : choice \in [pages -> SqlListings]}

Shown(pages) == UNION {{pages[n][i] : i \in DOMAIN pages[n]} : n \in DOMAIN pages}

ShownOnce(pages) ==
    \A m, n \in DOMAIN pages : \A i \in DOMAIN pages[m], j \in DOMAIN pages[n] :
        pages[m][i] = pages[n][j] => m = n /\ i = j

-----------------------------------------------------------------------------
\* inMemory.ts applySort: the keys are those of any row's own fields, the
\* unique key is always the last of them, the place in the table breaks ties.
InMemoryPrecedes(m, n) ==
    LET known == Known(sort)
        keys == Append(known, [field |-> UniqueKeyColumn, direction |-> LastDirection(known)])
    IN \/ Precedes(table[m], table[n], keys)
       \/ ~Precedes(table[n], table[m], keys) /\ m < n

InMemoryListings ==
    {s \in Listings(Selected) : \A i, j \in DOMAIN s : i < j => InMemoryPrecedes(s[i], s[j])}

\* sort.ts sortRows over the rows in the order given: unsorted rows stay, the
\* row's id breaks ties, and a sort of unknown columns alone still sorts by it.
GridPrecedes(a, b) ==
    LET known == Known(sort)
        tie == [field |-> "id", direction |-> LastDirection(known)]
    IN Precedes(a, b, known) \/ (~Precedes(b, a, known) /\ SqlBefore(a, b, tie))

GridListings(given) ==
    IF sort = <<>> THEN {given}
    ELSE {s \in Listings(Selected) : \A i, j \in DOMAIN s :
             i < j => GridPrecedes(table[s[i]], table[s[j]])}

-----------------------------------------------------------------------------
\* contains and starts_with: LIKE with the operand escaped.

Special == {"%", "_", "\\"}

\* escape_like.
EscapeLike(raw) ==
    LET E[n \in 0 .. Len(raw)] ==
            IF n = 0 THEN <<>>
            ELSE E[n - 1] \o (IF raw[n] \in Special THEN <<"\\", raw[n]>> ELSE <<raw[n]>>)
    IN E[Len(raw)]

\* push_like: the wildcards around it.
Pattern(raw, op) ==
    (IF op = "contains" THEN <<"%">> ELSE <<>>) \o EscapeLike(raw) \o <<"%">>

\* LIKE .. ESCAPE '\' (external): whether the pattern from p on is the text
\* from t on.
Like(pattern, value) ==
    LET P == Len(pattern)
        T == Len(value)
        M[p \in 1 .. (P + 1)] == [t \in 1 .. (T + 1) |->
            IF p > P THEN t > T
            ELSE IF pattern[p] = "%" THEN \E u \in t .. (T + 1) : M[p + 1][u]
            ELSE IF pattern[p] = "_" THEN t <= T /\ M[p + 1][t + 1]
            ELSE IF pattern[p] = "\\"
            THEN p < P /\ t <= T /\ pattern[p + 1] = value[t] /\ M[p + 2][t + 1]
            ELSE t <= T /\ pattern[p] = value[t] /\ M[p + 1][t + 1]]
    IN M[1][1]

\* inMemory.ts: includes and startsWith.
IncludesAt(value, part, at) == SubSeq(value, at, at + Len(part) - 1) = part

Includes(value, part) ==
    \E at \in 1 .. (Len(value) + 1) : at + Len(part) - 1 <= Len(value) /\ IncludesAt(value, part, at)

StartsWith(value, part) == Len(part) <= Len(value) /\ IncludesAt(value, part, 1)

-----------------------------------------------------------------------------
Init ==
    \/ /\ table \in Tables /\ sort \in Sorts /\ filters \in Filters
       /\ text = <<>> /\ needle = <<>>
    \/ /\ table = <<>> /\ sort = <<>> /\ filters = <<>>
       /\ text \in Texts /\ needle \in Needles

-----------------------------------------------------------------------------
\* Reading a list page by page shows every selected row, and none twice, in
\* whatever order the database returns rows that tie (list_query.rs:14), which is
\* that a request has one answer; and it is the one the in-memory provider and
\* the grid give for the same rows ("keeps all three implementations in
\* agreement", list_query.rs:239).
PagesAreOneList ==
    ~IsBadRequest =>
        /\ \E s \in Listings(Selected) : SqlListings = {s}
        /\ \A limit \in 1 .. 2 : \A pages \in ReadByPages(limit) :
               Shown(pages) = Selected /\ ShownOnce(pages)
        /\ SqlListings = InMemoryListings
        /\ \A s \in SqlListings : GridListings(s) = SqlListings

\* A searched text is looked for as it is, whatever characters of a pattern it
\* has: contains and starts_with keep the rows the in-memory provider keeps.
SearchIsLiteral ==
    /\ Like(Pattern(needle, "contains"), text) <=> Includes(text, needle)
    /\ Like(Pattern(needle, "starts_with"), text) <=> StartsWith(text, needle)

\* What a list shows is the query's answer, on either provider.
ListIsFaithful == PagesAreOneList /\ SearchIsLiteral
=============================================================================
