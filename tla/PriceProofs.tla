------------------------------- MODULE PriceProofs -------------------------------
(***************************************************************************)
(* The way from the documents to a price, for documents of every size: the *)
(* estimates, the takeoffs, the quotes and the offers.                     *)
(***************************************************************************)
EXTENDS PricesMC, AlgorithmProofs

-----------------------------------------------------------------------------
(* ESTIMATES.  An estimate is any sequence of lines with whole amounts      *)

Amounts(lines) == [i \in DOMAIN lines |-> lines[i].amount]

IsEstimate(lines) == IsFiniteSet(DOMAIN lines) /\ \A i \in DOMAIN lines : lines[i].amount \in Int

\* A structured estimate whose total is that of its lines.
IsSummed(s) == IsEstimate(s.rows) /\ s.total = SumFunction(Amounts(s.rows))

LEMMA StructuredIsSummed ==
  ASSUME NEW estimate, IsEstimate(estimate.lines), NEW position
  PROVE  LET s == Structured(estimate, position)
         IN  /\ IsSummed(s) /\ s.total = SumFunction(Amounts(estimate.lines)) /\ s.total = SumFunction(s.sections)
  <1> DEFINE lines == estimate.lines
             s == Structured(estimate, position)
             D == DOMAIN lines
             f == Amounts(lines)
             section == [i \in D |-> position[i][1]]
             K == {section[i] : i \in D}
  <1>1. /\ DOMAIN s.rows = D /\ \A i \in D : s.rows[i].amount = lines[i].amount
        /\ s.total = SumFunction(s.sections)
    BY DEF Structured
  <1>2. Amounts(s.rows) = f
    BY <1>1 DEF Amounts
  <1>3. s.sections = [k \in K |-> SumFunctionOnSet(f, {i \in D : section[i] = k})]
    <2> DEFINE rows == [i \in D |-> [id |-> lines[i].id, amount |-> lines[i].amount, position |-> position[i]]]
               g == [i \in DOMAIN rows |-> rows[i].amount]
    <2>1. g = f /\ DOMAIN rows = D
      BY DEF Amounts
    <2>2. s.sections = [k \in {position[i][1] : i \in D} |-> SumFunctionOnSet(g, {i \in D : position[i][1] = k})]
      BY <2>1 DEF Structured
    <2>3. K = {position[i][1] : i \in D} /\ \A k : {i \in D : position[i][1] = k} = {i \in D : section[i] = k}
      OBVIOUS
    <2> HIDE DEF K, section, g, D
    <2> QED
      BY <2>1, <2>2, <2>3
  <1>4. IsFiniteSet(D) /\ DOMAIN f = D /\ \A i \in D : f[i] \in Int
    BY DEF IsEstimate, Amounts
  <1>5. IsFiniteSet(K) /\ \A i \in D : section[i] \in K
    <2>1. section \in Surjection(D, K)
      BY DEF Surjection
    <2> HIDE DEF section, K, D
    <2>2. IsFiniteSet(K)
      BY <1>4, <2>1, FS_Surjection
    <2> QED
      BY <2>1, <2>2 DEF Surjection
  <1> HIDE DEF K, section, f, D
  <1>6. SumFunctionOnSet(s.sections, K) = SumFunctionOnSet(f, D)
    <2>1. \A k \in K : s.sections[k] = SumFunctionOnSet(f, OfKind(section, D, k))
      BY <1>3 DEF OfKind
    <2> HIDE DEF s
    <2> QED
      BY <1>4, <1>5, <2>1, SumOfKinds
  <1>7. SumFunction(s.sections) = SumFunction(f)
    <2>1. DOMAIN s.sections = K
      BY <1>3
    <2> QED
      BY <1>4, <1>6, <2>1 DEF SumFunction
  <1>8. IsEstimate(s.rows)
    BY <1>1, <1>4 DEF IsEstimate, D
  <1> QED
    BY <1>1, <1>2, <1>7, <1>8 DEF IsSummed, f

LEMMA RowsAre ==
  ASSUME NEW s
  PROVE  \A x, id : x \in RowsOf(s, id) <=> x \in Range(s.rows) /\ x.id = id
  BY DEF RowsOf, Range

LEMMA RowsOfOne ==
  ASSUME NEW s, IdsAreUnique(s), NEW x \in Range(s.rows)
  PROVE  RowsOf(s, x.id) = {x}
  BY DEF RowsOf, Range, IdsAreUnique

\* The amount of a line, and nought of a line there is not.
AmountOf(s, id) == SumFunction([r \in RowsOf(s, id) |-> r.amount])

LEMMA AmountIs ==
  ASSUME NEW s, IsSummed(s), IdsAreUnique(s), NEW id
  PROVE  /\ AmountOf(s, id) = SumFunctionOnSet(Amounts(s.rows), {i \in DOMAIN s.rows : s.rows[i].id = id})
         /\ AmountOf(s, id) \in Int
  <1> DEFINE D == DOMAIN s.rows
             f == Amounts(s.rows)
             of == {i \in D : s.rows[i].id = id}
             R == RowsOf(s, id)
             g == [r \in R |-> r.amount]
  <1>1. \A i \in D : f[i] = s.rows[i].amount /\ f[i] \in Int
    BY DEF Amounts, IsSummed, IsEstimate
  <1>2. AmountOf(s, id) = SumFunctionOnSet(g, R)
    BY DEF AmountOf, SumFunction
  <1>3. CASE of = {}
    <2>1. R = {}
      BY <1>3 DEF RowsOf
    <2>2. SumFunctionOnSet(g, R) = 0 /\ SumFunctionOnSet(f, of) = 0
      <3> HIDE DEF R, g, f, of
      <3> QED
        BY <1>3, <2>1, SumOfNone
    <2> QED
      BY <1>2, <2>2
  <1>4. CASE of # {}
    <2>1. PICK i \in D : s.rows[i].id = id
      BY <1>4
    <2> DEFINE row == s.rows[i]
    <2>2. of = {i} /\ R = {row}
      <3>1. of = {i}
        BY <2>1 DEF IdsAreUnique
      <3>2. R = {row}
        BY <2>1, <3>1 DEF RowsOf
      <3> QED
        BY <3>1, <3>2
    <2>3. g[row] = f[i] /\ f[i] \in Int
      BY <1>1, <2>2
    <2> HIDE DEF g, f, R, of, row
    <2>4. SumFunctionOnSet(g, {} \cup {row}) = g[row] + SumFunctionOnSet(g, {})
      BY <2>3, FS_EmptySet, SumAdd
    <2>5. SumFunctionOnSet(f, {} \cup {i}) = f[i] + SumFunctionOnSet(f, {})
      BY <2>3, FS_EmptySet, SumAdd
    <2>6. {} \cup {row} = R /\ {} \cup {i} = of
      BY <2>2
    <2>7. SumFunctionOnSet(g, R) = SumFunctionOnSet(f, of)
      BY <2>3, <2>4, <2>5, <2>6, SumOfNone
    <2>8. SumFunctionOnSet(f, of) = f[i]
      BY <2>3, <2>5, <2>6, SumOfNone
    <2> QED
      BY <1>2, <2>3, <2>7, <2>8 DEF f, of
  <1> QED
    BY <1>3, <1>4

\* The lines of an estimate, by their ids.
LEMMA AmountsAddUp ==
  ASSUME NEW s, IsSummed(s), IdsAreUnique(s), NEW ids, IsFiniteSet(ids), IdsOf(s) \subseteq ids,
         NEW f, f = [id \in ids |-> AmountOf(s, id)]
  PROVE  /\ SumFunctionOnSet(f, ids) = s.total
         /\ \A id \in ids : f[id] \in Int
  <1> DEFINE D == DOMAIN s.rows
             g == Amounts(s.rows)
             kind == [i \in D |-> s.rows[i].id]
  <1>1. /\ IsFiniteSet(D) /\ DOMAIN g = D /\ \A i \in D : g[i] \in Int
        /\ \A i \in D : kind[i] \in ids
    BY DEF IsSummed, IsEstimate, Amounts, IdsOf
  <1>2. s.total = SumFunctionOnSet(g, D)
    BY <1>1 DEF IsSummed, SumFunction
  <1>3. \A id \in ids : f[id] = SumFunctionOnSet(g, OfKind(kind, D, id)) /\ f[id] \in Int
    <2> SUFFICES ASSUME NEW id \in ids
                 PROVE  f[id] = SumFunctionOnSet(g, OfKind(kind, D, id)) /\ f[id] \in Int
      OBVIOUS
    <2>1. OfKind(kind, D, id) = {i \in DOMAIN s.rows : s.rows[i].id = id}
      BY DEF OfKind
    <2>2. f[id] = AmountOf(s, id)
      OBVIOUS
    <2>3. /\ AmountOf(s, id) = SumFunctionOnSet(g, {i \in DOMAIN s.rows : s.rows[i].id = id})
          /\ AmountOf(s, id) \in Int
      BY AmountIs
    <2> HIDE DEF kind, g, D
    <2> QED
      BY <2>1, <2>2, <2>3
  <1> HIDE DEF D, g, kind
  <1>4. SumFunctionOnSet(f, ids) = SumFunctionOnSet(g, D)
    BY <1>1, <1>3, SumOfKinds
  <1> QED
    BY <1>2, <1>3, <1>4

ImageOf(h, S) == {h[x] : x \in S}

\* A sum over what an injection makes of a set.
LEMMA SumOfImage ==
  ASSUME NEW S, IsFiniteSet(S), NEW h, \A x, y \in S : h[x] = h[y] => x = y,
         NEW f, NEW g, \A x \in S : f[x] \in Int /\ g[h[x]] = f[x]
  PROVE  IsFiniteSet(ImageOf(h, S)) /\ SumFunctionOnSet(g, ImageOf(h, S)) = SumFunctionOnSet(f, S)
  <1> DEFINE kind == [x \in S |-> h[x]]
             T == ImageOf(h, S)
  <1>1. IsFiniteSet(T)
    <2>1. kind \in Surjection(S, T)
      BY DEF Surjection, ImageOf
    <2> HIDE DEF kind
    <2> QED
      BY <2>1, FS_Surjection
  <1>2. ASSUME NEW t \in T
        PROVE  g[t] = SumFunctionOnSet(f, OfKind(kind, S, t))
    <2>1. PICK a \in S : h[a] = t
      BY DEF ImageOf
    <2>2. OfKind(kind, S, t) = {} \cup {a} /\ f[a] \in Int /\ g[t] = f[a]
      BY <2>1 DEF OfKind
    <2>3. SumFunctionOnSet(f, {} \cup {a}) = f[a] + SumFunctionOnSet(f, {})
      BY <2>2, FS_EmptySet, SumAdd
    <2>4. SumFunctionOnSet(f, {} \cup {a}) = f[a]
      BY <2>2, <2>3, SumOfNone
    <2> HIDE DEF kind
    <2> QED
      BY <2>2, <2>4
  <1>3. /\ \A x \in S : kind[x] \in T
        /\ \A x \in S : f[x] \in Int
    BY DEF ImageOf
  <1> HIDE DEF kind, T
  <1>4. SumFunctionOnSet(g, T) = SumFunctionOnSet(f, S)
    BY <1>1, <1>2, <1>3, SumOfKinds
  <1> QED
    BY <1>1, <1>4 DEF T

LEMMA LineChangeIs ==
  ASSUME NEW old, NEW new, NEW id
  PROVE  LET c == LineChange(old, new, id)
         IN  /\ c.id = id /\ c.old = RowsOf(old, id) /\ c.new = RowsOf(new, id)
             /\ c.delta = AmountOf(new, id) - AmountOf(old, id)
             /\ c.type = "unchanged" <=> RowsOf(old, id) = RowsOf(new, id) /\ RowsOf(old, id) # {}
  <1> DEFINE O == RowsOf(old, id)
             N == RowsOf(new, id)
  <1>1. LineChange(old, new, id)
          = [id |-> id, old |-> O, new |-> N, delta |-> AmountOf(new, id) - AmountOf(old, id),
             type |-> IF O = {} THEN "added" ELSE IF N = {} THEN "removed"
                      ELSE IF O # N THEN "modified" ELSE "unchanged"]
    BY DEF LineChange, AmountOf
  <1> HIDE DEF O, N
  <1> QED
    BY <1>1 DEF O, N

\* What is told of two estimates.
ChangesOf(old, new) == {LineChange(old, new, id) : id \in IdsOf(old) \cup IdsOf(new)}

\* The deltas make the difference of the totals, with the lines that did not change or
\* without them.
LEMMA DeltasAddUp ==
  ASSUME NEW old, NEW new, IsSummed(old), IsSummed(new), IdsAreUnique(old), IdsAreUnique(new),
         NEW all, all = ChangesOf(old, new), NEW changed, changed = {c \in all : c.type # "unchanged"}
  PROVE  /\ SumFunction([c \in all |-> c.delta]) = new.total - old.total
         /\ SumFunction([c \in changed |-> c.delta]) = new.total - old.total
  <1> DEFINE ids == IdsOf(old) \cup IdsOf(new)
             f == [id \in ids |-> AmountOf(old, id)]
             g == [id \in ids |-> AmountOf(new, id)]
             d == [id \in ids |-> g[id] - f[id]]
             h == [id \in ids |-> LineChange(old, new, id)]
             delta == [c \in all |-> c.delta]
             some == [c \in changed |-> c.delta]
  <1>1. ASSUME NEW s, IsSummed(s)
        PROVE  IsFiniteSet(IdsOf(s))
    <2> DEFINE D == DOMAIN s.rows
               k == [i \in D |-> s.rows[i].id]
               T == IdsOf(s)
    <2>1. k \in Surjection(D, T) /\ IsFiniteSet(D)
      BY <1>1 DEF Surjection, IdsOf, IsSummed, IsEstimate
    <2> HIDE DEF k, D, T
    <2>2. IsFiniteSet(T)
      BY <2>1, FS_Surjection
    <2> QED
      BY <2>2 DEF T
  <1>2. IsFiniteSet(ids)
    BY <1>1, FS_Union
  <1>3. /\ SumFunctionOnSet(f, ids) = old.total /\ \A id \in ids : f[id] \in Int
        /\ SumFunctionOnSet(g, ids) = new.total /\ \A id \in ids : g[id] \in Int
    <2> HIDE DEF f, g, ids
    <2>1. IdsOf(old) \subseteq ids /\ IdsOf(new) \subseteq ids
      BY DEF ids
    <2>2. f = [id \in ids |-> AmountOf(old, id)] /\ g = [id \in ids |-> AmountOf(new, id)]
      BY DEF f, g
    <2> QED
      BY <1>2, <2>1, <2>2, AmountsAddUp
  <1>4. /\ \A id \in ids : h[id].id = id /\ h[id].delta = d[id] /\ d[id] = g[id] - f[id]
        /\ all = {h[id] : id \in ids}
    <2>1. \A id \in ids : h[id] = LineChange(old, new, id) /\ f[id] = AmountOf(old, id) /\ g[id] = AmountOf(new, id)
      OBVIOUS
    <2>2. all = {h[id] : id \in ids}
      BY DEF ChangesOf
    <2>3. \A id \in ids : d[id] = g[id] - f[id]
      OBVIOUS
    <2> HIDE DEF h, f, g, ids, d
    <2> QED
      BY <2>1, <2>2, <2>3, LineChangeIs
  <1>5. \A c \in all : delta[c] = c.delta
    OBVIOUS
  <1> HIDE DEF h, f, g, ids, d, delta
  <1>6. \A id \in ids : d[id] \in Int /\ delta[h[id]] = d[id]
    BY <1>3, <1>4, <1>5
  <1>7. SumFunctionOnSet(d, ids) = new.total - old.total
    BY <1>2, <1>3, <1>4, SumOfDifferences
  <1>8. IsFiniteSet(all) /\ SumFunctionOnSet(delta, all) = SumFunctionOnSet(d, ids)
    <2>1. \A x, y \in ids : h[x] = h[y] => x = y
      BY <1>4
    <2>2. all = ImageOf(h, ids)
      BY <1>4 DEF ImageOf
    <2>3. IsFiniteSet(ImageOf(h, ids)) /\ SumFunctionOnSet(delta, ImageOf(h, ids)) = SumFunctionOnSet(d, ids)
      BY <1>2, <1>6, <2>1, SumOfImage
    <2> QED
      BY <2>2, <2>3
  <1>9. ASSUME NEW c \in all \ changed
        PROVE  delta[c] = 0
    <2>1. PICK id \in ids : c = LineChange(old, new, id)
      BY DEF ChangesOf, ids
    <2>2. RowsOf(old, id) = RowsOf(new, id)
      BY <1>9, <2>1, LineChangeIs
    <2>3. AmountOf(old, id) = AmountOf(new, id)
      BY <2>2 DEF AmountOf
    <2>4. AmountOf(new, id) \in Int
      BY AmountIs
    <2>5. c.delta = AmountOf(new, id) - AmountOf(old, id)
      BY <2>1, LineChangeIs
    <2> QED
      BY <1>5, <2>3, <2>4, <2>5
  <1>10. SumFunctionOnSet(delta, all) = SumFunctionOnSet(delta, changed)
    <2>1. \A c \in all : delta[c] \in Int
      BY <1>4, <1>6
    <2>2. changed \in SUBSET all
      OBVIOUS
    <2> QED
      BY <1>8, <1>9, <2>1, <2>2, SumOfSome
  <1>11. SumFunctionOnSet(some, changed) = SumFunctionOnSet(delta, changed)
    <2>1. \A c \in changed : delta[c] \in Int /\ some[c] = delta[c]
      BY <1>4, <1>5, <1>6
    <2>2. IsFiniteSet(changed)
      BY <1>8, FS_Subset
    <2> HIDE DEF some
    <2> QED
      BY <2>1, <2>2, SumSame
  <1> QED
    BY <1>7, <1>8, <1>10, <1>11 DEF SumFunction, delta

\* The lines that a structured estimate and a revision add up to, for any estimates
\* and profiles. (structure_estimate, compare_estimates)
THEOREM EstimatesAddUp ==
  ASSUME NEW estimate, IsEstimate(estimate.lines), NEW later, IsEstimate(later.lines), NEW profile, NEW other
  PROVE  RevisionAddsUp(estimate.lines, StructureEstimate(estimate, profile), StructureEstimate(later, other))
  <1> DEFINE old == StructureEstimate(estimate, profile)
             new == StructureEstimate(later, other)
             all == ChangesOf(old, new)
  <1>1. /\ IsSummed(old) /\ IsSummed(new) /\ old.total = SumFunction(Amounts(estimate.lines))
        /\ old.total = SumFunction(old.sections)
    BY StructuredIsSummed DEF StructureEstimate
  <1>2. old.total \in Int /\ new.total \in Int
    <2>1. ASSUME NEW s, IsSummed(s)
          PROVE  s.total \in Int
      <3>1. /\ s.total = SumFunctionOnSet(Amounts(s.rows), DOMAIN s.rows) /\ IsFiniteSet(DOMAIN s.rows)
            /\ \A i \in DOMAIN s.rows : Amounts(s.rows)[i] \in Int
        BY <2>1 DEF IsSummed, IsEstimate, SumFunction, Amounts
      <3> QED
        BY <3>1, SumIsInt
    <2> QED
      BY <1>1, <2>1
  <1> HIDE DEF old, new
  <1>3. ASSUME NEW r \in CompareEstimates(old, new, TRUE)
        PROVE  r.currentTotal = r.previousTotal + SumFunction([c \in r.changes |-> c.delta])
    <2>1. /\ IdsAreUnique(old) /\ IdsAreUnique(new)
          /\ r.changes = all /\ r.previousTotal = old.total /\ r.currentTotal = new.total
      BY <1>3 DEF CompareEstimates, Revision, ChangesOf, MayCompare
    <2>2. SumFunction([c \in all |-> c.delta]) = new.total - old.total
      <3> HIDE DEF all
      <3> QED
        BY <1>1, <2>1, DeltasAddUp DEF all
    <2> QED
      BY <1>2, <2>1, <2>2
  <1> QED
    BY <1>1, <1>3 DEF RevisionAddsUp, Amounts, old, new

\* A revision says every change, and two estimates are refused only where the code says
\* so: the deltas always reconcile. (compare_estimates)
THEOREM RevisionsSayAll ==
  ASSUME NEW old, IsSummed(old), NEW new, IsSummed(new),
         NEW comparable, comparable <=> /\ old.project = new.project /\ old.baseline = new.baseline
                                        /\ old.currency = new.currency
  PROVE  RevisionSaysAll(old, new, comparable)
  <1> DEFINE ids == IdsOf(old) \cup IdsOf(new)
             all == ChangesOf(old, new)
             changed == {c \in all : c.type # "unchanged"}
             told(b) == IF b THEN all ELSE changed
             rows(s) == Range(s.rows)
  <1>1. CASE MayCompare(old, new)
    <2>1. comparable /\ IdsAreUnique(old) /\ IdsAreUnique(new)
      BY <1>1 DEF MayCompare
    <2>2. SumFunction([c \in changed |-> c.delta]) = new.total - old.total
      <3> HIDE DEF all
      <3> QED
        BY <2>1, DeltasAddUp DEF all
    <2>3. \A b \in BOOLEAN : \A r : r \in CompareEstimates(old, new, b) =>
             r = [changes |-> told(b), previousTotal |-> old.total, currentTotal |-> new.total,
                  delta |-> new.total - old.total]
      BY DEF CompareEstimates, Revision, ChangesOf
    <2>4. \A b \in BOOLEAN : \E r \in CompareEstimates(old, new, b) : r.changes = told(b)
      BY <1>1, <2>2 DEF CompareEstimates, Revision, ChangesOf
    <2>5. \A c : c \in all <=> \E id \in ids : c = LineChange(old, new, id)
      BY DEF ChangesOf
    <2>6. ASSUME NEW b \in BOOLEAN
          PROVE  rows(new) = (rows(old) \ UNION {c.old : c \in told(b)}) \cup UNION {c.new : c \in told(b)}
      <3> DEFINE O == UNION {c.old : c \in told(b)}
                 N == UNION {c.new : c \in told(b)}
                 is(id) == LineChange(old, new, id)
      <3>1. \A x : x \in O <=> \E c \in told(b) : x \in c.old
        OBVIOUS
      <3>2. \A x : x \in N <=> \E c \in told(b) : x \in c.new
        OBVIOUS
      <3>3. \A c \in told(b) : \E id \in ids : c = is(id)
        BY <2>5
      <3>4. \A id \in ids : is(id) \in told(b) \/ is(id).type = "unchanged"
        BY <2>5
      <3> HIDE DEF O, N, told, is, ids
      <3>5. \A id, x : x \in is(id).old <=> x \in rows(old) /\ x.id = id
        BY LineChangeIs, RowsAre DEF is
      <3>6. \A id, x : x \in is(id).new <=> x \in rows(new) /\ x.id = id
        BY LineChangeIs, RowsAre DEF is
      <3>7. \A id : is(id).id = id /\ (is(id).type = "unchanged" => is(id).old = is(id).new)
        BY LineChangeIs DEF is
      <3>8. \A s : \A x \in rows(s) : x.id \in IdsOf(s)
        BY DEF IdsOf, Range
      <3>9. ASSUME NEW x \in rows(new)
            PROVE  x \in (rows(old) \ O) \cup N
        <4>1. x.id \in ids
          BY <3>8 DEF ids
        <4>2. CASE is(x.id) \in told(b)
          BY <3>2, <3>6, <4>2
        <4>3. CASE is(x.id) \notin told(b)
          <5>1. is(x.id).type = "unchanged"
            BY <3>4, <4>1, <4>3
          <5>2. x \in rows(old)
            BY <3>5, <3>6, <3>7, <5>1
          <5>3. x \notin O
            <6> SUFFICES ASSUME NEW c \in told(b), x \in c.old PROVE FALSE
              BY <3>1
            <6>1. PICK id \in ids : c = is(id)
              BY <3>3
            <6>2. id = x.id
              BY <3>5, <6>1
            <6> QED
              BY <4>3, <6>1, <6>2
          <5> QED
            BY <5>2, <5>3
        <4> QED
          BY <4>2, <4>3
      <3>10. ASSUME NEW x \in rows(old), x \notin O
             PROVE  x \in rows(new)
        <4>1. x.id \in ids
          BY <3>8 DEF ids
        <4>2. is(x.id) \notin told(b)
          BY <3>1, <3>5, <3>10
        <4>3. is(x.id).type = "unchanged"
          BY <3>4, <4>1, <4>2
        <4> QED
          BY <3>5, <3>6, <3>7, <4>3
      <3>11. \A x \in N : x \in rows(new)
        BY <3>2, <3>3, <3>6
      <3>12. rows(new) = (rows(old) \ O) \cup N
        BY <3>9, <3>10, <3>11
      <3> QED
        BY <3>12 DEF O, N
    <2>7. ASSUME NEW b \in BOOLEAN
          PROVE  {c.id : c \in {d \in told(b) : d.type = "unchanged"}}
                   = IF b THEN {l.id : l \in rows(old) \cap rows(new)} ELSE {}
      <3>1. CASE b
        <4>1. ASSUME NEW c \in all, c.type = "unchanged"
              PROVE  \E l \in rows(old) \cap rows(new) : l.id = c.id
          <5>1. PICK id \in ids : c = LineChange(old, new, id)
            BY <2>5
          <5>2. RowsOf(old, id) = RowsOf(new, id) /\ RowsOf(old, id) # {} /\ c.id = id
            BY <4>1, <5>1, LineChangeIs
          <5>3. PICK l : l \in RowsOf(old, id)
            BY <5>2
          <5> QED
            BY <5>2, <5>3, RowsAre
        <4>2. ASSUME NEW l \in rows(old) \cap rows(new)
              PROVE  \E c \in all : c.type = "unchanged" /\ c.id = l.id
          <5> DEFINE c == LineChange(old, new, l.id)
          <5>1. RowsOf(old, l.id) = {l} /\ RowsOf(new, l.id) = {l}
            BY <2>1, RowsOfOne
          <5>2. l.id \in ids
            BY DEF IdsOf, Range
          <5>3. c.type = "unchanged" /\ c.id = l.id
            <6>1. RowsOf(old, l.id) = RowsOf(new, l.id) /\ RowsOf(old, l.id) # {}
              BY <5>1
            <6> QED
              BY <6>1, LineChangeIs
          <5> HIDE DEF c
          <5>4. c \in all
            BY <2>5, <5>2 DEF c
          <5> QED
            BY <5>3, <5>4
        <4> HIDE DEF all, rows
        <4> QED
          BY <3>1, <4>1, <4>2
      <3>2. CASE ~ b
        BY <3>2
      <3> QED
        BY <3>1, <3>2
    <2> HIDE DEF told
    <2>8. \A b \in BOOLEAN : \E r \in CompareEstimates(old, new, b) :
             /\ rows(new) = (rows(old) \ UNION {c.old : c \in r.changes}) \cup UNION {c.new : c \in r.changes}
             /\ {c.id : c \in {d \in r.changes : d.type = "unchanged"}}
                  = IF b THEN {l.id : l \in rows(old) \cap rows(new)} ELSE {}
      <3> SUFFICES ASSUME NEW b \in BOOLEAN
                   PROVE  \E r \in CompareEstimates(old, new, b) :
             /\ rows(new) = (rows(old) \ UNION {c.old : c \in r.changes}) \cup UNION {c.new : c \in r.changes}
             /\ {c.id : c \in {d \in r.changes : d.type = "unchanged"}}
                  = IF b THEN {l.id : l \in rows(old) \cap rows(new)} ELSE {}
        OBVIOUS
      <3>1. PICK r \in CompareEstimates(old, new, b) : r.changes = told(b)
        BY <2>4
      <3> WITNESS r \in CompareEstimates(old, new, b)
      <3> QED
        BY <2>6, <2>7, <3>1
    <2> QED
      BY <2>1, <2>8 DEF RevisionSaysAll
  <1>2. CASE ~ MayCompare(old, new)
    <2>1. CompareEstimates(old, new, TRUE) = {}
      BY <1>2 DEF CompareEstimates, Revision
    <2>2. ~ (comparable /\ IdsAreUnique(old) /\ IdsAreUnique(new))
      BY <1>2 DEF MayCompare
    <2> QED
      BY <2>1, <2>2 DEF RevisionSaysAll
  <1> QED
    BY <1>1, <1>2

\* A number and those below it, counted.
Rank(x, all) == 1 + Cardinality({y \in all : y < x})

LEMMA RankIs ==
  ASSUME NEW S, IsFiniteSet(S), S \subseteq Int
  PROVE  /\ \A x \in S : Rank(x, S) \in Int /\ Rank(x, S) >= 1
         /\ \A x, y \in S : Rank(x, S) = Rank(y, S) => x = y
         /\ \A x \in S : Rank(x, S) > 1 => \E y \in S : Rank(y, S) = Rank(x, S) - 1
  <1> DEFINE number == [x \in S |-> x]
             rank == [x \in S |-> Cardinality({y \in S : y < x})]
  <1>1. number \in [S -> Int] /\ IsInjective(number)
    BY DEF IsInjective
  <1>2. /\ rank = [x \in S |-> rank[x]]
        /\ \A x \in S : rank[x] = Cardinality({y \in S : number[y] < number[x]})
    <2>1. \A x \in S : {y \in S : y < x} = {y \in S : number[y] < number[x]}
      OBVIOUS
    <2> QED
      BY <2>1
  <1>3. \A x \in S : Rank(x, S) = 1 + rank[x]
    BY DEF Rank
  <1> HIDE DEF number, rank
  <1>4. /\ Cardinality(S) \in Nat /\ \A x \in S : rank[x] \in Int
        /\ \A i \in 1 .. Cardinality(S) : \E x \in S : rank[x] = i - 1
        /\ \A x \in S : rank[x] + 1 \in 1 .. Cardinality(S)
        /\ \A x, y \in S : rank[x] = rank[y] => x = y
    BY <1>1, <1>2, Ranked
  <1>5. \A x \in S : Rank(x, S) \in Int /\ Rank(x, S) >= 1
    BY <1>3, <1>4
  <1>6. \A x, y \in S : Rank(x, S) = Rank(y, S) => x = y
    BY <1>3, <1>4
  <1>7. ASSUME NEW x \in S, Rank(x, S) > 1
        PROVE  \E y \in S : Rank(y, S) = Rank(x, S) - 1
    <2>1. rank[x] \in 1 .. Cardinality(S)
      BY <1>3, <1>4, <1>7
    <2>2. PICK y \in S : rank[y] = rank[x] - 1
      BY <1>4, <2>1
    <2>3. Rank(y, S) = Rank(x, S) - 1
      BY <1>3, <1>4, <2>2
    <2> QED
      BY <2>3
  <1> QED
    BY <1>5, <1>6, <1>7

\* Lines of one place, by their ids and where they stand in the estimate.
Ahead(lines, T, i) ==
    {j \in T : lines[j].id < lines[i].id \/ (lines[j].id = lines[i].id /\ j < i)}

LEMMA AheadIs ==
  ASSUME NEW lines, NEW T, IsFiniteSet(T), T \subseteq Int, \A i \in T : lines[i].id \in Int
  PROVE  /\ \A i \in T : Cardinality(Ahead(lines, T, i)) \in Int
         /\ \A i, j \in T : Cardinality(Ahead(lines, T, i)) = Cardinality(Ahead(lines, T, j)) => i = j
         /\ \A i \in T : 1 + Cardinality(Ahead(lines, T, i)) > 1 =>
               \E j \in T : Cardinality(Ahead(lines, T, j)) = Cardinality(Ahead(lines, T, i)) - 1
  <1> DEFINE before == {p \in T \X T : \/ lines[p[1]].id < lines[p[2]].id
                                       \/ lines[p[1]].id = lines[p[2]].id /\ p[1] < p[2]}
             rank == [i \in T |-> Cardinality(Below(before, T, i))]
  <1>1. \A i, j \in T : <<i, j>> \in before <=> \/ lines[i].id < lines[j].id
                                                \/ lines[i].id = lines[j].id /\ i < j
    OBVIOUS
  <1> HIDE DEF before
  <1>2. IsOrder(before, T)
    BY <1>1 DEF IsOrder
  <1>3. \A i \in T : Ahead(lines, T, i) = Below(before, T, i)
    BY <1>1 DEF Ahead, Below
  <1>4. IsRanking(T, rank)
    BY <1>2, RankedBy
  <1>5. \A i \in T : rank[i] = Cardinality(Ahead(lines, T, i))
    BY <1>3
  <1> HIDE DEF rank
  <1>6. /\ Cardinality(T) \in Nat /\ \A x \in T : rank[x] \in Int
        /\ \A i \in 1 .. Cardinality(T) : \E x \in T : rank[x] = i - 1
        /\ \A x \in T : rank[x] + 1 \in 1 .. Cardinality(T)
        /\ \A x, y \in T : rank[x] = rank[y] => x = y
    BY <1>4 DEF IsRanking
  <1>7. ASSUME NEW i \in T, 1 + rank[i] > 1
        PROVE  \E j \in T : rank[j] = rank[i] - 1
    <2>1. rank[i] \in 1 .. Cardinality(T)
      BY <1>6, <1>7
    <2> QED
      BY <1>6, <2>1
  <1> QED
    BY <1>5, <1>6, <1>7

Places == [section : Int, group : Int]

\* A profile whose rules can be put into an order.
IsProfile(profile) ==
    /\ IsFiniteSet(profile.rules) /\ profile.fallback \in Places
    /\ \A r \in profile.rules : r.id \in Int /\ r.priority \in Int /\ r.place \in Places
    /\ \A r, s \in profile.rules : r.id = s.id /\ r.priority = s.priority => r = s

LEMMA SelectIs ==
  ASSUME NEW profile, IsProfile(profile), NEW line
  PROVE  Select(line, profile) \in Places
  <1> DEFINE hits == {r \in profile.rules : Matches(line, r)}
             P == {T \in SUBSET hits : T = {} \/ \E r \in T : \A s \in T \ {r} : Precedes(r, s)}
             first == CHOOSE r \in hits : \A s \in hits \ {r} : Precedes(r, s)
  <1>1. hits \subseteq profile.rules /\ IsFiniteSet(hits)
    BY FS_Subset DEF IsProfile
  <1>2. /\ \A r, s \in hits : r # s => Precedes(r, s) \/ Precedes(s, r)
        /\ \A r, s, t \in hits : Precedes(r, s) /\ Precedes(s, t) => Precedes(r, t)
    BY DEF IsProfile, Precedes
  <1>3. Select(line, profile) = IF hits = {} THEN profile.fallback ELSE first.place
    BY DEF Select
  <1> HIDE DEF hits
  <1>4. hits \in P
    <2>1. {} \in P
      OBVIOUS
    <2>2. ASSUME NEW T \in SUBSET hits, NEW x \in hits \ T, T \in P
          PROVE  T \cup {x} \in P
      <3>1. CASE T = {}
        BY <3>1
      <3>2. CASE T # {}
        <4>1. PICK r \in T : \A s \in T \ {r} : Precedes(r, s)
          BY <2>2, <3>2
        <4>2. CASE Precedes(r, x)
          BY <4>1, <4>2
        <4>3. CASE Precedes(x, r)
          BY <1>2, <4>1, <4>3
        <4> QED
          BY <1>2, <4>2, <4>3
      <3> QED
        BY <3>1, <3>2
    <2> HIDE DEF P
    <2> QED
      BY <1>1, <2>1, <2>2, InductSet
  <1>5. hits # {} => first \in hits
    BY <1>4
  <1> HIDE DEF first
  <1> QED
    BY <1>1, <1>3, <1>5 DEF IsProfile

\* Where the lines of an estimate stand: the section, the group in it and the number
\* there, each told by the rank of what a rule selected.
PlaceOf(lines, profile) == [i \in DOMAIN lines |-> Select(lines[i], profile)]
SectionsOf(place) == {place[i].section : i \in DOMAIN place}
GroupsOf(place, s) == {place[i].group : i \in {j \in DOMAIN place : place[j].section = s}}
MatesOf(place, i) == {j \in DOMAIN place : place[j] = place[i]}

LEMMA PositionIs ==
  ASSUME NEW estimate, NEW profile, NEW i \in DOMAIN estimate.lines
  PROVE  LET place == PlaceOf(estimate.lines, profile)
             position == StructureEstimate(estimate, profile).rows[i].position
         IN  /\ position[1] = Rank(place[i].section, SectionsOf(place))
             /\ position[2] = Rank(place[i].group, GroupsOf(place, place[i].section))
             /\ position[3] = 1 + Cardinality(Ahead(estimate.lines, MatesOf(place, i), i))
  <1> DEFINE lines == estimate.lines
             place == PlaceOf(lines, profile)
             position == Positions(estimate, profile)
             ahead == {j \in DOMAIN lines :
                         /\ place[j] = place[i]
                         /\ lines[j].id < lines[i].id \/ (lines[j].id = lines[i].id /\ j < i)}
  <1>1. StructureEstimate(estimate, profile).rows[i].position = position[i]
    BY DEF StructureEstimate, Structured
  <1>2. ahead = Ahead(lines, MatesOf(place, i), i) /\ DOMAIN place = DOMAIN lines
    <2>1. DOMAIN place = DOMAIN lines
      BY DEF PlaceOf
    <2> HIDE DEF place, lines
    <2>2. ahead = Ahead(lines, MatesOf(place, i), i)
      BY SMTT(30), <2>1 DEF Ahead, MatesOf
    <2> QED
      BY <2>1, <2>2
  <1>3. position[i] = <<Rank(place[i].section, SectionsOf(place)),
                        Rank(place[i].group, GroupsOf(place, place[i].section)), 1 + Cardinality(ahead)>>
    BY DEF Positions, Rank, SectionsOf, GroupsOf, PlaceOf
  <1> HIDE DEF ahead, position
  <1> QED
    BY <1>1, <1>2, <1>3

LEMMA ImagesAreFinite ==
  ASSUME NEW D, IsFiniteSet(D), NEW f, DOMAIN f = D, \A i \in D : f[i] \in Int
  PROVE  IsFiniteSet({f[i] : i \in D}) /\ {f[i] : i \in D} \subseteq Int
  <1> DEFINE g == [i \in D |-> f[i]]
  <1>1. g \in Surjection(D, {f[i] : i \in D})
    BY DEF Surjection
  <1>2. IsFiniteSet({f[i] : i \in D})
    <2> HIDE DEF g
    <2> QED
      BY <1>1, FS_Surjection
  <1> QED
    BY <1>2

LEMMA PlacesAre ==
  ASSUME NEW place, IsFiniteSet(DOMAIN place), \A i \in DOMAIN place : place[i] \in Places
  PROVE  /\ IsFiniteSet(SectionsOf(place)) /\ SectionsOf(place) \subseteq Int
         /\ \A s : IsFiniteSet(GroupsOf(place, s)) /\ GroupsOf(place, s) \subseteq Int
         /\ \A i \in DOMAIN place : /\ place[i].section \in SectionsOf(place)
                                    /\ place[i].group \in GroupsOf(place, place[i].section)
         /\ \A i \in DOMAIN place : IsFiniteSet(MatesOf(place, i))
  <1> DEFINE D == DOMAIN place
             section == [i \in D |-> place[i].section]
  <1>1. \A i \in D : place[i].section \in Int /\ place[i].group \in Int
    BY DEF Places
  <1>2. IsFiniteSet(SectionsOf(place)) /\ SectionsOf(place) \subseteq Int
    <2>1. DOMAIN section = D /\ \A i \in D : section[i] \in Int
      BY <1>1
    <2>2. SectionsOf(place) = {section[i] : i \in D}
      BY DEF SectionsOf
    <2> HIDE DEF section, D
    <2>3. IsFiniteSet(D)
      BY DEF D
    <2> QED
      BY <2>1, <2>2, <2>3, ImagesAreFinite
  <1>3. ASSUME NEW s
        PROVE  IsFiniteSet(GroupsOf(place, s)) /\ GroupsOf(place, s) \subseteq Int
    <2> DEFINE E == {j \in D : place[j].section = s}
               group == [i \in E |-> place[i].group]
    <2>1. DOMAIN group = E /\ \A i \in E : group[i] \in Int
      BY <1>1
    <2>2. GroupsOf(place, s) = {group[i] : i \in E}
      BY DEF GroupsOf
    <2>3. IsFiniteSet(E)
      BY FS_Subset
    <2> HIDE DEF group, E
    <2> QED
      BY <2>1, <2>2, <2>3, ImagesAreFinite
  <1>4. \A i \in D : IsFiniteSet(MatesOf(place, i))
    BY FS_Subset DEF MatesOf
  <1>5. \A i \in D : place[i].section \in SectionsOf(place) /\ place[i].group \in GroupsOf(place, place[i].section)
    BY DEF SectionsOf, GroupsOf
  <1> QED
    BY <1>2, <1>3, <1>4, <1>5

\* The position of every line of an estimate tells exactly where it is: lines are in one
\* group when the profile placed them together, no two lines have one number there, and
\* sections, groups and lines are counted without a gap, whatever rules the profile has
\* and whichever lines have one id. (structure_estimate)
THEOREM EstimatesAreInPlace ==
  ASSUME NEW estimate, IsFiniteSet(DOMAIN estimate.lines), DOMAIN estimate.lines \subseteq Int,
         \A i \in DOMAIN estimate.lines : estimate.lines[i].id \in Int,
         NEW profile, IsProfile(profile)
  PROVE  PlacesAreWhole(estimate.lines, profile, StructureEstimate(estimate, profile))
  <1> DEFINE lines == estimate.lines
             D == DOMAIN lines
             place == PlaceOf(lines, profile)
             rows == StructureEstimate(estimate, profile).rows
             at(i) == rows[i].position
             same(i, j, k) == \A m \in 1 .. k : at(i)[m] = at(j)[m]
             mates(i) == MatesOf(place, i)
             S == SectionsOf(place)
             G(s) == GroupsOf(place, s)
  <1>1. DOMAIN rows = D /\ DOMAIN place = D /\ IsFiniteSet(D) /\ D \subseteq Int
    BY DEF StructureEstimate, Structured, PlaceOf
  <1>2. \A i \in D : place[i] = Select(lines[i], profile) /\ place[i] \in Places
    BY SelectIs DEF PlaceOf
  <1>3. \A i \in D : /\ at(i)[1] = Rank(place[i].section, S)
                     /\ at(i)[2] = Rank(place[i].group, G(place[i].section))
                     /\ at(i)[3] = 1 + Cardinality(Ahead(lines, mates(i), i))
    BY PositionIs
  <1> HIDE DEF place
  <1>4. /\ IsFiniteSet(S) /\ S \subseteq Int
        /\ \A s : IsFiniteSet(G(s)) /\ G(s) \subseteq Int
        /\ \A i \in D : place[i].section \in S /\ place[i].group \in G(place[i].section)
        /\ \A i \in D : IsFiniteSet(mates(i))
    BY <1>1, <1>2, PlacesAre
  <1>5. \A i \in D : /\ i \in mates(i) /\ mates(i) \subseteq D
                     /\ \A j \in D : j \in mates(i) <=> place[j] = place[i]
                     /\ \A j \in mates(i) : mates(j) = mates(i)
    BY <1>1 DEF MatesOf
  <1>6. \A i, j \in D : place[i] = place[j] <=> place[i].section = place[j].section /\ place[i].group = place[j].group
    BY <1>2 DEF Places
  <1>7. \A s \in S : \E i \in D : place[i].section = s
    BY <1>1 DEF SectionsOf
  <1>8. \A s : \A g \in G(s) : \E i \in D : place[i].section = s /\ place[i].group = g
    BY <1>1 DEF GroupsOf
  <1>9. \A i \in D : lines[i].id \in Int
    OBVIOUS
  <1> HIDE DEF rows, S, G, mates, D
  <1>10. /\ \A i, j \in D : same(i, j, 0)
         /\ \A i, j \in D : same(i, j, 1) <=> at(i)[1] = at(j)[1]
         /\ \A i, j \in D : same(i, j, 2) <=> at(i)[1] = at(j)[1] /\ at(i)[2] = at(j)[2]
         /\ \A i, j \in D : same(i, j, 3) <=> at(i)[1] = at(j)[1] /\ at(i)[2] = at(j)[2] /\ at(i)[3] = at(j)[3]
    <2> HIDE DEF at
    <2>1. 1 .. 0 = {} /\ 1 .. 1 = {1} /\ 1 .. 2 = {1, 2} /\ 1 .. 3 = {1, 2, 3}
      OBVIOUS
    <2> QED
      BY <2>1
  <1> HIDE DEF at, same
  <1>11. /\ \A x, y \in S : Rank(x, S) = Rank(y, S) => x = y
         /\ \A x \in S : Rank(x, S) > 1 => \E y \in S : Rank(y, S) = Rank(x, S) - 1
    BY <1>4, RankIs
  <1>12. ASSUME NEW s
         PROVE  /\ \A x, y \in G(s) : Rank(x, G(s)) = Rank(y, G(s)) => x = y
                /\ \A x \in G(s) : Rank(x, G(s)) > 1 => \E y \in G(s) : Rank(y, G(s)) = Rank(x, G(s)) - 1
    BY <1>4, RankIs
  <1>13. ASSUME NEW i \in D
         PROVE  /\ \A j \in mates(i) : Cardinality(Ahead(lines, mates(i), j)) \in Int
                /\ \A j, k \in mates(i) :
                      Cardinality(Ahead(lines, mates(i), j)) = Cardinality(Ahead(lines, mates(i), k)) => j = k
                /\ \A j \in mates(i) : 1 + Cardinality(Ahead(lines, mates(i), j)) > 1 =>
                      \E k \in mates(i) : Cardinality(Ahead(lines, mates(i), k))
                                            = Cardinality(Ahead(lines, mates(i), j)) - 1
    <2>1. /\ IsFiniteSet(mates(i)) /\ mates(i) \subseteq Int
          /\ \A j \in mates(i) : lines[j].id \in Int
      BY <1>1, <1>4, <1>5, <1>9
    <2> QED
      BY <2>1, AheadIs
  <1>14. ASSUME NEW i \in D, NEW j \in D
         PROVE  same(i, j, 1) <=> place[i].section = place[j].section
    <2>1. at(i)[1] = Rank(place[i].section, S) /\ at(j)[1] = Rank(place[j].section, S)
      BY <1>3
    <2>2. Rank(place[i].section, S) = Rank(place[j].section, S) => place[i].section = place[j].section
      BY <1>4, <1>11
    <2> QED
      BY <1>10, <2>1, <2>2
  <1>15. \A i, j \in D : same(i, j, 2) <=> place[i] = place[j]
    BY <1>3, <1>4, <1>6, <1>10, <1>12, <1>14
  <1>16. \A i, j \in D : same(i, j, 3) <=> i = j
    <2> SUFFICES ASSUME NEW i \in D, NEW j \in D
                 PROVE  same(i, j, 3) <=> i = j
      OBVIOUS
    <2>1. i = j => same(i, j, 3)
      BY <1>10
    <2>2. ASSUME same(i, j, 3)
          PROVE  i = j
      <3>1. same(i, j, 2) /\ at(i)[3] = at(j)[3]
        BY <1>10, <2>2
      <3>2. j \in mates(i) /\ mates(j) = mates(i) /\ i \in mates(i)
        BY <1>5, <1>15, <3>1
      <3>3. 1 + Cardinality(Ahead(lines, mates(i), i)) = 1 + Cardinality(Ahead(lines, mates(i), j))
        BY <1>3, <3>1, <3>2
      <3>4. Cardinality(Ahead(lines, mates(i), i)) = Cardinality(Ahead(lines, mates(i), j))
        BY <1>13, <3>2, <3>3
      <3> QED
        BY <1>13, <3>2, <3>4
    <2> QED
      BY <2>1, <2>2
  <1>17. ASSUME NEW i \in D, at(i)[1] > 1
         PROVE  \E j \in D : same(i, j, 0) /\ at(j)[1] = at(i)[1] - 1
    <2>1. PICK s \in S : Rank(s, S) = Rank(place[i].section, S) - 1
      BY <1>3, <1>4, <1>11, <1>17
    <2>2. PICK j \in D : place[j].section = s
      BY <1>7
    <2> QED
      BY <1>3, <1>10, <2>1, <2>2
  <1>18. ASSUME NEW i \in D, at(i)[2] > 1
         PROVE  \E j \in D : same(i, j, 1) /\ at(j)[2] = at(i)[2] - 1
    <2> DEFINE s == place[i].section
    <2>1. PICK g \in G(s) : Rank(g, G(s)) = Rank(place[i].group, G(s)) - 1
      BY <1>3, <1>4, <1>12, <1>18
    <2>2. PICK j \in D : place[j].section = s /\ place[j].group = g
      BY <1>8
    <2> QED
      BY <1>3, <1>14, <2>1, <2>2
  <1>19. ASSUME NEW i \in D, at(i)[3] > 1
         PROVE  \E j \in D : same(i, j, 2) /\ at(j)[3] = at(i)[3] - 1
    <2>1. i \in mates(i) /\ 1 + Cardinality(Ahead(lines, mates(i), i)) > 1
      BY <1>3, <1>5, <1>19
    <2>2. PICK j \in mates(i) : Cardinality(Ahead(lines, mates(i), j)) = Cardinality(Ahead(lines, mates(i), i)) - 1
      BY <1>13, <2>1
    <2>3. j \in D /\ place[j] = place[i] /\ mates(j) = mates(i)
      BY <1>5, <2>2
    <2>4. at(j)[3] = 1 + Cardinality(Ahead(lines, mates(i), j)) /\ at(i)[3] = 1 + Cardinality(Ahead(lines, mates(i), i))
      BY <1>3, <2>3
    <2>5. at(j)[3] = at(i)[3] - 1
      BY <1>13, <2>1, <2>2, <2>4
    <2> QED
      BY <1>15, <2>3, <2>5
  <1>20. \A i \in D, k \in 1 .. 3 : at(i)[k] > 1 => \E j \in D : same(i, j, k - 1) /\ at(j)[k] = at(i)[k] - 1
    <2> SUFFICES ASSUME NEW i \in D, NEW k \in 1 .. 3, at(i)[k] > 1
                 PROVE  \E j \in D : same(i, j, k - 1) /\ at(j)[k] = at(i)[k] - 1
      OBVIOUS
    <2>1. CASE k = 1
      BY <1>17, <2>1
    <2>2. CASE k = 2
      BY <1>18, <2>2
    <2>3. CASE k = 3
      BY <1>19, <2>3
    <2> QED
      BY <2>1, <2>2, <2>3
  <1>21. \A i, j \in D : same(i, j, 2) <=> Select(lines[i], profile) = Select(lines[j], profile)
    BY <1>2, <1>15
  <1> QED
    BY <1>1, <1>16, <1>20, <1>21 DEF PlacesAreWhole, same, at, rows, D
-----------------------------------------------------------------------------
(* ROUNDING                                                                 *)

\* A number is never further from what it is rounded to than half a step.
LEMMA DivIs ==
  ASSUME NEW a \in Int, NEW b \in Int, b > 0
  PROVE  a \div b \in Int /\ b * (a \div b) <= a /\ a < b * (a \div b) + b
  BY SMT

LEMMA HalfUpIs ==
  ASSUME NEW a \in Int, NEW b \in Int, b > 0
  PROVE  /\ HalfUp(a, b) \in Int
         /\ 2 * (b * HalfUp(a, b)) - 2 * a <= b
         /\ 2 * a - 2 * (b * HalfUp(a, b)) <= b
  <1> DEFINE c == IF a < 0 THEN -a ELSE a
             q == (2 * c + b) \div (2 * b)
  <1>1. c \in Int /\ 2 * c + b \in Int /\ 2 * b \in Int /\ 2 * b > 0
    OBVIOUS
  <1>2. q \in Int /\ (2 * b) * q <= 2 * c + b /\ 2 * c + b < (2 * b) * q + 2 * b
    <2> HIDE DEF c
    <2> QED
      BY <1>1, DivIs
  <1>3. HalfUp(a, b) = IF a < 0 THEN -q ELSE q
    BY DEF HalfUp
  <1> HIDE DEF q
  <1>4. (2 * b) * q = 2 * (b * q) /\ b * (-q) = -(b * q) /\ b * q \in Int
    BY <1>2
  <1> QED
    BY <1>2, <1>3, <1>4

LEMMA RoundedIs ==
  ASSUME NEW a \in Int, NEW b \in Int, b > 0
  PROVE  /\ Rounded(a, b) \in Int
         /\ 2 * (b * Rounded(a, b)) - 2 * a <= b
         /\ 2 * a - 2 * (b * Rounded(a, b)) <= b
  <1> DEFINE q == a \div b
             r == a % b
  <1>1. q \in Int /\ r \in Int /\ 0 <= r /\ r < b /\ a = b * q + r
    BY SMT
  <1>2. \/ Rounded(a, b) = q + 1 /\ 2 * r >= b
        \/ Rounded(a, b) = q /\ 2 * r <= b
    BY <1>1 DEF Rounded
  <1> HIDE DEF q, r
  <1>3. b * q \in Int /\ b * (q + 1) = b * q + b
    BY <1>1
  <1> QED
    BY <1>1, <1>2, <1>3

LEMMA MinIs ==
  ASSUME NEW S, S \subseteq Int, NEW m \in S, \A y \in S : m <= y
  PROVE  Min(S) = m
  <1>1. \A x \in S : (\A y \in S : x <= y) => x = m
    OBVIOUS
  <1> QED
    BY <1>1, Zenon DEF Min

LEMMA MaxIs ==
  ASSUME NEW S, S \subseteq Int, NEW m \in S, \A y \in S : m >= y
  PROVE  Max(S) = m
  <1>1. \A x \in S : (\A y \in S : x >= y) => x = m
    OBVIOUS
  <1> QED
    BY <1>1, Zenon DEF Max

LEMMA NearIs ==
  ASSUME NEW a \in Int, NEW b \in Int, NEW n \in Int
  PROVE  Near(a, b, n) <=> 2 * a - 2 * b <= n /\ 2 * b - 2 * a <= n
  <1>1. Max({a - b, b - a}) = IF a >= b THEN a - b ELSE b - a
    BY DEF Max
  <1> QED
    BY <1>1 DEF Near

\* The sum of rounded numbers is as near to what they are the sum of as all the
\* roundings together.
LEMMA SumOfRounded ==
  ASSUME NEW S, IsFiniteSet(S), NEW b \in Int, NEW f, NEW g,
         \A x \in S : /\ f[x] \in Int /\ g[x] \in Int
                      /\ 2 * (b * f[x]) - 2 * g[x] <= b
                      /\ 2 * g[x] - 2 * (b * f[x]) <= b
  PROVE  /\ SumFunctionOnSet(f, S) \in Int /\ SumFunctionOnSet(g, S) \in Int /\ Cardinality(S) \in Nat
         /\ 2 * (b * SumFunctionOnSet(f, S)) - 2 * SumFunctionOnSet(g, S) <= b * Cardinality(S)
         /\ 2 * SumFunctionOnSet(g, S) - 2 * (b * SumFunctionOnSet(f, S)) <= b * Cardinality(S)
  <1> DEFINE F(T) == SumFunctionOnSet(f, T)
             G(T) == SumFunctionOnSet(g, T)
             P == {T \in SUBSET S : /\ 2 * (b * F(T)) - 2 * G(T) <= b * Cardinality(T)
                                    /\ 2 * G(T) - 2 * (b * F(T)) <= b * Cardinality(T)}
  <1>1. {} \in P
    BY SumOfNone, FS_EmptySet
  <1>2. ASSUME NEW T \in SUBSET S, NEW x \in S \ T, T \in P
        PROVE  T \cup {x} \in P
    <2>1. IsFiniteSet(T) /\ x \notin T
      BY FS_Subset
    <2>2. F(T) \in Int /\ F(T \cup {x}) = f[x] + F(T)
      BY <2>1, SumAdd
    <2>3. G(T) \in Int /\ G(T \cup {x}) = g[x] + G(T)
      BY <2>1, SumAdd
    <2>4. Cardinality(T) \in Nat /\ Cardinality(T \cup {x}) = Cardinality(T) + 1
      BY <2>1, FS_AddElement, FS_CardinalityType
    <2>5. /\ 2 * (b * F(T)) - 2 * G(T) <= b * Cardinality(T)
          /\ 2 * G(T) - 2 * (b * F(T)) <= b * Cardinality(T)
      BY <1>2
    <2>6. /\ f[x] \in Int /\ g[x] \in Int
          /\ 2 * (b * f[x]) - 2 * g[x] <= b
          /\ 2 * g[x] - 2 * (b * f[x]) <= b
      OBVIOUS
    <2> HIDE DEF F, G
    <2>7. /\ b * (f[x] + F(T)) = b * f[x] + b * F(T)
          /\ b * (Cardinality(T) + 1) = b * Cardinality(T) + b
      <3>1. \A u, v \in Int : b * (u + v) = b * u + b * v
        OBVIOUS
      <3>2. b * (f[x] + F(T)) = b * f[x] + b * F(T)
        BY <2>2, <2>6, <3>1
      <3>3. b * (Cardinality(T) + 1) = b * Cardinality(T) + b * 1
        BY <2>4, <3>1
      <3> QED
        BY <3>2, <3>3
    <2>8. b * f[x] \in Int /\ b * F(T) \in Int /\ b * Cardinality(T) \in Int
      BY <2>2, <2>4, <2>6
    <2>9. /\ 2 * (b * F(T \cup {x})) - 2 * G(T \cup {x}) <= b * Cardinality(T \cup {x})
          /\ 2 * G(T \cup {x}) - 2 * (b * F(T \cup {x})) <= b * Cardinality(T \cup {x})
      BY <2>2, <2>3, <2>4, <2>5, <2>6, <2>7, <2>8
    <2> QED
      BY <2>9
  <1> HIDE DEF P
  <1>3. S \in P
    BY <1>1, <1>2, InductSet
  <1>4. SumFunctionOnSet(f, S) \in Int
    BY SumIsInt
  <1>5. SumFunctionOnSet(g, S) \in Int
    BY SumIsInt
  <1> QED
    BY <1>3, <1>4, <1>5, FS_CardinalityType DEF P

LEMMA LenIs ==
  ASSUME NEW n \in Nat, NEW s, s = [i \in 1 .. n |-> s[i]]
  PROVE  Len(s) = n /\ s \in Seq(Range(s))
  <1>1. s \in Seq(Range(s))
    BY DEF Range
  <1>2. DOMAIN s = 1 .. n
    OBVIOUS
  <1>3. Len(s) \in Nat /\ DOMAIN s = 1 .. Len(s)
    BY <1>1, LenProperties
  <1> QED
    BY <1>1, <1>2, <1>3

LEMMA UpTo ==
  ASSUME NEW n \in Nat
  PROVE  IsFiniteSet(1 .. n) /\ Cardinality(1 .. n) = n
  <1>1. n = 0 \/ n >= 1
    OBVIOUS
  <1>2. IsFiniteSet(1 .. n) /\ Cardinality(1 .. n) = IF 1 <= n THEN n - 1 + 1 ELSE 0
    BY FS_Interval
  <1> QED
    BY <1>1, <1>2

-----------------------------------------------------------------------------
(* THE QUOTE OF AN OVK                                                      *)

IsPart(part) == part.apartments \subseteq Int /\ part.rooms \subseteq Int /\ part.area \subseteq Int /\ part.units \in Int

IsTaxa(taxa) ==
    /\ taxa = [base |-> taxa.base, minimum |-> taxa.minimum, categories |-> taxa.categories]
    /\ taxa.base \in Int /\ taxa.minimum \in Int
    /\ \A c \in DOMAIN taxa.categories : \A r \in taxa.categories[c].rates : r.price \in Int

LEMMA LineForIs ==
  ASSUME NEW part, IsPart(part), NEW inspection, NEW taxa, IsTaxa(taxa), NEW l \in LineFor(part, inspection, taxa)
  PROVE  /\ l.part = part /\ l.quantity \in Int /\ l.price \in Int
         /\ l.amount = HalfUp(l.quantity * l.price, 10) /\ l.interval = RecurringInterval(part)
  <1> DEFINE C == {k \in DOMAIN taxa.categories \cap {part.category} :
                        ~ (k = "smahus" /\ inspection = "recurring")}
             Q(c) == QuantityFor(part, taxa.categories[c].basis)
             R(c) == Rate(taxa.categories[c], part, inspection)
  <1>0. PICK c \in C : \E q \in Q(c) \X R(c) :
           l = [part |-> part, quantity |-> q[1], price |-> q[2], amount |-> HalfUp(q[1] * q[2], 10),
                interval |-> RecurringInterval(part)]
    BY DEF LineFor
  <1>1. PICK q \in Q(c) \X R(c) :
           l = [part |-> part, quantity |-> q[1], price |-> q[2], amount |-> HalfUp(q[1] * q[2], 10),
                interval |-> RecurringInterval(part)]
    BY <1>0
  <1>2. \A x \in Q(c) : x \in Int
    <2>1. \A n \in Int : 10 * n \in Int
      OBVIOUS
    <2> QED
      BY <2>1 DEF QuantityFor, IsPart
  <1>3. \A x \in R(c) : x \in Int
    BY DEF Rate, IsTaxa
  <1> HIDE DEF Q, R, C
  <1>4. q[1] \in Int /\ q[2] \in Int
    BY <1>2, <1>3
  <1> QED
    BY <1>1, <1>4

\* What a quote is made of.
LEMMA BuildQuoteIs ==
  ASSUME NEW parts, NEW inspection, NEW taxa, NEW r \in BuildQuote(parts, inspection, taxa)
  PROVE  /\ r.lines = [i \in DOMAIN parts |-> r.lines[i]]
         /\ \A i \in DOMAIN parts : r.lines[i] \in LineFor(parts[i], inspection, taxa)
         /\ r.subtotal = SumFunction([i \in DOMAIN parts |-> r.lines[i].amount])
         /\ r.minimumApplied <=> taxa.base + r.subtotal < taxa.minimum
         /\ r.total = IF taxa.base + r.subtotal < taxa.minimum THEN taxa.minimum ELSE taxa.base + r.subtotal
         /\ LET all == UNION {r.lines[i].interval : i \in DOMAIN parts}
            IN  r.interval = IF all = {} THEN {} ELSE {Min(all)}
         /\ ~ (parts = <<>> \/ taxa.base < 0 \/ taxa.minimum < 0)
  <1> DEFINE line(i) == LineFor(parts[i], inspection, taxa)
             lines == [i \in DOMAIN parts |-> CHOOSE l \in line(i) : TRUE]
             subtotal == SumFunction([i \in DOMAIN parts |-> lines[i].amount])
             intervals == UNION {l.interval : l \in Range(lines)}
             raw == taxa.base + subtotal
  <1>1. /\ ~ (parts = <<>> \/ taxa.base < 0 \/ taxa.minimum < 0 \/ \E i \in DOMAIN parts : line(i) = {})
        /\ r = [lines |-> lines, subtotal |-> subtotal, minimumApplied |-> raw < taxa.minimum,
                total |-> IF raw < taxa.minimum THEN taxa.minimum ELSE raw,
                interval |-> IF intervals = {} THEN {} ELSE {Min(intervals)}]
    BY Zenon DEF BuildQuote
  <1>2. \A i \in DOMAIN parts : lines[i] \in line(i)
    BY <1>1
  <1>3. /\ lines = [i \in DOMAIN parts |-> lines[i]]
        /\ intervals = UNION {lines[i].interval : i \in DOMAIN parts}
    <2>1. lines = [i \in DOMAIN parts |-> lines[i]]
      OBVIOUS
    <2> HIDE DEF lines
    <2>2. Range(lines) = {lines[i] : i \in DOMAIN parts}
      BY <2>1 DEF Range
    <2>3. intervals = UNION {l.interval : l \in {lines[i] : i \in DOMAIN parts}}
      BY <2>2
    <2>4. {l.interval : l \in {lines[i] : i \in DOMAIN parts}} = {lines[i].interval : i \in DOMAIN parts}
      OBVIOUS
    <2> QED
      BY <2>1, <2>3, <2>4
  <1>5. subtotal = SumFunction([i \in DOMAIN parts |-> lines[i].amount]) /\ raw = taxa.base + subtotal
    OBVIOUS
  <1> HIDE DEF line, lines, subtotal, intervals, raw
  <1>4. /\ r.lines = lines /\ r.subtotal = subtotal /\ r.minimumApplied = (raw < taxa.minimum)
        /\ r.total = IF raw < taxa.minimum THEN taxa.minimum ELSE raw
        /\ r.interval = IF intervals = {} THEN {} ELSE {Min(intervals)}
    BY <1>1
  <1>6. \A i \in DOMAIN parts : r.lines[i] \in LineFor(parts[i], inspection, taxa)
    BY <1>2, <1>4 DEF line
  <1>7. r.subtotal = SumFunction([i \in DOMAIN parts |-> r.lines[i].amount])
    BY <1>4, <1>5
  <1>8. r.minimumApplied <=> taxa.base + r.subtotal < taxa.minimum
    BY <1>4, <1>5
  <1>9. r.total = IF taxa.base + r.subtotal < taxa.minimum THEN taxa.minimum ELSE taxa.base + r.subtotal
    BY <1>4, <1>5
  <1>10. r.lines = [i \in DOMAIN parts |-> r.lines[i]]
    BY <1>3, <1>4
  <1>11. LET all == UNION {r.lines[i].interval : i \in DOMAIN parts}
         IN  r.interval = IF all = {} THEN {} ELSE {Min(all)}
    BY <1>3, <1>4
  <1> QED
    BY <1>1, <1>6, <1>7, <1>8, <1>9, <1>10, <1>11

\* A quote does not depend on the least but in its total.
LEMMA QuoteWithoutLeast ==
  ASSUME NEW parts, NEW inspection, NEW taxa, IsTaxa(taxa), NEW r \in BuildQuote(parts, inspection, taxa)
  PROVE  \E s \in BuildQuote(parts, inspection, [taxa EXCEPT !.minimum = 0]) :
            s.total = IF taxa.base + r.subtotal < 0 THEN 0 ELSE taxa.base + r.subtotal
  <1> DEFINE free == [taxa EXCEPT !.minimum = 0]
             line(i) == LineFor(parts[i], inspection, taxa)
             lines == [i \in DOMAIN parts |-> CHOOSE l \in line(i) : TRUE]
             subtotal == SumFunction([i \in DOMAIN parts |-> lines[i].amount])
             intervals == UNION {l.interval : l \in Range(lines)}
             raw == taxa.base + subtotal
             s == [lines |-> lines, subtotal |-> subtotal, minimumApplied |-> raw < 0,
                   total |-> IF raw < 0 THEN 0 ELSE raw,
                   interval |-> IF intervals = {} THEN {} ELSE {Min(intervals)}]
  <1>1. free.base = taxa.base /\ free.minimum = 0 /\ free.categories = taxa.categories
    BY DEF IsTaxa
  <1>2. \A i : LineFor(parts[i], inspection, free) = line(i)
    BY <1>1 DEF LineFor
  <1>3. /\ ~ (parts = <<>> \/ taxa.base < 0 \/ \E i \in DOMAIN parts : line(i) = {})
        /\ r.subtotal = subtotal
    <2>1. /\ ~ (parts = <<>> \/ taxa.base < 0 \/ taxa.minimum < 0 \/ \E i \in DOMAIN parts : line(i) = {})
          /\ r = [lines |-> lines, subtotal |-> subtotal, minimumApplied |-> raw < taxa.minimum,
                  total |-> IF raw < taxa.minimum THEN taxa.minimum ELSE raw,
                  interval |-> IF intervals = {} THEN {} ELSE {Min(intervals)}]
      BY Zenon DEF BuildQuote
    <2> HIDE DEF line, lines, subtotal, raw, intervals
    <2> QED
      BY <2>1
  <1>4. ~ (0 < 0)
    OBVIOUS
  <1>5. BuildQuote(parts, inspection, free) = {s}
    <2> DEFINE lines0 == [i \in DOMAIN parts |-> CHOOSE l \in LineFor(parts[i], inspection, free) : TRUE]
               subtotal0 == SumFunction([i \in DOMAIN parts |-> lines0[i].amount])
               intervals0 == UNION {l.interval : l \in Range(lines0)}
               raw0 == free.base + subtotal0
    <2>1. BuildQuote(parts, inspection, free)
            = IF parts = <<>> \/ free.base < 0 \/ free.minimum < 0
                   \/ \E i \in DOMAIN parts : LineFor(parts[i], inspection, free) = {} THEN {}
              ELSE {[lines |-> lines0, subtotal |-> subtotal0, minimumApplied |-> raw0 < free.minimum,
                     total |-> IF raw0 < free.minimum THEN free.minimum ELSE raw0,
                     interval |-> IF intervals0 = {} THEN {} ELSE {Min(intervals0)}]}
      BY Zenon DEF BuildQuote
    <2>2. lines0 = lines
      <3> HIDE DEF free, line
      <3> QED
        BY <1>2
    <2>3. subtotal0 = subtotal /\ intervals0 = intervals /\ raw0 = raw
      <3> HIDE DEF free, line, lines0, lines
      <3> QED
        BY <1>1, <2>2
    <2> HIDE DEF free, line, lines0, lines, subtotal0, subtotal, intervals0, intervals, raw0, raw
    <2> QED
      BY <1>1, <1>2, <1>3, <1>4, <2>1, <2>2, <2>3
  <1> HIDE DEF subtotal, free, lines, intervals
  <1>6. s.total = IF taxa.base + subtotal < 0 THEN 0 ELSE taxa.base + subtotal
    OBVIOUS
  <1> HIDE DEF s
  <1>7. s \in BuildQuote(parts, inspection, [taxa EXCEPT !.minimum = 0])
    BY <1>5 DEF free
  <1>8. s.total = IF taxa.base + r.subtotal < 0 THEN 0 ELSE taxa.base + r.subtotal
    BY <1>3, <1>6
  <1> QED
    BY <1>7, <1>8, Zenon


\* Whatever the parts of a building and the prices are, a quote costs its parts, each
\* rounded, but never less than the least, and the inspection comes again as soon as that
\* of any part. (build_quote)
THEOREM QuotesOfPartsAddUp ==
  ASSUME NEW P, NEW parts \in Seq(P), \A part \in P : IsPart(part), NEW inspection, NEW taxa, IsTaxa(taxa)
  PROVE  PartsAddUp(parts, inspection, taxa)
  <1> SUFFICES ASSUME NEW r \in BuildQuote(parts, inspection, taxa)
               PROVE  LET cost == SumFunction([i \in DOMAIN r.lines |-> r.lines[i].quantity * r.lines[i].price])
                      IN  /\ [i \in DOMAIN r.lines |-> r.lines[i].part] = parts
                          /\ \/ Near(10 * (r.total - taxa.base), cost, 10 * Len(r.lines))
                             \/ r.minimumApplied /\ r.total = taxa.minimum
                          /\ r.total >= taxa.minimum
                          /\ r.minimumApplied <=> r.total > taxa.base + r.subtotal
                          /\ \A i \in DOMAIN parts : \A y \in RecurringInterval(parts[i]) :
                                \E z \in r.interval : z <= y
                          /\ \E s \in BuildQuote(parts, inspection, [taxa EXCEPT !.minimum = 0]) :
                                s.total <= r.total
    BY DEF PartsAddUp
  <1> DEFINE D == DOMAIN parts
             lines == r.lines
             f == [i \in D |-> lines[i].amount]
             g == [i \in D |-> lines[i].quantity * lines[i].price]
             cost == SumFunction([i \in DOMAIN lines |-> lines[i].quantity * lines[i].price])
             all == UNION {lines[i].interval : i \in D}
  <1>1. D = 1 .. Len(parts) /\ Len(parts) \in Nat /\ \A i \in D : IsPart(parts[i])
    OBVIOUS
  <1>2. IsFiniteSet(D) /\ Cardinality(D) = Len(parts)
    <2> HIDE DEF D
    <2>1. IsFiniteSet(1 .. Len(parts)) /\ Cardinality(1 .. Len(parts)) = Len(parts)
      BY <1>1, UpTo
    <2> QED
      BY <1>1, <2>1
  <1>0. /\ r.lines = [i \in DOMAIN parts |-> r.lines[i]]
        /\ \A i \in DOMAIN parts : r.lines[i] \in LineFor(parts[i], inspection, taxa)
        /\ r.subtotal = SumFunction([i \in DOMAIN parts |-> r.lines[i].amount])
        /\ r.minimumApplied <=> taxa.base + r.subtotal < taxa.minimum
        /\ r.total = IF taxa.base + r.subtotal < taxa.minimum THEN taxa.minimum ELSE taxa.base + r.subtotal
        /\ LET every == UNION {r.lines[i].interval : i \in DOMAIN parts}
           IN  r.interval = IF every = {} THEN {} ELSE {Min(every)}
        /\ ~ (parts = <<>> \/ taxa.base < 0 \/ taxa.minimum < 0)
    <2> HIDE DEF D, lines, f, g, cost, all
    <2> QED
      BY BuildQuoteIs, Zenon
  <1>3. /\ lines = [i \in D |-> lines[i]] /\ DOMAIN lines = D
        /\ \A i \in D : lines[i] \in LineFor(parts[i], inspection, taxa)
        /\ r.subtotal = SumFunction(f)
        /\ r.minimumApplied <=> taxa.base + r.subtotal < taxa.minimum
        /\ r.total = IF taxa.base + r.subtotal < taxa.minimum THEN taxa.minimum ELSE taxa.base + r.subtotal
        /\ r.interval = IF all = {} THEN {} ELSE {Min(all)}
        /\ ~ (taxa.minimum < 0)
    BY <1>0
  <1> HIDE DEF lines
  <1>4. \A i \in D : /\ lines[i].part = parts[i]
                     /\ lines[i].quantity \in Int /\ lines[i].price \in Int
                     /\ lines[i].amount = HalfUp(lines[i].quantity * lines[i].price, 10)
                     /\ lines[i].interval = RecurringInterval(parts[i])
    BY <1>1, <1>3, LineForIs
  <1>5. /\ SumFunctionOnSet(f, D) \in Int /\ SumFunctionOnSet(g, D) \in Int
        /\ 2 * (10 * SumFunctionOnSet(f, D)) - 2 * SumFunctionOnSet(g, D) <= 10 * Cardinality(D)
        /\ 2 * SumFunctionOnSet(g, D) - 2 * (10 * SumFunctionOnSet(f, D)) <= 10 * Cardinality(D)
    <2>1. \A i \in D : /\ f[i] \in Int /\ g[i] \in Int
                       /\ 2 * (10 * f[i]) - 2 * g[i] <= 10
                       /\ 2 * g[i] - 2 * (10 * f[i]) <= 10
      <3> SUFFICES ASSUME NEW i \in D
                   PROVE  /\ f[i] \in Int /\ g[i] \in Int
                          /\ 2 * (10 * f[i]) - 2 * g[i] <= 10
                          /\ 2 * g[i] - 2 * (10 * f[i]) <= 10
        OBVIOUS
      <3>1. g[i] \in Int /\ f[i] = HalfUp(g[i], 10)
        BY <1>4
      <3> HIDE DEF f, g
      <3>2. /\ HalfUp(g[i], 10) \in Int
            /\ 2 * (10 * HalfUp(g[i], 10)) - 2 * g[i] <= 10
            /\ 2 * g[i] - 2 * (10 * HalfUp(g[i], 10)) <= 10
        <4>1. 10 \in Int /\ 10 > 0
          OBVIOUS
        <4> QED
          BY <3>1, <4>1, HalfUpIs, Zenon
      <3> QED
        BY <3>1, <3>2
    <2> HIDE DEF f, g, D
    <2>2. 10 \in Int
      OBVIOUS
    <2> QED
      BY <1>2, <2>1, <2>2, SumOfRounded, Zenon
  <1>6. r.subtotal = SumFunctionOnSet(f, D) /\ cost = SumFunctionOnSet(g, D)
    BY <1>3 DEF SumFunction
  <1>7. [i \in DOMAIN lines |-> lines[i].part] = parts
    <2>1. parts = [i \in D |-> parts[i]]
      OBVIOUS
    <2> HIDE DEF D
    <2> QED
      BY <1>3, <1>4, <2>1
  <1>8. Len(lines) = Len(parts)
    <2>1. lines = [i \in 1 .. Len(parts) |-> lines[i]]
      BY <1>1, <1>3
    <2> QED
      BY <1>1, <2>1, LenIs
  <1> HIDE DEF D, f, g, cost
  <1>9. taxa.base \in Int /\ taxa.minimum \in Int /\ r.subtotal \in Int /\ cost \in Int
    BY <1>5, <1>6 DEF IsTaxa
  <1>10. \/ Near(10 * (r.total - taxa.base), cost, 10 * Len(lines))
         \/ r.minimumApplied /\ r.total = taxa.minimum
    <2>1. CASE taxa.base + r.subtotal < taxa.minimum
      BY <1>3, <2>1
    <2>2. CASE ~ (taxa.base + r.subtotal < taxa.minimum)
      <3>1. 10 * (r.total - taxa.base) = 10 * r.subtotal /\ 10 * r.subtotal \in Int /\ 10 * Len(lines) \in Int
        BY <1>1, <1>3, <1>8, <1>9, <2>2
      <3>2. /\ 2 * (10 * r.subtotal) - 2 * cost <= 10 * Len(lines)
            /\ 2 * cost - 2 * (10 * r.subtotal) <= 10 * Len(lines)
        BY <1>2, <1>5, <1>6, <1>8
      <3> QED
        BY <1>9, <3>1, <3>2, NearIs
    <2> QED
      BY <2>1, <2>2
  <1>11. r.total >= taxa.minimum /\ (r.minimumApplied <=> r.total > taxa.base + r.subtotal)
    BY <1>3, <1>9
  <1>12. \A i \in DOMAIN parts : \A y \in RecurringInterval(parts[i]) : \E z \in r.interval : z <= y
    <2>1. all \subseteq {3, 6}
      <3>1. \A i : RecurringInterval(parts[i]) \subseteq {3, 6}
        BY DEF RecurringInterval
      <3>2. ASSUME NEW y \in all
            PROVE  y \in {3, 6}
        <4>1. PICK i \in D : y \in lines[i].interval
          BY <3>2
        <4>2. lines[i].interval = RecurringInterval(parts[i])
          BY <1>4, Zenon
        <4>3. RecurringInterval(parts[i]) \subseteq {3, 6}
          BY <3>1
        <4> QED
          BY <4>1, <4>2, <4>3
      <3> HIDE DEF all
      <3> QED
        BY <3>2
    <2>2. ASSUME NEW i \in D, NEW y \in RecurringInterval(parts[i])
          PROVE  y \in all
      BY <1>4
    <2> HIDE DEF all
    <2>3. all # {} => \A y \in all : Min(all) <= y
      <3>1. CASE 3 \in all
        <4>1. Min(all) = 3
          <5>1. all \subseteq Int /\ 3 \in all /\ \A y \in all : 3 <= y
            BY <2>1, <3>1
          <5> QED
            BY <5>1, MinIs
        <4> QED
          BY <2>1, <4>1
      <3>2. CASE 3 \notin all
        <4>1. all # {} => all = {6}
          BY <2>1, <3>2
        <4>2. ASSUME all = {6}
              PROVE  Min(all) = 6
          <5>1. all \subseteq Int /\ 6 \in all /\ \A y \in all : 6 <= y
            BY <4>2
          <5> QED
            BY <5>1, MinIs
        <4> QED
          BY <4>1, <4>2
      <3> QED
        BY <3>1, <3>2
    <2> QED
      BY <1>3, <2>2, <2>3 DEF D
  <1>13. \E s \in BuildQuote(parts, inspection, [taxa EXCEPT !.minimum = 0]) : s.total <= r.total
    <2>1. PICK s \in BuildQuote(parts, inspection, [taxa EXCEPT !.minimum = 0]) :
             s.total = IF taxa.base + r.subtotal < 0 THEN 0 ELSE taxa.base + r.subtotal
      BY QuoteWithoutLeast
    <2>2. s.total <= r.total
      BY <1>3, <1>9, <2>1
    <2> QED
      BY <2>2
  <1> QED
    BY <1>7, <1>10, <1>11, <1>12, <1>13 DEF lines, cost

-----------------------------------------------------------------------------
(* TAKEOFFS.  What is priced adds up                                        *)

LEMMA LeastAndGreatest ==
  ASSUME NEW S, IsFiniteSet(S), S \subseteq Int, S # {}
  PROVE  /\ Min(S) \in S /\ \A y \in S : Min(S) <= y
         /\ Max(S) \in S /\ \A y \in S : Max(S) >= y
  <1> DEFINE P == {T \in SUBSET S : T # {} => /\ \E m \in T : \A y \in T : m <= y
                                              /\ \E m \in T : \A y \in T : m >= y}
  <1>1. {} \in P
    OBVIOUS
  <1>2. ASSUME NEW T \in SUBSET S, NEW x \in S \ T, T \in P
        PROVE  T \cup {x} \in P
    <2>1. CASE T = {}
      BY <2>1
    <2>2. CASE T # {}
      <3>1. PICK m \in T : \A y \in T : m <= y
        BY <1>2, <2>2
      <3>2. PICK n \in T : \A y \in T : n >= y
        BY <1>2, <2>2
      <3>3. x \in Int /\ m \in Int /\ n \in Int /\ T \subseteq Int
        OBVIOUS
      <3>4. \E k \in T \cup {x} : \A y \in T \cup {x} : k <= y
        <4>1. CASE m <= x
          BY <3>1, <3>3, <4>1
        <4>2. CASE x < m
          BY <3>1, <3>3, <4>2
        <4> QED
          BY <3>3, <4>1, <4>2
      <3>5. \E k \in T \cup {x} : \A y \in T \cup {x} : k >= y
        <4>1. CASE n >= x
          BY <3>2, <3>3, <4>1
        <4>2. CASE x > n
          BY <3>2, <3>3, <4>2
        <4> QED
          BY <3>3, <4>1, <4>2
      <3> QED
        BY <3>4, <3>5
    <2> QED
      BY <2>1, <2>2
  <1>3. S \in P
    <2> HIDE DEF P
    <2> QED
      BY <1>1, <1>2, InductSet
  <1> QED
    BY <1>3, MinIs, MaxIs

LEMMA ImageIsFinite ==
  ASSUME NEW S, IsFiniteSet(S), NEW h
  PROVE  IsFiniteSet(ImageOf(h, S))
  <1> DEFINE g == [x \in S |-> h[x]]
  <1>1. g \in Surjection(S, ImageOf(h, S))
    BY DEF Surjection, ImageOf
  <1> HIDE DEF g
  <1> QED
    BY <1>1, FS_Surjection

LEMMA SumOfMultiples ==
  ASSUME NEW S, IsFiniteSet(S), NEW b \in Int, NEW f, NEW g, \A x \in S : f[x] \in Int /\ g[x] = f[x] * b
  PROVE  SumFunctionOnSet(g, S) = SumFunctionOnSet(f, S) * b
  <1> DEFINE F(T) == SumFunctionOnSet(f, T)
             G(T) == SumFunctionOnSet(g, T)
             P == {T \in SUBSET S : G(T) = F(T) * b}
  <1>1. {} \in P
    BY SumOfNone
  <1>2. ASSUME NEW T \in SUBSET S, NEW x \in S \ T, T \in P
        PROVE  T \cup {x} \in P
    <2>1. IsFiniteSet(T) /\ x \notin T
      BY FS_Subset
    <2>2. \A u, v \in Int : (u + v) * b = u * b + v * b /\ u * b \in Int
      OBVIOUS
    <2>3. F(T) \in Int /\ F(T \cup {x}) = f[x] + F(T)
      BY <2>1, SumAdd
    <2>4. \A y \in T \cup {x} : g[y] \in Int
      BY <2>2
    <2>5. G(T) \in Int /\ G(T \cup {x}) = g[x] + G(T)
      BY <2>1, <2>4, SumAdd
    <2>6. f[x] \in Int /\ g[x] = f[x] * b /\ G(T) = F(T) * b
      BY <1>2
    <2> HIDE DEF F, G
    <2>7. G(T \cup {x}) = F(T \cup {x}) * b
      BY <2>2, <2>3, <2>5, <2>6
    <2> QED
      BY <2>7
  <1> HIDE DEF P
  <1>3. S \in P
    BY <1>1, <1>2, InductSet
  <1> QED
    BY <1>3 DEF P

IsBook(book) ==
    /\ book.rate \in Int /\ IsFiniteSet(DOMAIN book.entries) /\ DOMAIN book.entries \subseteq Int
    /\ \A i \in DOMAIN book.entries : book.entries[i].price \in Int /\ book.entries[i].hours \in Int

\* A consolidated takeoff of whole quantities.
IsConsolidated(c) == IsFiniteSet(c.lines) /\ \A l \in c.lines : l.selected \subseteq Int

LEMMA PriceEntryIs ==
  ASSUME NEW book, IsBook(book), NEW key
  PROVE  \A e \in PriceEntry(book, key) : e.price \in Int /\ e.hours \in Int
  <1> DEFINE D == DOMAIN book.entries
             of(k) == {i \in D : LineKey(book.entries[i]) = k}
             exact == of(key)
             any == of(<<key[1], key[2], "*">>)
  <1>1. \A k : of(k) # {} => Max(of(k)) \in D
    <2> SUFFICES ASSUME NEW k, of(k) # {}
                 PROVE  Max(of(k)) \in D
      OBVIOUS
    <2>1. IsFiniteSet(of(k)) /\ of(k) \subseteq Int /\ of(k) \subseteq D
      BY FS_Subset DEF IsBook
    <2> HIDE DEF of
    <2>2. Max(of(k)) \in of(k)
      BY <2>1, LeastAndGreatest
    <2> QED
      BY <2>1, <2>2
  <1>2. PriceEntry(book, key) = CASE exact # {} -> {book.entries[Max(exact)]}
                                  [] exact = {} /\ any # {} -> {book.entries[Max(any)]}
                                  [] OTHER -> {}
    BY DEF PriceEntry
  <1>3. \A e \in PriceEntry(book, key) : \E i \in D : e = book.entries[i]
    <2> HIDE DEF of
    <2> QED
      BY <1>1, <1>2
  <1> QED
    BY <1>3 DEF IsBook

\* The parts of what is priced at this rate, in steps of b: the lines, the material
\* and the hours of them.
IsPriced(p, rate, b) ==
    /\ IsFiniteSet(p.lines)
    /\ \A l \in p.lines : /\ l.material \in Int /\ l.hours \in Int
                          /\ l.labour = Rounded(l.hours * rate, b)
                          /\ l.total = l.material + l.labour
    /\ p.grand = SumFunction([l \in p.lines |-> l.material])
                   + Rounded(SumFunction([l \in p.lines |-> l.hours]) * rate, b)

LEMMA PricedIs ==
  ASSUME NEW c, IsConsolidated(c), NEW book, IsBook(book)
  PROVE  IsPriced(PriceConsolidatedTakeoff(c, book), book.rate, 1000)
  <1> DEFINE entry(l) == PriceEntry(book, l.key)
             resolved == {l \in c.lines : l.selected # {}}
             mayPrice == {l \in resolved : \E e \in entry(l) : e.unit = l.unit}
             price == [l \in mayPrice |-> PricedLine(l, CHOOSE e \in entry(l) : TRUE, book)]
             priced == {PricedLine(l, CHOOSE e \in entry(l) : TRUE, book) : l \in mayPrice}
             p == PriceConsolidatedTakeoff(c, book)
  <1>1. /\ p.lines = priced
        /\ p.grand = SumFunction([l \in priced |-> l.material])
                       + Rounded(SumFunction([l \in priced |-> l.hours]) * book.rate, 1000)
    BY DEF PriceConsolidatedTakeoff
  <1>2. IsFiniteSet(priced)
    <2>1. IsFiniteSet(mayPrice)
      <3>1. mayPrice \subseteq c.lines
        OBVIOUS
      <3> QED
        BY <3>1, FS_Subset DEF IsConsolidated
    <2>2. priced = ImageOf(price, mayPrice)
      BY DEF ImageOf
    <2> HIDE DEF priced, price, mayPrice
    <2> QED
      BY <2>1, <2>2, ImageIsFinite
  <1>3. ASSUME NEW x \in priced
        PROVE  /\ x.material \in Int /\ x.hours \in Int
               /\ x.labour = Rounded(x.hours * book.rate, 1000)
               /\ x.total = x.material + x.labour
    <2>1. PICK l \in mayPrice : x = PricedLine(l, CHOOSE e \in entry(l) : TRUE, book)
      OBVIOUS
    <2> DEFINE e == CHOOSE y \in entry(l) : TRUE
               quantity == CHOOSE q \in l.selected : TRUE
    <2>2. e \in entry(l) /\ quantity \in l.selected
      OBVIOUS
    <2>3. e.price \in Int /\ e.hours \in Int
      BY <2>2, PriceEntryIs
    <2>4. quantity \in Int
      BY <2>2 DEF IsConsolidated
    <2>5. x = PricedLine(l, e, book)
      BY <2>1
    <2> HIDE DEF e
    <2>6. /\ x.material = Rounded(quantity * e.price, 10) /\ x.hours = Rounded(quantity * e.hours, 10)
          /\ x.labour = Rounded(x.hours * book.rate, 1000) /\ x.total = x.material + x.labour
      BY <2>5 DEF PricedLine
    <2> HIDE DEF quantity
    <2>7. quantity * e.price \in Int /\ quantity * e.hours \in Int /\ 10 \in Int /\ 10 > 0
      BY <2>3, <2>4
    <2>8. Rounded(quantity * e.price, 10) \in Int
      BY <2>7, RoundedIs, Zenon
    <2>9. Rounded(quantity * e.hours, 10) \in Int
      BY <2>7, RoundedIs, Zenon
    <2> QED
      BY <2>6, <2>8, <2>9
  <1> HIDE DEF priced, p
  <1> QED
    BY <1>1, <1>2, <1>3 DEF p, IsPriced

LEMMA WhatIsPricedAddsUp ==
  ASSUME NEW p, NEW rate \in Int, NEW b \in Int, b > 0, IsPriced(p, rate, b)
  PROVE  p.grand \in Int /\ LinesAddUp(p)
  <1> DEFINE S == p.lines
             f == [l \in S |-> l.total]
             m == [l \in S |-> l.material]
             h == [l \in S |-> l.hours]
             w == [l \in S |-> l.labour]
             g == [l \in S |-> l.hours * rate]
             n == Cardinality(S)
             R == Rounded(SumFunctionOnSet(h, S) * rate, b)
  <1>1. IsFiniteSet(S)
    BY DEF IsPriced
  <1>3. p.grand = SumFunction(m) + Rounded(SumFunction(h) * rate, b)
    BY DEF IsPriced
  <1>5. ASSUME NEW l \in S
        PROVE  /\ m[l] \in Int /\ h[l] \in Int /\ g[l] = h[l] * rate
               /\ w[l] = Rounded(g[l], b) /\ f[l] = m[l] + w[l]
    BY DEF IsPriced
  <1>6. R = Rounded(SumFunctionOnSet(h, S) * rate, b)
    OBVIOUS
  <1>7. SumFunction(m) = SumFunctionOnSet(m, S) /\ SumFunction(h) = SumFunctionOnSet(h, S)
        /\ SumFunction(f) = SumFunctionOnSet(f, S)
    BY DEF SumFunction
  <1> HIDE DEF S, f, m, h, w, g, n, R
  <1>8. ASSUME NEW l \in S
        PROVE  /\ w[l] \in Int /\ g[l] \in Int /\ f[l] \in Int /\ w[l] = f[l] - m[l]
               /\ 2 * (b * w[l]) - 2 * g[l] <= b
               /\ 2 * g[l] - 2 * (b * w[l]) <= b
    <2>1. g[l] \in Int
      BY <1>5
    <2>2. /\ Rounded(g[l], b) \in Int
          /\ 2 * (b * Rounded(g[l], b)) - 2 * g[l] <= b
          /\ 2 * g[l] - 2 * (b * Rounded(g[l], b)) <= b
      BY <2>1, RoundedIs
    <2> QED
      BY <1>5, <2>1, <2>2
  <1>9. /\ SumFunctionOnSet(w, S) \in Int /\ SumFunctionOnSet(g, S) \in Int /\ Cardinality(S) \in Nat
        /\ 2 * (b * SumFunctionOnSet(w, S)) - 2 * SumFunctionOnSet(g, S) <= b * Cardinality(S)
        /\ 2 * SumFunctionOnSet(g, S) - 2 * (b * SumFunctionOnSet(w, S)) <= b * Cardinality(S)
    <2>1. \A l \in S : /\ w[l] \in Int /\ g[l] \in Int
                       /\ 2 * (b * w[l]) - 2 * g[l] <= b
                       /\ 2 * g[l] - 2 * (b * w[l]) <= b
      BY <1>8
    <2> QED
      BY <1>1, <2>1, SumOfRounded, Zenon
  <1>10. SumFunctionOnSet(f, S) \in Int
    BY <1>1, <1>8, SumIsInt
  <1>11. SumFunctionOnSet(m, S) \in Int
    BY <1>1, <1>5, SumIsInt
  <1>12. SumFunctionOnSet(w, S) = SumFunctionOnSet(f, S) - SumFunctionOnSet(m, S)
    <2>1. \A l \in S : f[l] \in Int /\ m[l] \in Int /\ w[l] = f[l] - m[l]
      BY <1>5, <1>8
    <2> QED
      BY <1>1, <2>1, SumOfDifferences
  <1>13. SumFunctionOnSet(g, S) = SumFunctionOnSet(h, S) * rate
    <2>1. \A l \in S : h[l] \in Int /\ g[l] = h[l] * rate
      BY <1>5
    <2> QED
      BY <1>1, <2>1, SumOfMultiples, Zenon
  <1>14. /\ R \in Int /\ 2 * (b * R) - 2 * SumFunctionOnSet(g, S) <= b
         /\ 2 * SumFunctionOnSet(g, S) - 2 * (b * R) <= b
    <2>1. R = Rounded(SumFunctionOnSet(g, S), b)
      BY <1>6, <1>13
    <2> QED
      BY <1>9, <2>1, RoundedIs
  <1>15. n = Cardinality(S) /\ n \in Nat /\ n + 1 \in Int
    BY <1>9 DEF n
  <1>16. /\ p.grand \in Int
         /\ 2 * SumFunctionOnSet(f, S) - 2 * p.grand <= n + 1
         /\ 2 * p.grand - 2 * SumFunctionOnSet(f, S) <= n + 1
    <2>1. p.grand = SumFunctionOnSet(m, S) + R
      BY <1>3, <1>6, <1>7
    <2>2. 2 * SumFunctionOnSet(f, S) - 2 * p.grand = 2 * SumFunctionOnSet(w, S) - 2 * R
      BY <1>9, <1>10, <1>11, <1>12, <1>14, <2>1
    <2>3. /\ 2 * (b * SumFunctionOnSet(w, S)) - 2 * (b * R) <= b * n + b
          /\ 2 * (b * R) - 2 * (b * SumFunctionOnSet(w, S)) <= b * n + b
      <3>1. \A u \in Int : b * u \in Int
        OBVIOUS
      <3>2. b * SumFunctionOnSet(w, S) \in Int /\ b * R \in Int /\ b * n \in Int
        BY <1>9, <1>14, <1>15, <3>1
      <3> QED
        BY <1>9, <1>14, <1>15, <3>2
    <2>4. ASSUME NEW u \in Int, NEW v \in Int, NEW k \in Int, 2 * (b * u) - 2 * (b * v) <= b * k + b
          PROVE  2 * u - 2 * v <= k + 1
      <3>1. 2 * (b * u) - 2 * (b * v) = b * (2 * u - 2 * v) /\ b * k + b = b * (k + 1)
        OBVIOUS
      <3>2. \A x, y \in Int : x > y => b * x > b * y
        OBVIOUS
      <3>3. 2 * u - 2 * v \in Int /\ k + 1 \in Int
        OBVIOUS
      <3> QED
        BY <2>4, <3>1, <3>2, <3>3
    <2>5. 2 * SumFunctionOnSet(w, S) - 2 * R <= n + 1 /\ 2 * R - 2 * SumFunctionOnSet(w, S) <= n + 1
      BY <1>9, <1>14, <1>15, <2>3, <2>4
    <2>6. p.grand \in Int
      BY <1>11, <1>14, <2>1
    <2> QED
      BY <1>9, <1>10, <1>14, <1>15, <2>2, <2>5, <2>6
  <1>17. Near(SumFunction(f), p.grand, n + 1)
    BY <1>7, <1>10, <1>15, <1>16, NearIs
  <1> QED
    BY <1>16, <1>17 DEF LinesAddUp, f, n, S

\* The lines of what is priced add up to its total, however many they are: the labour is
\* rounded in every line and once more for all. (price_consolidated_takeoff)
LEMMA PricedLinesAddUp ==
  ASSUME NEW c, IsConsolidated(c), NEW book, IsBook(book)
  PROVE  LET p == PriceConsolidatedTakeoff(c, book)
         IN  p.grand \in Int /\ LinesAddUp(p)
  <1> DEFINE b == 1000
             p == PriceConsolidatedTakeoff(c, book)
  <1>1. b \in Int /\ b > 0 /\ book.rate \in Int
    BY DEF IsBook
  <1>2. IsPriced(p, book.rate, b)
    BY PricedIs
  <1> HIDE DEF b, p
  <1>3. p.grand \in Int /\ LinesAddUp(p)
    BY <1>1, <1>2, WhatIsPricedAddsUp
  <1> QED
    BY <1>3 DEF p

-----------------------------------------------------------------------------
(* QUOTES AND BENCHMARKS.  What a total is compared with and becomes         *)

LEMMA SignOfHalfUp ==
  ASSUME NEW a \in Int, NEW b \in Int, b > 0
  PROVE  (a <= 0 => HalfUp(a, b) <= 0) /\ (a >= 0 => HalfUp(a, b) >= 0)
  <1>1. /\ HalfUp(a, b) \in Int
        /\ 2 * (b * HalfUp(a, b)) - 2 * a <= b
        /\ 2 * a - 2 * (b * HalfUp(a, b)) <= b
    BY HalfUpIs
  <1> DEFINE h == HalfUp(a, b)
  <1> HIDE DEF h
  <1>2. h \in Int /\ 2 * (b * h) - 2 * a <= b /\ 2 * a - 2 * (b * h) <= b
    BY <1>1 DEF h
  <1>3. ASSUME h > 0, a <= 0 PROVE FALSE
    <2>1. b * h >= b
      BY <1>2, <1>3
    <2> QED
      BY <1>2, <1>3, <2>1
  <1>4. ASSUME h < 0, a >= 0 PROVE FALSE
    <2>1. b * h <= -b
      BY <1>2, <1>4
    <2> QED
      BY <1>2, <1>4, <2>1
  <1> QED
    BY <1>2, <1>3, <1>4 DEF h

LEMMA HalfUpIsMonotone ==
  ASSUME NEW a \in Int, a >= 0, NEW c \in Int, a <= c, NEW b \in Int, b > 0
  PROVE  HalfUp(a, b) <= HalfUp(c, b)
  <1>1. /\ HalfUp(a, b) = (2 * a + b) \div (2 * b)
        /\ HalfUp(c, b) = (2 * c + b) \div (2 * b)
    BY DEF HalfUp
  <1>2. 2 * a + b \in Int /\ 2 * c + b \in Int /\ 2 * b \in Int /\ 2 * b > 0 /\ 2 * a + b <= 2 * c + b
    OBVIOUS
  <1>3. \A x, y, k \in Int : k > 0 /\ x <= y => x \div k <= y \div k
    <2> SUFFICES ASSUME NEW x \in Int, NEW y \in Int, NEW k \in Int, k > 0, x <= y
                 PROVE  x \div k <= y \div k
      OBVIOUS
    <2>1. x \div k \in Int /\ k * (x \div k) <= x /\ x < k * (x \div k) + k
      BY DivIs
    <2>2. y \div k \in Int /\ k * (y \div k) <= y /\ y < k * (y \div k) + k
      BY DivIs
    <2> DEFINE u == x \div k
               v == y \div k
    <2> HIDE DEF u, v
    <2>3. u \in Int /\ v \in Int /\ k * u < k * v + k
      BY <2>1, <2>2 DEF u, v
    <2>4. u <= v
      <3>1. ASSUME u >= v + 1 PROVE FALSE
        <4>1. k * u >= k * (v + 1) /\ k * (v + 1) = k * v + k
          BY <2>3, <3>1
        <4> QED
          BY <2>3, <4>1
      <3> QED
        BY <2>3, <3>1
    <2> QED
      BY <2>4 DEF u, v
  <1> QED
    BY <1>1, <1>2, <1>3

IsRequest(r) == r.overhead \in Int /\ r.risk \in Int /\ r.profit \in Int

\* The shares of a quote are what the percentages are together, each rounded.
\* (build_vent_quote)
LEMMA QuotesShareUp ==
  ASSUME NEW p, p.grand \in Int, NEW r, IsRequest(r)
  PROVE  SharesAddUp(p, r)
  <1> DEFINE G == p.grand
             b == 100
             o == HalfUp(G * r.overhead, b)
             k == HalfUp(G * r.risk, b)
             f == HalfUp(G * r.profit, b)
  <1> SUFFICES ASSUME NEW quote \in BuildVentQuote(p, r)
               PROVE  Near(100 * quote.total, quote.base * (100 + r.overhead + r.risk + r.profit), 300)
    BY DEF SharesAddUp
  <1>1. quote.base = G /\ quote.total = G + o + k + f
    BY DEF BuildVentQuote
  <1>2. G \in Int /\ G * r.overhead \in Int /\ G * r.risk \in Int /\ G * r.profit \in Int /\ b \in Int /\ b > 0
    BY DEF IsRequest
  <1>3. b = 100
    OBVIOUS
  <1> HIDE DEF G, b, o, k, f
  <1>4. /\ o \in Int /\ 2 * (b * o) - 2 * (G * r.overhead) <= b /\ 2 * (G * r.overhead) - 2 * (b * o) <= b
        /\ k \in Int /\ 2 * (b * k) - 2 * (G * r.risk) <= b /\ 2 * (G * r.risk) - 2 * (b * k) <= b
        /\ f \in Int /\ 2 * (b * f) - 2 * (G * r.profit) <= b /\ 2 * (G * r.profit) - 2 * (b * f) <= b
    BY <1>2, HalfUpIs DEF o, k, f
  <1>5. G * (100 + r.overhead + r.risk + r.profit) = 100 * G + G * r.overhead + G * r.risk + G * r.profit
    <2> DEFINE x == r.overhead
               y == r.risk
               z == r.profit
    <2>1. x \in Int /\ y \in Int /\ z \in Int
      BY DEF IsRequest
    <2> HIDE DEF x, y, z
    <2>2. G * (100 + x + y + z) = 100 * G + G * x + G * y + G * z
      BY <1>2, <2>1
    <2> QED
      BY <2>2 DEF x, y, z
  <1>6. 100 * (G + o + k + f) \in Int /\ G * (100 + r.overhead + r.risk + r.profit) \in Int
    BY <1>2, <1>4, <1>5
  <1>7. /\ 2 * (100 * (G + o + k + f)) - 2 * (G * (100 + r.overhead + r.risk + r.profit)) <= 300
        /\ 2 * (G * (100 + r.overhead + r.risk + r.profit)) - 2 * (100 * (G + o + k + f)) <= 300
    BY <1>2, <1>3, <1>4, <1>5
  <1>8. Near(100 * (G + o + k + f), G * (100 + r.overhead + r.risk + r.profit), 300)
    BY <1>6, <1>7, NearIs
  <1> QED
    BY <1>1, <1>8

IsRange(range) ==
    /\ range = [low |-> range.low, normal |-> range.normal, high |-> range.high]
    /\ range.low \in Int /\ range.normal \in Int /\ range.high \in Int
    /\ RangeIsValid(range)

\* A total is judged by the range it is compared with, of whatever size the job is at which
\* the range is worth something. (quick_estimate, compare_detailed_total)
LEMMA TotalsAreJudged ==
  ASSUME NEW p, p.grand \in Int, NEW range, IsRange(range), NEW n \in Int, n >= 5
  PROVE  JudgedByRange(range, n, p)
  <1> DEFINE b == 10
             low == HalfUp(n * range.low, b)
             normal == HalfUp(n * range.normal, b)
             high == HalfUp(n * range.high, b)
             e == [f \in DOMAIN range |-> HalfUp(n * range[f], b)]
             G == p.grand
             caveats == (IF p.unpriced = {} THEN {} ELSE {"unpriced"})
                           \cup IF p.reservations = {} THEN {} ELSE {"reservations"}
             verdict == CASE G < e.low -> "below_range" [] G > e.high -> "above_range"
                          [] OTHER -> "within_range"
             deviation == HalfUp((G - e.normal) * 1000, e.normal)
  <1> SUFFICES ASSUME NEW c \in CompareTakeoffPricing(range, n, p)
               PROVE  /\ Near(10 * c.expected.normal, n * range.normal, 10)
                      /\ c.verdict = "within_range" <=> c.total \in c.expected.low .. c.expected.high
                      /\ c.total < c.expected.low => c.deviation <= 0
                      /\ c.total > c.expected.high => c.deviation >= 0
                      /\ Near(c.deviation * c.expected.normal, 1000 * (p.grand - c.expected.normal), c.expected.normal)
                      /\ c.caveats = {} <=>
                            \A s \in BuildVentQuote(p, [overhead |-> 0, risk |-> 0, profit |-> 0, days |-> 1]) : s.ready
    BY DEF JudgedByRange
  <1>1. c = [expected |-> e, total |-> G, caveats |-> caveats, verdict |-> verdict, deviation |-> deviation]
    BY DEF CompareTakeoffPricing, CompareDetailedTotal, QuickEstimate
  <1>2. e.low = low /\ e.normal = normal /\ e.high = high
    BY DEF IsRange
  <1> HIDE DEF e
  <1>3. /\ c.expected.low = low /\ c.expected.normal = normal /\ c.expected.high = high
        /\ c.total = G /\ c.caveats = caveats
        /\ c.verdict = CASE G < low -> "below_range" [] G > high -> "above_range" [] OTHER -> "within_range"
        /\ c.deviation = HalfUp((G - normal) * 1000, normal)
    BY <1>1, <1>2
  <1>4. b = 10 /\ b \in Int /\ b > 0
    OBVIOUS
  <1>5. /\ n * range.low \in Int /\ n * range.normal \in Int /\ n * range.high \in Int
        /\ 5 <= n * range.low /\ n * range.low <= n * range.normal /\ n * range.normal <= n * range.high
    <2> DEFINE x == range.low
               y == range.normal
               z == range.high
    <2>1. x \in Int /\ y \in Int /\ z \in Int /\ 0 < x /\ x <= y /\ y <= z
      BY DEF IsRange, RangeIsValid
    <2> HIDE DEF x, y, z
    <2>2. n * x \in Int /\ n * y \in Int /\ n * z \in Int /\ 5 <= n * x /\ n * x <= n * y /\ n * y <= n * z
      BY <2>1
    <2> QED
      BY <2>2 DEF x, y, z
  <1> HIDE DEF caveats, b
  <1>6. /\ normal \in Int /\ 2 * (b * normal) - 2 * (n * range.normal) <= b
        /\ 2 * (n * range.normal) - 2 * (b * normal) <= b
    BY <1>4, <1>5, HalfUpIs
  <1>7. low \in Int /\ high \in Int
    BY <1>4, <1>5, HalfUpIs
  <1>8. low <= normal /\ normal <= high
    BY <1>4, <1>5, HalfUpIsMonotone
  <1> HIDE DEF low, normal, high, G
  <1>9. normal > 0
    <2>1. n * range.normal \in Int /\ 5 <= n * range.normal
      BY <1>5
    <2>2. HalfUp(5, b) = 1
      BY <1>4 DEF HalfUp
    <2>3. HalfUp(5, b) <= normal
      <3>1. 5 \in Int /\ 5 >= 0
        OBVIOUS
      <3> QED
        BY <1>4, <2>1, <3>1, HalfUpIsMonotone DEF normal
    <2> QED
      BY <1>6, <2>2, <2>3
  <1>10. G \in Int /\ (G - normal) * 1000 \in Int
    BY <1>6 DEF G
  <1>11. /\ c.deviation \in Int /\ 2 * (normal * c.deviation) - 2 * ((G - normal) * 1000) <= normal
         /\ 2 * ((G - normal) * 1000) - 2 * (normal * c.deviation) <= normal
    BY <1>3, <1>6, <1>9, <1>10, HalfUpIs
  <1>12. Near(c.deviation * normal, 1000 * (G - normal), normal)
    <2>1. c.deviation * normal \in Int /\ c.deviation * normal = normal * c.deviation
      BY <1>6, <1>11
    <2>2. 1000 * (G - normal) \in Int /\ 1000 * (G - normal) = (G - normal) * 1000
      BY <1>6, <1>10
    <2> HIDE DEF b
    <2> QED
      BY <1>6, <1>11, <2>1, <2>2, NearIs
  <1>13. Near(10 * normal, n * range.normal, 10)
    BY <1>4, <1>5, <1>6, NearIs
  <1>14. c.verdict = "within_range" <=> G \in low .. high
    BY <1>3, <1>7, <1>10
  <1>15. (G < low => c.deviation <= 0) /\ (G > high => c.deviation >= 0)
    <2>1. (G < low => (G - normal) * 1000 <= 0) /\ (G > high => (G - normal) * 1000 >= 0)
      BY <1>6, <1>7, <1>8, <1>10
    <2> QED
      BY <1>3, <1>6, <1>9, <1>10, <2>1, SignOfHalfUp
  <1>16. c.caveats = {} <=>
            \A s \in BuildVentQuote(p, [overhead |-> 0, risk |-> 0, profit |-> 0, days |-> 1]) : s.ready
    <2> DEFINE nothing == [overhead |-> 0, risk |-> 0, profit |-> 0, days |-> 1]
               ready == p.unpriced = {} /\ p.reservations = {}
    <2>1. Min({0, 0, 0}) = 0
      <3>1. 0 \in {0, 0, 0} /\ {0, 0, 0} \subseteq Int /\ \A y \in {0, 0, 0} : 0 <= y
        OBVIOUS
      <3> QED
        BY <3>1, MinIs
    <2>2. \E s : BuildVentQuote(p, nothing) = {s} /\ (s.ready <=> ready)
      <3> DEFINE share(percent) == HalfUp(p.grand * percent, 100)
                 shares == [overhead |-> share(0), risk |-> share(0), profit |-> share(0)]
                 s == [base |-> p.grand, overhead |-> shares.overhead, risk |-> shares.risk, profit |-> shares.profit,
                       total |-> p.grand + shares.overhead + shares.risk + shares.profit, ready |-> ready]
      <3>1. BuildVentQuote(p, nothing) = {s}
        <4>1. ~ (nothing.days < 1 \/ Min({nothing.overhead, nothing.risk, nothing.profit}) < 0)
          BY <2>1
        <4>2. share(nothing.overhead) = share(0) /\ share(nothing.risk) = share(0) /\ share(nothing.profit) = share(0)
          OBVIOUS
        <4> HIDE DEF nothing
        <4> QED
          BY <4>1, <4>2 DEF BuildVentQuote
      <3>2. s.ready <=> ready
        OBVIOUS
      <3> QED
        BY <3>1, <3>2
    <2>3. caveats = {} <=> ready
      BY DEF caveats
    <2> HIDE DEF nothing, ready
    <2>4. c.caveats = {} <=> \A s \in BuildVentQuote(p, nothing) : s.ready
      BY <1>3, <2>2, <2>3
    <2> QED
      BY <2>4 DEF nothing
  <1> QED
    BY <1>3, <1>12, <1>13, <1>14, <1>15, <1>16 DEF G

-----------------------------------------------------------------------------
(* CONSOLIDATION.  The lines that the sources have of one thing              *)

\* Of finitely many elements in an order there is a first one.
LEMMA FirstIs ==
  ASSUME NEW S, IsFiniteSet(S), NEW R,
         \A x, y \in S : x # y => <<x, y>> \in R \/ <<y, x>> \in R,
         \A x, y, z \in S : <<x, y>> \in R /\ <<y, z>> \in R => <<x, z>> \in R
  PROVE  S # {} => \E x \in S : \A y \in S \ {x} : <<x, y>> \in R
  <1> DEFINE P == {T \in SUBSET S : T = {} \/ \E x \in T : \A y \in T \ {x} : <<x, y>> \in R}
  <1>1. {} \in P
    OBVIOUS
  <1>2. ASSUME NEW T \in SUBSET S, NEW x \in S \ T, T \in P
        PROVE  T \cup {x} \in P
    <2>1. CASE T = {}
      BY <2>1
    <2>2. CASE T # {}
      <3>1. PICK m \in T : \A y \in T \ {m} : <<m, y>> \in R
        BY <1>2, <2>2
      <3>2. CASE <<m, x>> \in R
        BY <3>1, <3>2
      <3>3. CASE <<x, m>> \in R
        BY <3>1, <3>3
      <3> QED
        BY <3>2, <3>3
    <2> QED
      BY <2>1, <2>2
  <1> HIDE DEF P
  <1>3. S \in P
    BY <1>1, <1>2, InductSet
  <1> QED
    BY <1>3 DEF P

\* A source has finitely many lines, at their places.
IsTakeoff(t) ==
    /\ IsFiniteSet(DOMAIN t.lines) /\ DOMAIN t.lines \subseteq Int
    /\ \A j \in DOMAIN t.lines : t.lines[j].quantity \in Int /\ t.lines[j].confidence \in Int

IsTakeoffs(takeoffs) ==
    IsFiniteSet(DOMAIN takeoffs) /\ DOMAIN takeoffs \subseteq Int /\ \A i \in DOMAIN takeoffs : IsTakeoff(takeoffs[i])

LinesOf(takeoffs) == UNION {{<<i, j>> : j \in DOMAIN takeoffs[i].lines} : i \in DOMAIN takeoffs}
LineAt(takeoffs, p) == takeoffs[p[1]].lines[p[2]]

LEMMA LinesAreFinite ==
  ASSUME NEW takeoffs, IsTakeoffs(takeoffs)
  PROVE  /\ IsFiniteSet(LinesOf(takeoffs)) /\ LinesOf(takeoffs) \subseteq Int \X Int
         /\ \A p \in LinesOf(takeoffs) : /\ LineAt(takeoffs, p).quantity \in Int
                                         /\ LineAt(takeoffs, p).confidence \in Int
  <1> DEFINE D == DOMAIN takeoffs
             of(i) == {<<i, j>> : j \in DOMAIN takeoffs[i].lines}
             f == [i \in D |-> of(i)]
  <1>1. \A i \in D : IsFiniteSet(of(i))
    <2> SUFFICES ASSUME NEW i \in D PROVE IsFiniteSet(of(i))
      OBVIOUS
    <2> DEFINE J == DOMAIN takeoffs[i].lines
               g == [j \in J |-> <<i, j>>]
    <2>1. IsFiniteSet(J)
      BY DEF IsTakeoffs, IsTakeoff
    <2>2. of(i) = ImageOf(g, J)
      BY DEF ImageOf
    <2> HIDE DEF J, g, of
    <2> QED
      BY <2>1, <2>2, ImageIsFinite
  <1>2. IsFiniteSet({of(i) : i \in D})
    <2>1. {of(i) : i \in D} = ImageOf(f, D)
      BY DEF ImageOf
    <2>2. IsFiniteSet(D)
      BY DEF IsTakeoffs
    <2> HIDE DEF f, of, D
    <2> QED
      BY <2>1, <2>2, ImageIsFinite
  <1>3. IsFiniteSet(UNION {of(i) : i \in D})
    <2> HIDE DEF of, D
    <2>1. \A T \in {of(i) : i \in D} : IsFiniteSet(T)
      BY <1>1
    <2> QED
      BY <1>2, <2>1, FS_UNION
  <1>4. IsFiniteSet(LinesOf(takeoffs))
    BY <1>3 DEF LinesOf
  <1>5. \A p \in LinesOf(takeoffs) : \E i \in D : \E j \in DOMAIN takeoffs[i].lines : p = <<i, j>>
    BY DEF LinesOf
  <1>6. ASSUME NEW p \in LinesOf(takeoffs)
        PROVE  /\ p \in Int \X Int /\ LineAt(takeoffs, p).quantity \in Int
               /\ LineAt(takeoffs, p).confidence \in Int
    BY <1>5 DEF LineAt, IsTakeoffs, IsTakeoff
  <1> QED
    BY <1>4, <1>6

\* What is consolidated of some lines is about one of them.
LEMMA ReferenceIs ==
  ASSUME NEW takeoffs, IsTakeoffs(takeoffs), NEW at, at \subseteq LinesOf(takeoffs), at # {}, NEW tolerance
  PROVE  LET c == ConsolidatedLine(takeoffs, at, tolerance)
         IN  /\ c.sources = at
             /\ \E p \in at : /\ c.key = LineKey(LineAt(takeoffs, p)) /\ c.unit = LineAt(takeoffs, p).unit
                              /\ c.selected \subseteq {LineAt(takeoffs, p).quantity}
  <1> DEFINE line(p) == takeoffs[p[1]].lines[p[2]]
             before(p, r) == \/ line(p).confidence > line(r).confidence
                             \/ /\ line(p).confidence = line(r).confidence
                                /\ p[1] < r[1] \/ (p[1] = r[1] /\ p[2] < r[2])
             first == CHOOSE p \in at : \A r \in at \ {p} : before(p, r)
             c == ConsolidatedLine(takeoffs, at, tolerance)
             R == {q \in at \X at : before(q[1], q[2])}
  <1>1. /\ c.sources = at /\ c.key = LineKey(line(first)) /\ c.unit = line(first).unit
        /\ c.selected \subseteq {line(first).quantity}
    BY DEF ConsolidatedLine
  <1>2. IsFiniteSet(at) /\ at \subseteq Int \X Int /\ \A p \in at : line(p).confidence \in Int
    BY LinesAreFinite, FS_Subset DEF LineAt
  <1> HIDE DEF line
  <1>3. \A p, r \in at : p # r => before(p, r) \/ before(r, p)
    BY <1>2
  <1>4. \A p, r, s \in at : before(p, r) /\ before(r, s) => before(p, s)
    BY <1>2
  <1> HIDE DEF before, c
  <1>5. \A p, r \in at : <<p, r>> \in R <=> before(p, r)
    OBVIOUS
  <1> HIDE DEF R
  <1>6. \E p \in at : \A r \in at \ {p} : <<p, r>> \in R
    BY <1>2, <1>3, <1>4, <1>5, FirstIs, SMTT(30)
  <1>7. first \in at
    BY <1>5, <1>6
  <1> HIDE DEF first
  <1>8. /\ c.sources = at
        /\ \E p \in at : c.key = LineKey(line(p)) /\ c.unit = line(p).unit /\ c.selected \subseteq {line(p).quantity}
    <2> HIDE DEF line
    <2>1. c.key = LineKey(line(first)) /\ c.unit = line(first).unit /\ c.selected \subseteq {line(first).quantity}
      BY <1>1
    <2>2. c.sources = at
      BY <1>1
    <2> QED
      BY <1>7, <2>1, <2>2
  <1> QED
    BY SMTT(30), <1>8 DEF c, line, LineAt

\* The lines of what is consolidated, each of the lines of one key.
LEMMA ConsolidatedIs ==
  ASSUME NEW takeoffs, IsTakeoffs(takeoffs), NEW tolerance
  PROVE  LET c == ConsolidateTakeoffs(takeoffs, tolerance)
             all == LinesOf(takeoffs)
         IN  /\ IsConsolidated(c)
             /\ c.lines = {ConsolidatedLine(takeoffs, {p \in all : LineKey(LineAt(takeoffs, p)) = k}, tolerance) :
                              k \in {LineKey(LineAt(takeoffs, p)) : p \in all}}
             /\ c.questions = {l.key : l \in {m \in c.lines : m.selected = {}}}
  <1> DEFINE all == LinesOf(takeoffs)
             key(p) == LineKey(LineAt(takeoffs, p))
             keys == {key(p) : p \in all}
             of(k) == {p \in all : key(p) = k}
             line(k) == ConsolidatedLine(takeoffs, of(k), tolerance)
             c == ConsolidateTakeoffs(takeoffs, tolerance)
             f == [p \in all |-> key(p)]
             g == [k \in keys |-> line(k)]
  <1>1. c.lines = {line(k) : k \in keys} /\ c.questions = {l.key : l \in {m \in c.lines : m.selected = {}}}
    BY DEF ConsolidateTakeoffs, LinesOf, LineAt
  <1>2. IsFiniteSet(all) /\ \A p \in all : LineAt(takeoffs, p).quantity \in Int
    BY LinesAreFinite
  <1>3. IsFiniteSet(keys)
    <2>1. keys = ImageOf(f, all)
      BY DEF ImageOf
    <2> HIDE DEF all, keys, f
    <2> QED
      BY <1>2, <2>1, ImageIsFinite
  <1>4. IsFiniteSet(c.lines)
    <2>1. {line(k) : k \in keys} = ImageOf(g, keys)
      BY DEF ImageOf
    <2> HIDE DEF keys, g, line, c
    <2> QED
      BY <1>1, <1>3, <2>1, ImageIsFinite
  <1>5. ASSUME NEW l \in c.lines
        PROVE  l.selected \subseteq Int
    <2>1. PICK k \in keys : l = line(k)
      BY <1>1
    <2>2. of(k) \subseteq all /\ of(k) # {}
      OBVIOUS
    <2> HIDE DEF of, keys, c, key
    <2>3. PICK p \in of(k) : l.selected \subseteq {LineAt(takeoffs, p).quantity}
      BY <2>1, <2>2, ReferenceIs
    <2> QED
      BY <1>2, <2>2, <2>3
  <1>6. IsConsolidated(c)
    BY <1>4, <1>5 DEF IsConsolidated
  <1> QED
    BY <1>1, <1>6

-----------------------------------------------------------------------------
(* SOURCES.  What the documents say                                          *)

\* The rows of what is counted in a drawing are at the first component of a kind.
SameKind(items, i) ==
    LET code(j) == IF items[j].component = {} THEN "UNCLASSIFIED" ELSE items[j].value
        key(j) == <<code(j), items[j].value, items[j].dim>>
    IN  {j \in DOMAIN items : key(j) = key(i)}

LEMMA CountsAre ==
  ASSUME NEW items, IsFiniteSet(DOMAIN items), DOMAIN items \subseteq Int
  PROVE  LET rows == BuildQuantityTakeoff(items)
         IN  /\ DOMAIN rows = {i \in DOMAIN items : \A k \in SameKind(items, i) : i <= k}
             /\ \A i \in DOMAIN rows : rows[i].length = {} /\ rows[i].quantity = {Cardinality(SameKind(items, i))}
             /\ \A i \in DOMAIN items : IsFiniteSet(SameKind(items, i)) /\ i \in SameKind(items, i)
  <1>1. \A i \in DOMAIN items : IsFiniteSet(SameKind(items, i)) /\ i \in SameKind(items, i)
    <2> SUFFICES ASSUME NEW i \in DOMAIN items PROVE IsFiniteSet(SameKind(items, i)) /\ i \in SameKind(items, i)
      OBVIOUS
    <2>1. SameKind(items, i) \subseteq DOMAIN items
      BY DEF SameKind
    <2>2. i \in SameKind(items, i)
      BY DEF SameKind
    <2> QED
      BY <2>1, <2>2, FS_Subset
  <1>2. LET rows == BuildQuantityTakeoff(items)
        IN  /\ DOMAIN rows = {i \in DOMAIN items : \A k \in SameKind(items, i) : i <= k}
            /\ \A i \in DOMAIN rows : rows[i].length = {} /\ rows[i].quantity = {Cardinality(SameKind(items, i))}
    BY DEF BuildQuantityTakeoff, SameKind
  <1> QED
    BY <1>1, <1>2

LEMMA GeometryIs ==
  ASSUME NEW drawing, IsFiniteSet(DOMAIN drawing), DOMAIN drawing \subseteq Int
  PROVE  LET rows == BuildVentModel(drawing).takeoff
         IN  /\ DOMAIN rows \subseteq DOMAIN drawing
             /\ DOMAIN TakeoffFromGeometry(rows).lines = DOMAIN rows
             /\ IsTakeoff(TakeoffFromGeometry(rows))
  <1> DEFINE items == ClassifyCandidates(drawing)
             rows == BuildVentModel(drawing).takeoff
             t == TakeoffFromGeometry(rows)
             n(i) == Cardinality(SameKind(items, i))
  <1>1. rows = BuildQuantityTakeoff(items)
    BY DEF BuildVentModel
  <1>2. DOMAIN items = DOMAIN drawing
    BY DEF ClassifyCandidates
  <1> HIDE DEF items, rows
  <1>3. /\ DOMAIN rows \subseteq DOMAIN drawing
        /\ \A i \in DOMAIN rows : rows[i].length = {} /\ rows[i].quantity = {n(i)}
        /\ \A i \in DOMAIN items : IsFiniteSet(SameKind(items, i)) /\ i \in SameKind(items, i)
    BY <1>1, <1>2, CountsAre
  <1>4. \A i \in DOMAIN rows : n(i) \in Nat /\ n(i) # 0
    <2> SUFFICES ASSUME NEW i \in DOMAIN rows PROVE n(i) \in Nat /\ n(i) # 0
      OBVIOUS
    <2>1. IsFiniteSet(SameKind(items, i)) /\ SameKind(items, i) # {}
      BY <1>2, <1>3
    <2> QED
      BY <2>1, FS_CardinalityType, FS_EmptySet
  <1> HIDE DEF n
  <1>5. \A i \in DOMAIN rows : rows[i].quantity \notin {{}, {0}}
    BY <1>3, <1>4
  <1>6. /\ DOMAIN t.lines = DOMAIN rows
        /\ \A i \in DOMAIN t.lines : t.lines[i].quantity = 10 * (CHOOSE q \in rows[i].quantity : TRUE) /\ t.lines[i].confidence = 100
    BY <1>3, <1>5 DEF TakeoffFromGeometry, SourceTakeoff, Line
  <1>7. \A i \in DOMAIN t.lines : t.lines[i].quantity \in Int /\ t.lines[i].confidence \in Int
    <2> SUFFICES ASSUME NEW i \in DOMAIN t.lines
                 PROVE  t.lines[i].quantity \in Int /\ t.lines[i].confidence \in Int
      OBVIOUS
    <2>1. (CHOOSE q \in rows[i].quantity : TRUE) \in Int
      BY <1>3, <1>4, <1>6
    <2> QED
      BY <1>6, <2>1
  <1> HIDE DEF t
  <1>8. IsFiniteSet(DOMAIN t.lines)
    BY <1>3, <1>6, FS_Subset
  <1>9. IsTakeoff(t)
    BY <1>3, <1>6, <1>7, <1>8 DEF IsTakeoff
  <1> QED
    BY <1>3, <1>6, <1>9 DEF t, rows

\* A row of a table: its numbers are whole, and what was recognised has a confidence.
IsRow(row) ==
    /\ row \in Seq(Range(row))
    /\ \A c \in DOMAIN row : /\ row[c].is = "number" => row[c].what \in Int
                             /\ row[c].is \in {"duct", "component"} => row[c].what.confidence \in Int

LEMMA NumberIs ==
  ASSUME NEW row, IsRow(row), NEW start \in Int, start >= 1
  PROVE  NumericAfter(row, start).quantity \subseteq Int
  <1> DEFINE at(is) == {i \in start + 1 .. Len(row) : row[i].is = is}
             S == at("number")
  <1>1. NumericAfter(row, start).quantity = IF S = {} THEN {} ELSE {row[Min(S)].what}
    BY DEF NumericAfter
  <1>2. Len(row) \in Nat /\ DOMAIN row = 1 .. Len(row)
    BY DEF IsRow
  <1>3. S \subseteq 1 .. Len(row) /\ \A i \in S : row[i].is = "number"
    BY <1>2
  <1> HIDE DEF S
  <1>u. IsFiniteSet(1 .. Len(row)) /\ 1 .. Len(row) \subseteq Int
    BY <1>2, UpTo
  <1>f. IsFiniteSet(S)
    BY <1>u, <1>3, FS_Subset
  <1>4. IsFiniteSet(S) /\ S \subseteq Int
    BY <1>f, <1>u, <1>3
  <1>5. S # {} => Min(S) \in S
    BY <1>4, LeastAndGreatest
  <1> QED
    BY <1>1, <1>2, <1>3, <1>5, ZenonT(40) DEF IsRow

\* The cells of a row that were recognised.
KnownCells(row) == {c \in DOMAIN row : row[c].is \in {"duct", "component"}}

LEMMA KnownIs ==
  ASSUME NEW row, IsRow(row)
  PROVE  /\ KnownCells(row) # {} => Min(KnownCells(row)) \in KnownCells(row)
         /\ DOMAIN row = 1 .. Len(row) /\ Len(row) \in Nat
  <1> DEFINE S == KnownCells(row)
  <1>1. Len(row) \in Nat /\ DOMAIN row = 1 .. Len(row)
    BY DEF IsRow
  <1>2. S \subseteq 1 .. Len(row)
    BY <1>1 DEF KnownCells
  <1> HIDE DEF S
  <1>u. IsFiniteSet(1 .. Len(row)) /\ 1 .. Len(row) \subseteq Int
    BY <1>1, UpTo
  <1>f. IsFiniteSet(S)
    BY <1>u, <1>2, FS_Subset
  <1>3. IsFiniteSet(S) /\ S \subseteq Int
    BY <1>f, <1>u, <1>2
  <1>4. S # {} => Min(S) \in S
    BY <1>3, LeastAndGreatest
  <1> QED
    BY <1>1, <1>4 DEF S

LEMMA TableIs ==
  ASSUME NEW rows, IsFiniteSet(DOMAIN rows), DOMAIN rows \subseteq Int, \A i \in DOMAIN rows : IsRow(rows[i])
  PROVE  /\ IsTakeoff(TakeoffFromTable(rows))
         /\ DOMAIN TakeoffFromTable(rows).lines \subseteq
              {i \in DOMAIN rows : \E c \in DOMAIN rows[i] : rows[i][c].is # "empty"}
  <1> DEFINE said == {i \in DOMAIN rows : \E c \in DOMAIN rows[i] : rows[i][c].is # "empty"}
             known(i) == {c \in DOMAIN rows[i] : rows[i][c].is \in {"duct", "component"}}
             found(i) == NumericAfter(rows[i], Min(known(i)))
             t == TakeoffFromTable(rows)
  <1>1. /\ DOMAIN t.lines = {j \in said : known(j) # {} /\ found(j).quantity # {}}
        /\ \A i \in DOMAIN t.lines : /\ t.lines[i].quantity = CHOOSE q \in found(i).quantity : TRUE
                                     /\ t.lines[i].confidence = rows[i][Min(known(i))].what.confidence
    BY DEF TakeoffFromTable, SourceTakeoff, Line
  <1>2. \A i : known(i) = KnownCells(rows[i])
    BY DEF KnownCells
  <1> HIDE DEF t, known
  <1>3. ASSUME NEW i \in DOMAIN t.lines
        PROVE  t.lines[i].quantity \in Int /\ t.lines[i].confidence \in Int
    <2>1. i \in DOMAIN rows /\ IsRow(rows[i]) /\ known(i) # {} /\ found(i).quantity # {}
      BY <1>1
    <2>2. Min(known(i)) \in known(i)
      BY <1>2, <2>1, KnownIs
    <2>3. Min(known(i)) \in Int /\ Min(known(i)) >= 1
      BY <1>2, <2>1, <2>2, KnownIs DEF KnownCells
    <2>4. found(i).quantity \subseteq Int
      BY <2>1, <2>3, NumberIs
    <2>5. rows[i][Min(known(i))].what.confidence \in Int
      BY <1>2, <2>1, <2>2 DEF IsRow, KnownCells
    <2> HIDE DEF found
    <2> QED
      BY <1>1, <2>1, <2>4, <2>5
  <1>4. DOMAIN t.lines \subseteq said /\ said \subseteq DOMAIN rows
    BY <1>1
  <1> HIDE DEF said
  <1>5. IsTakeoff(t)
    BY <1>3, <1>4, FS_Subset DEF IsTakeoff
  <1> QED
    BY <1>4, <1>5 DEF t, said

IsText(text) ==
    /\ text \in Seq(Range(text))
    /\ \A i \in DOMAIN text : text[i].count \in Int /\ \A c \in text[i].what : c.confidence \in Int

LEMMA TextIs ==
  ASSUME NEW text, IsText(text)
  PROVE  IsTakeoff(TakeoffFromText(text)) /\ DOMAIN TakeoffFromText(text).lines \subseteq DOMAIN text
  <1> DEFINE t == TakeoffFromText(text)
             what(i) == CHOOSE c \in text[i].what : TRUE
             b == 10
  <1>1. /\ DOMAIN t.lines = {j \in DOMAIN text : ~ text[j].duct /\ text[j].what # {}}
        /\ \A i \in DOMAIN t.lines : /\ t.lines[i].quantity = b * text[i].count
                                     /\ t.lines[i].confidence = Rounded(9 * what(i).confidence, b)
    BY DEF TakeoffFromText, SourceTakeoff, Line
  <1>2. b \in Int /\ b > 0
    OBVIOUS
  <1> HIDE DEF t, b
  <1>3. ASSUME NEW i \in DOMAIN t.lines
        PROVE  t.lines[i].quantity \in Int /\ t.lines[i].confidence \in Int
    <2>1. what(i) \in text[i].what /\ i \in DOMAIN text
      BY <1>1
    <2> HIDE DEF what
    <2>2. 9 * what(i).confidence \in Int /\ text[i].count \in Int
      BY <2>1 DEF IsText
    <2>3. Rounded(9 * what(i).confidence, b) \in Int
      BY <1>2, <2>2, RoundedIs
    <2> QED
      BY <1>1, <1>2, <2>2, <2>3
  <1>4. DOMAIN t.lines \subseteq DOMAIN text /\ DOMAIN text = 1 .. Len(text) /\ Len(text) \in Nat
    BY <1>1 DEF IsText
  <1>u. IsFiniteSet(1 .. Len(text)) /\ 1 .. Len(text) \subseteq Int
    BY <1>4, UpTo
  <1>f. IsFiniteSet(DOMAIN t.lines)
    BY <1>u, <1>4, FS_Subset
  <1>5. IsFiniteSet(DOMAIN t.lines) /\ DOMAIN t.lines \subseteq Int
    BY <1>f, <1>u, <1>4
  <1>6. IsTakeoff(t)
    BY <1>3, <1>5 DEF IsTakeoff
  <1> QED
    BY <1>4, <1>6 DEF t

\* The documents of a takeoff that can be priced.
IsBody(body) ==
    /\ body.drawings \in Seq(Range(body.drawings))
    /\ \A i \in DOMAIN body.drawings : body.drawings[i] \in Seq(Range(body.drawings[i]))
    /\ body.table \in Seq(Range(body.table)) /\ \A i \in DOMAIN body.table : IsRow(body.table[i])
    /\ \A t, u \in body.text : IsText(t) /\ t = u
    /\ \A b \in body.book : IsBook(b)

\* What is read from a drawing.
DrawingTakeoff(drawing) == TakeoffFromGeometry(BuildVentModel(drawing).takeoff)

\* At most one takeoff, read from what there is.
AtMostOne(there, t) == IF there THEN <<t>> ELSE <<>>

LEMMA SeqDomain ==
  ASSUME NEW s, s \in Seq(Range(s))
  PROVE  /\ Len(s) \in Nat /\ DOMAIN s = 1 .. Len(s) /\ IsFiniteSet(DOMAIN s) /\ DOMAIN s \subseteq Int
         /\ Cardinality(DOMAIN s) = Len(s)
  <1>1. Len(s) \in Nat /\ DOMAIN s = 1 .. Len(s)
    OBVIOUS
  <1> QED
    BY <1>1, UpTo

LEMMA DrawingIs ==
  ASSUME NEW drawing, drawing \in Seq(Range(drawing))
  PROVE  IsTakeoff(DrawingTakeoff(drawing))
  BY SeqDomain, GeometryIs DEF DrawingTakeoff

LEMMA TakeoffsAre ==
  ASSUME NEW body, IsBody(body)
  PROVE  IsTakeoffs(TakeoffsOf(body))
  <1> DEFINE n == Len(body.drawings)
             f == [i \in DOMAIN body.drawings |-> DrawingTakeoff(body.drawings[i])]
             table == TakeoffFromTable(body.table)
             text == TakeoffFromText(CHOOSE t \in body.text : TRUE)
             g == IF body.table = <<>> THEN <<>> ELSE <<table>>
             h == IF body.text = {} THEN <<>> ELSE <<text>>
             X == {f[i] : i \in 1 .. n} \cup {t \in {table} : body.table # <<>>} \cup {t \in {text} : body.text # {}}
  <1>1. n \in Nat /\ DOMAIN body.drawings = 1 .. n
    BY SeqDomain DEF IsBody
  <1>2. \A i \in 1 .. n : IsTakeoff(f[i])
    BY <1>1, DrawingIs DEF IsBody
  <1>3. IsTakeoff(table)
    BY SeqDomain, TableIs DEF IsBody
  <1>4. body.text # {} => IsTakeoff(text)
    BY TextIs DEF IsBody
  <1>5. TakeoffsOf(body) = f \o g \o h
    BY DEF TakeoffsOf, DrawingTakeoff
  <1>6. f = [i \in 1 .. n |-> f[i]]
    BY <1>1
  <1> HIDE DEF f, n, table, text
  <1>7. \A t \in X : IsTakeoff(t)
    BY <1>2, <1>3, <1>4
  <1>8. f \in Seq(X)
    <2>1. \A i \in 1 .. n : f[i] \in X
      OBVIOUS
    <2> HIDE DEF X
    <2> QED
      BY <1>1, <1>6, <2>1
  <1>9. g \in Seq(X) /\ h \in Seq(X)
    <2>1. (body.table # <<>> => table \in X) /\ (body.text # {} => text \in X)
      OBVIOUS
    <2> HIDE DEF X
    <2>2. <<>> \in Seq(X) /\ \A t \in X : <<t>> \in Seq(X)
      OBVIOUS
    <2>3. g \in Seq(X)
      BY <2>1, <2>2
    <2>4. h \in Seq(X)
      BY <2>1, <2>2
    <2> QED
      BY <2>3, <2>4
  <1> HIDE DEF X, g, h
  <1>10. (f \o g) \o h \in Seq(X)
    BY <1>8, <1>9, ConcatProperties
  <1> DEFINE s == TakeoffsOf(body)
  <1>11. s \in Seq(X)
    BY <1>5, <1>10
  <1> HIDE DEF s
  <1>12. Len(s) \in Nat /\ DOMAIN s = 1 .. Len(s) /\ \A i \in DOMAIN s : s[i] \in X
    BY <1>11
  <1>13. IsFiniteSet(DOMAIN s) /\ DOMAIN s \subseteq Int
    BY <1>12, UpTo
  <1>14. IsTakeoffs(s)
    BY <1>7, <1>12, <1>13 DEF IsTakeoffs
  <1> QED
    BY <1>14 DEF s

BodyAddsUp(body) ==
    \A t \in VentTakeoff(body) : \A p \in t.priced :
        /\ p.grand \in Int /\ LinesAddUp(p)
        /\ \A r : IsRequest(r) => SharesAddUp(p, r)
        /\ \A range : \A n \in Int : IsRange(range) /\ n >= 5 => JudgedByRange(range, n, p)

\* Whatever the documents of a takeoff, the books, what is asked for and the ranges it is
\* compared with: the lines add up to the total, the shares of a quote to what the
\* percentages are together, and the total is judged by the range.
\* (price_consolidated_takeoff, build_vent_quote, compare_detailed_total)
THEOREM TakeoffsAddUp ==
  ASSUME NEW body, IsBody(body)
  PROVE  BodyAddsUp(body)
  <1> SUFFICES ASSUME NEW t \in VentTakeoff(body), NEW p \in t.priced
               PROVE  /\ p.grand \in Int /\ LinesAddUp(p)
                      /\ \A r : IsRequest(r) => SharesAddUp(p, r)
                      /\ \A range : \A n \in Int : IsRange(range) /\ n >= 5 => JudgedByRange(range, n, p)
    BY DEF BodyAddsUp
  <1> DEFINE all == TakeoffsOf(body)
             tolerance == IF body.tolerance = 0 THEN 20 ELSE body.tolerance
             c == ConsolidateTakeoffs(all, tolerance)
  <1>1. t = PricedBy(body.book, all, c)
    BY DEF VentTakeoff
  <1> HIDE DEF all, tolerance
  <1>2. IsConsolidated(c)
    BY TakeoffsAre, ConsolidatedIs DEF all
  <1> HIDE DEF c
  <1>3. PICK b \in body.book : p = PriceConsolidatedTakeoff(c, b)
    BY <1>1 DEF PricedBy
  <1>4. IsBook(b)
    BY DEF IsBody
  <1>5. p.grand \in Int /\ LinesAddUp(p)
    BY <1>2, <1>3, <1>4, PricedLinesAddUp
  <1>6. \A r : IsRequest(r) => SharesAddUp(p, r)
    BY <1>5, QuotesShareUp
  <1>7. \A range : \A n \in Int : IsRange(range) /\ n >= 5 => JudgedByRange(range, n, p)
    BY <1>5, TotalsAreJudged
  <1> QED
    BY <1>5, <1>6, <1>7

\* Some of a list, in the order of the list.
LEMMA PickedIs ==
  ASSUME NEW list, list \in Seq(Range(list)), NEW which, which \subseteq DOMAIN list
  PROVE  LET s == Picked(list, which)
         IN  s \in Seq(Range(s)) /\ Range(s) \subseteq Range(list)
  <1> DEFINE s == Picked(list, which)
             n == Cardinality(which)
             rank == [k \in which |-> Cardinality({j \in which : j < k})]
             number == [k \in which |-> k]
             at(i) == CHOOSE k \in which : Cardinality({j \in which : j <= k}) = i
  <1>1. IsFiniteSet(DOMAIN list) /\ DOMAIN list \subseteq Int
    BY SeqDomain
  <1>2. IsFiniteSet(which) /\ which \subseteq Int
    BY <1>1, FS_Subset
  <1>3. number \in [which -> Int] /\ IsInjective(number)
    BY <1>2 DEF IsInjective
  <1>4. rank = [k \in which |-> rank[k]] /\ \A k \in which : rank[k] = Cardinality({j \in which : number[j] < number[k]})
    <2>1. \A k \in which : {j \in which : j < k} = {j \in which : number[j] < number[k]}
      OBVIOUS
    <2> QED
      BY <2>1
  <1>5. \A k \in which : Cardinality({j \in which : j <= k}) = rank[k] + 1
    <2> SUFFICES ASSUME NEW k \in which PROVE Cardinality({j \in which : j <= k}) = rank[k] + 1
      OBVIOUS
    <2> DEFINE T == {j \in which : j < k}
    <2>1. {j \in which : j <= k} = T \cup {k} /\ k \notin T
      BY <1>2
    <2>2. IsFiniteSet(T)
      BY <1>2, FS_Subset
    <2>3. rank[k] = Cardinality(T)
      OBVIOUS
    <2> HIDE DEF T
    <2>4. Cardinality(T \cup {k}) = Cardinality(T) + 1
      BY <2>1, <2>2, FS_AddElement
    <2> QED
      BY <2>1, <2>3, <2>4
  <1>6. s = [i \in 1 .. n |-> list[at(i)]]
    BY DEF Picked
  <1> HIDE DEF rank, number
  <1>7. n \in Nat /\ \A i \in 1 .. n : \E k \in which : rank[k] = i - 1
    BY <1>2, <1>3, <1>4, Ranked, SMTT(30)
  <1>8. \A i \in 1 .. n : at(i) \in which
    <2> SUFFICES ASSUME NEW i \in 1 .. n PROVE at(i) \in which
      OBVIOUS
    <2>1. PICK k \in which : rank[k] = i - 1
      BY <1>7
    <2>2. rank[k] + 1 = i
      BY <1>7, <2>1
    <2>3. Cardinality({j \in which : j <= k}) = rank[k] + 1
      BY <1>5
    <2>4. Cardinality({j \in which : j <= k}) = i
      BY <2>2, <2>3
    <2> QED
      BY <2>4
  <1> HIDE DEF at, s, n
  <1>9. s = [i \in 1 .. n |-> s[i]] /\ \A i \in 1 .. n : s[i] = list[at(i)]
    BY <1>6
  <1>10. s \in Seq(Range(s)) /\ DOMAIN s = 1 .. n
    BY <1>7, <1>9, LenIs
  <1>11. Range(s) \subseteq Range(list)
    BY <1>8, <1>9, <1>10 DEF Range
  <1> QED
    BY <1>10, <1>11 DEF s

-----------------------------------------------------------------------------
(* OFFERS.  What is offered adds up                                         *)

LEMMA ListIs ==
  ASSUME NEW S, IsFiniteSet(S)
  PROVE  /\ SetToSeq(S) \in [1 .. Cardinality(S) -> S] /\ IsInjective(SetToSeq(S))
         /\ SetToSeq(S) \in Seq(S) /\ Len(SetToSeq(S)) = Cardinality(S)
         /\ Range(SetToSeq(S)) = S
  <1> DEFINE n == Cardinality(S)
             s == SetToSeq(S)
  <1>1. n \in Nat /\ ExistsBijection(1 .. n, S)
    BY FS_CardinalityType
  <1>2. PICK f \in Bijection(1 .. n, S) : TRUE
    BY <1>1 DEF ExistsBijection
  <1>3. f \in [1 .. n -> S] /\ IsInjective(f)
    BY <1>2 DEF Bijection, Injection, IsInjective
  <1>4. s \in [1 .. n -> S] /\ IsInjective(s)
    BY <1>3 DEF SetToSeq
  <1> HIDE DEF s
  <1>5. s \in Seq(S) /\ Len(s) = n
    BY <1>1, <1>4, LenProperties
  <1>6. s \in Injection(1 .. n, S)
    BY <1>4 DEF Injection, IsInjective
  <1>7. s \in Surjection(1 .. n, S)
    BY <1>1, <1>6, UpTo, FS_Injection
  <1>8. Range(s) = S
    BY <1>4, <1>7 DEF Range, Surjection
  <1> QED
    BY <1>4, <1>5, <1>8 DEF s

\* A service, and a book of prices, of whole numbers.
IsService(service) == IsFiniteSet(DOMAIN service) /\ \A w \in DOMAIN service : service[w].test \in Int
IsItems(items) == items \in Seq(Range(items)) /\ \A i \in DOMAIN items : items[i].quantity \in Int
IsServiceBook(book) == book \in Seq(Range(book)) /\ \A i \in DOMAIN book : book[i].price \in Int

\* The strings to test of a service, as items of an offer.
StringItems(service) ==
    {[code |-> "string", quantity |-> 10 * service[w].test, stairwell |-> {w}] : w \in DOMAIN service}
VisitItems(visits) ==
    IF visits = 0 THEN <<>> ELSE <<[code |-> "visit", quantity |-> 10 * visits, stairwell |-> {}]>>

LEMMA StringItemsAre ==
  ASSUME NEW service, IsService(service)
  PROVE  /\ IsFiniteSet(StringItems(service)) /\ Cardinality(StringItems(service)) = Cardinality(DOMAIN service)
         /\ \A x \in StringItems(service) : x.quantity \in Int
  <1> DEFINE D == DOMAIN service
             f == [w \in D |-> [code |-> "string", quantity |-> 10 * service[w].test, stairwell |-> {w}]]
  <1>1. f \in Injection(D, StringItems(service)) /\ f \in Surjection(D, StringItems(service))
    <2>1. f \in [D -> StringItems(service)]
      BY DEF StringItems
    <2>2. \A v, w \in D : f[v] = f[w] => v = w
      <3> SUFFICES ASSUME NEW v \in D, NEW w \in D, f[v] = f[w] PROVE v = w
        OBVIOUS
      <3>1. f[v].stairwell = {v} /\ f[w].stairwell = {w}
        OBVIOUS
      <3> HIDE DEF f
      <3> QED
        BY <3>1
    <2>3. \A x \in StringItems(service) : \E w \in D : f[w] = x
      BY DEF StringItems
    <2> HIDE DEF f
    <2> QED
      BY <2>1, <2>2, <2>3 DEF Injection, IsInjective, Surjection
  <1>2. IsFiniteSet(StringItems(service)) /\ Cardinality(StringItems(service)) = Cardinality(D)
    BY <1>1, FS_Surjection DEF IsService
  <1>3. \A x \in StringItems(service) : x.quantity \in Int
    BY DEF StringItems, IsService
  <1> QED
    BY <1>2, <1>3

LEMMA OfferItemsAre ==
  ASSUME NEW service, IsService(service), NEW extra, IsItems(extra), NEW visits \in Int
  PROVE  LET items == OfferItems(service, extra, visits)
         IN  /\ IsItems(items)
             /\ Len(items) = Cardinality(DOMAIN service) + Len(extra) + IF visits = 0 THEN 0 ELSE 1
  <1> DEFINE S == StringItems(service)
             s == SetToSeq(S)
             v == VisitItems(visits)
             visit == [code |-> "visit", quantity |-> 10 * visits, stairwell |-> {}]
             X == S \cup Range(extra) \cup {visit}
             items == OfferItems(service, extra, visits)
  <1>1. IsFiniteSet(S) /\ Cardinality(S) = Cardinality(DOMAIN service) /\ \A x \in S : x.quantity \in Int
    BY StringItemsAre
  <1>2. s \in Seq(S) /\ Len(s) = Cardinality(S)
    BY <1>1, ListIs
  <1>3. items = s \o extra \o v
    BY DEF OfferItems, StringItems, VisitItems
  <1>4. visit.quantity \in Int
    OBVIOUS
  <1>5. \A x \in Range(extra) : x.quantity \in Int
    BY DEF IsItems, Range
  <1> HIDE DEF S, s, visit
  <1>6. extra \in Seq(X)
    BY DEF IsItems
  <1>7. s \in Seq(X)
    BY <1>2
  <1>8. v \in Seq(X) /\ Len(v) = IF visits = 0 THEN 0 ELSE 1
    <2>1. visit \in X
      OBVIOUS
    <2>2. v = IF visits = 0 THEN <<>> ELSE <<visit>>
      BY DEF VisitItems, visit
    <2> HIDE DEF X, v
    <2>3. <<>> \in Seq(X) /\ <<visit>> \in Seq(X) /\ Len(<<>>) = 0 /\ Len(<<visit>>) = 1
      BY <2>1
    <2> QED
      BY <2>2, <2>3
  <1>9. \A x \in X : x.quantity \in Int
    BY <1>1, <1>4, <1>5
  <1> HIDE DEF X, v
  <1>10. s \o extra \in Seq(X) /\ Len(s \o extra) = Len(s) + Len(extra)
    BY <1>6, <1>7, ConcatProperties
  <1>11. (s \o extra) \o v \in Seq(X) /\ Len((s \o extra) \o v) = Len(s \o extra) + Len(v)
    BY <1>8, <1>10, ConcatProperties
  <1> HIDE DEF items
  <1>12. items \in Seq(X) /\ Len(items) = Len(s) + Len(extra) + Len(v)
    BY <1>3, <1>10, <1>11
  <1>13. IsItems(items)
    <2>1. items \in Seq(Range(items))
      BY <1>12, SeqOfRange
    <2>2. \A i \in DOMAIN items : items[i] \in X
      BY <1>12
    <2> QED
      BY <1>9, <2>1, <2>2 DEF IsItems
  <1> QED
    BY <1>1, <1>2, <1>8, <1>12, <1>13 DEF items

LEMMA ServicePriceIs ==
  ASSUME NEW book, IsServiceBook(book), NEW code, ServicePrice(book, code) # {}
  PROVE  Max(ServicePrice(book, code)) \in Int
  <1> DEFINE of == {i \in DOMAIN book : book[i].code = code}
  <1>1. of # {} /\ ServicePrice(book, code) = {book[Min(of)].price}
    BY DEF ServicePrice
  <1>2. IsFiniteSet(DOMAIN book) /\ DOMAIN book \subseteq Int
    BY SeqDomain DEF IsServiceBook
  <1>3. of \subseteq DOMAIN book
    OBVIOUS
  <1> HIDE DEF of
  <1>4. IsFiniteSet(of)
    BY <1>2, <1>3, FS_Subset
  <1>5. Min(of) \in of
    BY <1>1, <1>2, <1>3, <1>4, LeastAndGreatest
  <1> DEFINE price == book[Min(of)].price
  <1>6. price \in Int
    BY <1>3, <1>5 DEF IsServiceBook
  <1> HIDE DEF price
  <1>7. Max({price}) = price
    BY <1>6, MaxIs
  <1> QED
    BY <1>1, <1>6, <1>7 DEF price

\* What is rounded to whole thousands is a number of them, and near.
LEMMA ThousandsAreNear ==
  ASSUME NEW a \in Int, NEW m \in Int, m > 0, NEW k \in Int, k > 0, NEW h, h = HalfUp(a, m * k)
  PROVE  h \in Int /\ 2 * (m * h) - 2 * (a \div k) <= m + 2 /\ 2 * (a \div k) - 2 * (m * h) <= m + 2
  <1> DEFINE F == a \div k
             x == m * h
             y == 2 * x - 2 * F
  <1>1. m * k \in Int /\ m * k > 0
    BY SMT
  <1>2. h \in Int /\ 2 * ((m * k) * h) - 2 * a <= m * k /\ 2 * a - 2 * ((m * k) * h) <= m * k
    BY <1>1, HalfUpIs
  <1>3. F \in Int /\ k * F <= a /\ a < k * F + k
    BY DivIs
  <1>4. (m * k) * h = k * x /\ m * k = k * m /\ x \in Int
    BY <1>2
  <1> HIDE DEF F, x
  <1>5. 2 * (k * x) - 2 * (k * F) < k * m + 2 * k /\ 2 * (k * F) - 2 * (k * x) <= k * m
    BY <1>2, <1>3, <1>4
  <1>6. k * (2 * x - 2 * F) < k * (m + 2) /\ k * (2 * F - 2 * x) <= k * m
    BY <1>3, <1>4, <1>5
  <1>7. \A u, v \in Int : k * u < k * v => u < v
    BY SMT
  <1>8. \A u, v \in Int : k * u <= k * v => u <= v
    BY SMT
  <1>9. 2 * x - 2 * F < m + 2 /\ 2 * F - 2 * x <= m
    BY <1>3, <1>4, <1>6, <1>7, <1>8
  <1> QED
    BY <1>2, <1>3, <1>4, <1>9 DEF x, F

\* An offer of any service, by any book, of whatever is added to it, adds up.
\* (price_pressure_test_offer)
THEOREM OfferedAddsUp ==
  ASSUME NEW service, IsService(service), NEW book, IsServiceBook(book), NEW extra, IsItems(extra),
         NEW visits \in Int, NEW risk \in Int
  PROVE  OffersAddUp(book, risk, PricePressureTestOffer(service, book, extra, visits, risk))
  <1> DEFINE items == OfferItems(service, extra, visits)
             priced == {i \in DOMAIN items : ServicePrice(book, items[i].code) # {}}
             cost(i) == Max(ServicePrice(book, i.code)) * i.quantity
             b == 10
             f == [i \in priced |-> HalfUp(cost(items[i]), b)]
             g == [i \in priced |-> cost(items[i])]
             total == SumFunctionOnSet(f, priced)
             offers == PricePressureTestOffer(service, book, extra, visits, risk)
  <1>1. SUFFICES ASSUME NEW o \in offers
                 PROVE  /\ Near(10 * o.total, SumFunction([i \in DOMAIN o.lines |-> cost(o.lines[i].item)]),
                                10 * Cardinality(DOMAIN o.lines))
                        /\ o.fixed % 100000 = 0
                        /\ Near(o.fixed, (o.total * (1000 + risk)) \div 1000, 100002)
    BY DEF OffersAddUp
  <1>2. /\ DOMAIN o.lines = priced /\ \A i \in priced : o.lines[i].item = items[i]
        /\ o.total = SumFunction(f)
        /\ o.fixed = 100000 * HalfUp(o.total * (1000 + risk), 100000000)
    <2> DEFINE amount(i) == HalfUp(Max(ServicePrice(book, items[i].code)) * items[i].quantity, 10)
               sum == SumFunction([i \in priced |-> amount(i)])
               lines == [i \in priced |-> [item |-> items[i], amount |-> amount(i)]]
               left == [i \in DOMAIN items \ priced |-> items[i]]
               fixed == 100000 * HalfUp(sum * (1000 + risk), 100000000)
               offer == [lines |-> lines, total |-> sum, reservations |-> left, fixed |-> fixed]
    <2>1. offers = IF visits < 0 \/ risk < 0 THEN {} ELSE {offer}
      BY DEF PricePressureTestOffer
    <2>2. o = offer
      <3> HIDE DEF offer, offers
      <3> QED
        BY <1>1, <2>1
    <2>3. f = [i \in priced |-> amount(i)]
      OBVIOUS
    <2>4. DOMAIN lines = priced /\ \A i \in priced : lines[i].item = items[i]
      OBVIOUS
    <2> HIDE DEF lines, left, fixed, sum
    <2>5. o.lines = lines /\ o.total = sum /\ o.fixed = fixed
      BY <2>2
    <2>6. sum = SumFunction(f)
      BY <2>3 DEF sum
    <2>7. o.fixed = 100000 * HalfUp(o.total * (1000 + risk), 100000000)
      BY <2>5 DEF fixed
    <2> HIDE DEF f, priced, items
    <2> QED
      BY <2>4, <2>5, <2>6, <2>7
  <1>3. SumFunction(f) = SumFunctionOnSet(f, priced) /\ SumFunction(g) = SumFunctionOnSet(g, priced)
    BY DEF SumFunction
  <1>4. [i \in DOMAIN o.lines |-> cost(o.lines[i].item)] = g
    BY <1>2
  <1>5. b \in Int /\ b > 0
    OBVIOUS
  <1>6. IsItems(items)
    BY OfferItemsAre
  <1> HIDE DEF items, b, offers
  <1>7. IsFiniteSet(priced) /\ \A i \in priced : cost(items[i]) \in Int
    <2>1. IsFiniteSet(DOMAIN items)
      BY <1>6, SeqDomain DEF IsItems
    <2>2. \A i \in priced : Max(ServicePrice(book, items[i].code)) \in Int /\ items[i].quantity \in Int
      BY <1>6, ServicePriceIs DEF IsItems
    <2> QED
      BY <2>1, <2>2, FS_Subset
  <1> HIDE DEF priced, cost
  <1>8. \A i \in priced : /\ f[i] \in Int /\ g[i] \in Int
                          /\ 2 * (b * f[i]) - 2 * g[i] <= b
                          /\ 2 * g[i] - 2 * (b * f[i]) <= b
    BY <1>5, <1>7, HalfUpIs
  <1> HIDE DEF f, g
  <1> DEFINE F == SumFunctionOnSet(f, priced)
             G == SumFunctionOnSet(g, priced)
             n == Cardinality(priced)
  <1>9. F \in Int /\ G \in Int /\ n \in Nat /\ 2 * (b * F) - 2 * G <= b * n /\ 2 * G - 2 * (b * F) <= b * n
    BY <1>5, <1>7, <1>8, SumOfRounded
  <1> HIDE DEF F, G, n
  <1>10. b * F \in Int /\ b * n \in Int
    BY <1>5, <1>9
  <1>11. Near(b * F, G, b * n)
    BY <1>9, <1>10, NearIs
  <1>12. Near(10 * o.total, SumFunction([i \in DOMAIN o.lines |-> cost(o.lines[i].item)]),
              10 * Cardinality(DOMAIN o.lines))
    <2>1. o.total = F /\ SumFunction([i \in DOMAIN o.lines |-> cost(o.lines[i].item)]) = G /\ Cardinality(DOMAIN o.lines) = n
      BY <1>2, <1>3, <1>4 DEF F, G, n
    <2> QED
      BY <1>11, <2>1 DEF b
  <1> DEFINE k == 1000
             m == 100000
             h == HalfUp(F * (k + risk), m * k)
  <1>13. k \in Int /\ k > 0 /\ m \in Int /\ m > 0 /\ m * k = 100000000
    BY SMT
  <1>14. o.fixed = m * HalfUp(o.total * (k + risk), m * k) /\ o.total = F
    BY <1>2, <1>3, <1>13 DEF F
  <1>15. o.fixed = m * h
    BY <1>14
  <1> HIDE DEF k, m, h
  <1> DEFINE a == F * (k + risk)
  <1>16. a \in Int
    BY <1>9, <1>13
  <1> HIDE DEF a
  <1>17. h = HalfUp(a, m * k)
    BY DEF a, h
  <1>18. h \in Int /\ 2 * (m * h) - 2 * (a \div k) <= m + 2 /\ 2 * (a \div k) - 2 * (m * h) <= m + 2
    BY <1>13, <1>16, <1>17, ThousandsAreNear
  <1>19. a \div k \in Int
    BY <1>13, <1>16, DivIs
  <1>20. Near(m * h, a \div k, m + 2)
    <2> DEFINE x == m * h
               y == a \div k
    <2>1. x \in Int /\ y \in Int /\ m + 2 \in Int
      BY <1>13, <1>18, <1>19
    <2>2. 2 * x - 2 * y <= m + 2 /\ 2 * y - 2 * x <= m + 2
      BY <1>18
    <2> HIDE DEF x, y
    <2>3. Near(x, y, m + 2)
      BY <2>1, <2>2, NearIs
    <2> QED
      BY <2>3 DEF x, y
  <1>21. o.fixed % 100000 = 0
    <2>1. m = 100000
      BY DEF m
    <2>2. o.fixed = 100000 * h /\ h \in Int
      BY <1>15, <1>18, <2>1
    <2> QED
      BY <2>2, SMT
  <1>22. Near(o.fixed, (o.total * (1000 + risk)) \div 1000, 100002)
    <2>1. k = 1000 /\ m + 2 = 100002
      BY SMT DEF k, m
    <2>2. a = o.total * (1000 + risk)
      BY <1>14, <2>1 DEF a
    <2> QED
      BY <1>15, <1>20, <2>1, <2>2
  <1> QED
    BY <1>12, <1>21, <1>22

\* How many strings are tested is a number, and so every service is one of an offer.
LEMMA ServicesAre ==
  ASSUME NEW model, IsFiniteSet(model.strings), NEW percent \in Int
  PROVE  \A s \in ServiceQuantities(model, percent) : IsService(s)
  <1> DEFINE W == {s.stairwell : s \in model.strings}
             f == [s \in model.strings |-> s.stairwell]
             b == 100
  <1> SUFFICES ASSUME NEW s \in ServiceQuantities(model, percent) PROVE IsService(s)
    OBVIOUS
  <1>1. DOMAIN s = W /\ \A w \in W : s[w].test = Ceiling(Cardinality(StringsOf(model, w)) * percent, b)
    <2> DEFINE record(w) == [apartments |-> Cardinality({t.apartment : t \in StringsOf(model, w)}),
                             strings |-> Cardinality(StringsOf(model, w)),
                             test |-> Ceiling(Cardinality(StringsOf(model, w)) * percent, 100),
                             length |-> TotalLength(StringsOf(model, w))]
               service == [w \in W |-> record(w)]
    <2>1. ServiceQuantities(model, percent) = IF percent \notin 1 .. 100 THEN {} ELSE {service}
      BY DEF ServiceQuantities
    <2>2. s = service
      BY <2>1
    <2>3. \A w : record(w).test = Ceiling(Cardinality(StringsOf(model, w)) * percent, 100)
      OBVIOUS
    <2> HIDE DEF record
    <2>4. DOMAIN s = W /\ \A w \in W : s[w] = record(w)
      BY <2>2
    <2> QED
      BY <2>3, <2>4
  <1>2. W = ImageOf(f, model.strings)
    BY DEF ImageOf
  <1>3. b \in Int /\ b > 0
    OBVIOUS
  <1> HIDE DEF b, W, f
  <1>4. IsFiniteSet(W)
    BY <1>2, ImageIsFinite
  <1>5. \A w \in W : s[w].test \in Int
    <2> SUFFICES ASSUME NEW w \in W PROVE s[w].test \in Int
      OBVIOUS
    <2> DEFINE n == Cardinality(StringsOf(model, w))
    <2>1. n \in Nat
      BY FS_Subset, FS_CardinalityType DEF StringsOf
    <2> HIDE DEF n
    <2>2. -(n * percent) \in Int
      BY <2>1
    <2>3. (-(n * percent)) \div b \in Int
      BY <1>3, <2>2, DivIs
    <2>4. Ceiling(n * percent, b) \in Int
      BY <2>3 DEF Ceiling
    <2> QED
      BY <1>1, <2>4 DEF n
  <1> QED
    BY <1>1, <1>4, <1>5 DEF IsService

LEMMA RisersAreFinite ==
  ASSUME NEW flats, flats \in Seq(Range(flats)), NEW levels, NEW config, IsFiniteSet(DOMAIN config.dims)
  PROVE  IsFiniteSet(BuildRiserModel(flats, levels, config).strings)
  <1> DEFINE model == BuildRiserModel(flats, levels, config)
             first == {i \in DOMAIN flats : \A j \in 1 .. i - 1 : flats[j].id # flats[i].id}
             known == {i \in first : HeightTo(levels, flats[i].plan, config.top) # {}}
             string(i, k) == [apartment |-> flats[i].id, stairwell |-> flats[i].stairwell, kind |-> k,
                              dim |-> config.dims[k], medium |-> config.media[k],
                              length |-> Max(HeightTo(levels, flats[i].plan, config.top)) + config.allowance]
             f == [p \in known \X DOMAIN config.dims |-> string(p[1], p[2])]
  <1>1. model.strings = {string(i, k) : i \in known, k \in DOMAIN config.dims}
    BY DEF BuildRiserModel
  <1>2. IsFiniteSet(known)
    <2>1. known \subseteq DOMAIN flats
      OBVIOUS
    <2> HIDE DEF known
    <2> QED
      BY <2>1, SeqDomain, FS_Subset
  <1> HIDE DEF known, string, model
  <1>3. IsFiniteSet(known \X DOMAIN config.dims)
    BY <1>2, FS_Product
  <1>4. model.strings = ImageOf(f, known \X DOMAIN config.dims)
    <2>1. \A x : x \in model.strings <=> \E i \in known, k \in DOMAIN config.dims : x = string(i, k)
      BY <1>1
    <2>2. \A i \in known, k \in DOMAIN config.dims : <<i, k>> \in known \X DOMAIN config.dims /\ f[<<i, k>>] = string(i, k)
      OBVIOUS
    <2>3. \A p \in known \X DOMAIN config.dims : \E i \in known, k \in DOMAIN config.dims : p = <<i, k>>
      OBVIOUS
    <2> HIDE DEF f
    <2>4. \A x : x \in ImageOf(f, known \X DOMAIN config.dims) <=> \E p \in known \X DOMAIN config.dims : x = f[p]
      BY DEF ImageOf
    <2>5. ASSUME NEW x \in model.strings PROVE x \in ImageOf(f, known \X DOMAIN config.dims)
      <3>1. PICK i \in known, k \in DOMAIN config.dims : x = string(i, k)
        BY <2>1
      <3>2. <<i, k>> \in known \X DOMAIN config.dims /\ x = f[<<i, k>>]
        BY <2>2, <3>1
      <3> QED
        BY <2>4, <3>2
    <2>6. ASSUME NEW x \in ImageOf(f, known \X DOMAIN config.dims) PROVE x \in model.strings
      <3>1. PICK p \in known \X DOMAIN config.dims : x = f[p]
        BY <2>4
      <3>2. PICK i \in known, k \in DOMAIN config.dims : p = <<i, k>>
        BY <2>3
      <3> QED
        BY <2>1, <2>2, <3>1, <3>2
    <2> QED
      BY <2>5, <2>6
  <1> HIDE DEF f
  <1> QED
    BY <1>3, <1>4, ImageIsFinite DEF model

-----------------------------------------------------------------------------
(* WHOLE.  What was said is told or left out for a reason                   *)

LEMMA SizeOfKinds ==
  ASSUME NEW S, IsFiniteSet(S), NEW kind, NEW K, IsFiniteSet(K), \A x \in S : kind[x] \in K,
         NEW sizes, \A k \in K : sizes[k] = Cardinality(OfKind(kind, S, k))
  PROVE  SumFunctionOnSet(sizes, K) = Cardinality(S)
  <1> DEFINE f == [x \in S |-> 1]
  <1>1. \A x \in S : f[x] = 1 /\ f[x] \in Int
    OBVIOUS
  <1> HIDE DEF f
  <1>2. ASSUME NEW k \in K PROVE sizes[k] = SumFunctionOnSet(f, OfKind(kind, S, k))
    <2>1. OfKind(kind, S, k) \subseteq S
      BY DEF OfKind
    <2>2. IsFiniteSet(OfKind(kind, S, k)) /\ \A x \in OfKind(kind, S, k) : f[x] = 1
      BY <1>1, <2>1, FS_Subset
    <2> QED
      BY <2>2, SumOfOnes
  <1>3. SumFunctionOnSet(sizes, K) = SumFunctionOnSet(f, S)
    BY <1>1, <1>2, SumOfKinds
  <1>4. SumFunctionOnSet(f, S) = Cardinality(S)
    BY <1>1, SumOfOnes
  <1> QED
    BY <1>3, <1>4

\* The rows of a drawing count every component once.
LEMMA CountsAddUp ==
  ASSUME NEW items, IsFiniteSet(DOMAIN items), DOMAIN items \subseteq Int
  PROVE  LET rows == BuildQuantityTakeoff(items)
         IN  SumFunction([j \in DOMAIN rows |-> Max(rows[j].quantity)]) = Cardinality(DOMAIN items)
  <1> DEFINE D == DOMAIN items
             of(i) == SameKind(items, i)
             rows == BuildQuantityTakeoff(items)
             K == DOMAIN rows
             kind == [i \in D |-> Min(of(i))]
             sizes == [j \in K |-> Max(rows[j].quantity)]
  <1>1. /\ K = {i \in D : \A k \in of(i) : i <= k}
        /\ \A i \in K : rows[i].quantity = {Cardinality(of(i))}
        /\ \A i \in D : IsFiniteSet(of(i)) /\ i \in of(i)
    BY CountsAre
  <1>2. \A i, j \in D : j \in of(i) => of(j) = of(i)
    BY DEF SameKind
  <1>3. \A i \in D : of(i) \subseteq D
    BY DEF SameKind
  <1> HIDE DEF of, rows
  <1>4. \A i \in D : /\ Min(of(i)) \in of(i) /\ \A y \in of(i) : Min(of(i)) <= y
    BY <1>1, <1>3, LeastAndGreatest
  <1>5. ASSUME NEW i \in D PROVE kind[i] \in K
    <2>1. Min(of(i)) \in D /\ of(Min(of(i))) = of(i)
      BY <1>2, <1>3, <1>4
    <2> QED
      BY <1>1, <1>4, <2>1
  <1>6. ASSUME NEW k \in K PROVE OfKind(kind, D, k) = of(k)
    <2>1. k \in D /\ \A y \in of(k) : k <= y
      BY <1>1
    <2>2. ASSUME NEW i \in D, Min(of(i)) = k PROVE i \in of(k)
      BY <1>1, <1>2, <1>4, <2>1, <2>2
    <2>3. ASSUME NEW i \in of(k) PROVE i \in D /\ Min(of(i)) = k
      <3>1. i \in D /\ of(i) = of(k)
        BY <1>2, <1>3, <2>1
      <3>2. Min(of(i)) \in of(k) /\ Min(of(i)) <= k /\ k \in of(k)
        BY <1>1, <1>4, <2>1, <3>1
      <3> QED
        BY <1>3, <2>1, <3>1, <3>2
    <2> QED
      BY <2>2, <2>3 DEF OfKind
  <1>7. \A k \in K : sizes[k] = Cardinality(OfKind(kind, D, k))
    <2> SUFFICES ASSUME NEW k \in K PROVE sizes[k] = Cardinality(OfKind(kind, D, k))
      OBVIOUS
    <2> DEFINE n == Cardinality(of(k))
    <2>1. n \in Int
      BY <1>1, FS_CardinalityType
    <2> HIDE DEF n
    <2>2. Max({n}) = n
      BY <2>1, MaxIs
    <2>3. rows[k].quantity = {n}
      BY <1>1 DEF n
    <2> QED
      BY <1>6, <2>2, <2>3 DEF n
  <1>8. IsFiniteSet(K)
    BY <1>1, FS_Subset
  <1>9. DOMAIN sizes = K
    OBVIOUS
  <1> HIDE DEF kind, sizes, K, D
  <1>10. SumFunctionOnSet(sizes, K) = Cardinality(D)
    BY <1>5, <1>7, <1>8, SizeOfKinds DEF D
  <1>11. SumFunction(sizes) = Cardinality(D)
    BY <1>9, <1>10 DEF SumFunction
  <1> QED
    BY <1>11 DEF sizes, K, D, rows

LEMMA DrawingCounts ==
  ASSUME NEW drawing, drawing \in Seq(Range(drawing))
  PROVE  LET rows == BuildVentModel(drawing).takeoff
         IN  SumFunction([j \in DOMAIN rows |-> Max(rows[j].quantity)]) = Len(drawing)
  <1> DEFINE items == ClassifyCandidates(drawing)
  <1>1. BuildVentModel(drawing).takeoff = BuildQuantityTakeoff(items)
    BY DEF BuildVentModel
  <1>2. DOMAIN items = DOMAIN drawing
    BY DEF ClassifyCandidates
  <1> HIDE DEF items
  <1> QED
    BY <1>1, <1>2, SeqDomain, CountsAddUp

\* How much a takeoff tells: its lines and what it skipped.
ReadOf(t) == Cardinality(DOMAIN t.lines) + Cardinality(DOMAIN t.skipped)

LEMMA SourceIsWhole ==
  ASSUME NEW reason, IsFiniteSet(DOMAIN reason), NEW lines, DOMAIN lines \subseteq DOMAIN reason
  PROVE  ReadOf(SourceTakeoff(lines, reason)) = Cardinality(DOMAIN reason)
  <1> DEFINE D == DOMAIN reason
             L == DOMAIN lines
             t == SourceTakeoff(lines, reason)
  <1>1. t.lines = lines /\ DOMAIN t.skipped = D \ L
    BY DEF SourceTakeoff, Restrict
  <1> HIDE DEF D, L, t
  <1>2. IsFiniteSet(D) /\ L \in SUBSET D
    BY DEF D, L
  <1>3. IsFiniteSet(L) /\ IsFiniteSet(D \ L) /\ D \cap L = L
    BY <1>2, FS_Subset
  <1>4. Cardinality(D \ L) = Cardinality(D) - Cardinality(D \cap L)
    BY <1>2, FS_Difference
  <1>5. Cardinality(L) \in Nat /\ Cardinality(D \ L) \in Nat /\ Cardinality(D) \in Nat
    BY <1>2, <1>3, FS_CardinalityType
  <1>6. Cardinality(D) = Cardinality(L) + Cardinality(D \ L)
    <2> DEFINE x == Cardinality(L)
               y == Cardinality(D \ L)
               z == Cardinality(D)
    <2>1. x \in Nat /\ y \in Nat /\ z \in Nat /\ y = z - x
      BY <1>3, <1>4, <1>5
    <2> HIDE DEF x, y, z
    <2>2. z = x + y
      BY <2>1
    <2> QED
      BY <2>2 DEF x, y, z
  <1> QED
    BY <1>1, <1>6 DEF ReadOf, D, L, t

LEMMA GeometryIsWhole ==
  ASSUME NEW rows, IsFiniteSet(DOMAIN rows)
  PROVE  ReadOf(TakeoffFromGeometry(rows)) = Cardinality(DOMAIN rows)
  <1> DEFINE measured == {i \in DOMAIN rows : rows[i].length # {}}
             counted == {i \in DOMAIN rows \ measured : rows[i].quantity \notin {{}, {0}}}
             reason == [i \in DOMAIN rows |-> "no_quantity"]
  <1> DEFINE line(i) ==
               IF i \in measured
               THEN Line("duct", rows[i].code, rows[i].dim, CHOOSE l \in rows[i].length : TRUE, "m", 100)
               ELSE Line("component", rows[i].code, rows[i].dim, 10 * (CHOOSE q \in rows[i].quantity : TRUE), "st", 100)
             lines == [i \in measured \cup counted |-> line(i)]
  <1>1. TakeoffFromGeometry(rows) = SourceTakeoff(lines, reason) /\ DOMAIN lines = measured \cup counted
    <2>1. TakeoffFromGeometry(rows) = SourceTakeoff(lines, reason)
      BY Zenon DEF TakeoffFromGeometry
    <2>2. DOMAIN lines = measured \cup counted
      OBVIOUS
    <2> QED
      BY <2>1, <2>2
  <1> HIDE DEF lines
  <1>2. DOMAIN reason = DOMAIN rows /\ measured \cup counted \subseteq DOMAIN rows
    OBVIOUS
  <1> HIDE DEF reason, measured, counted
  <1> QED
    BY <1>1, <1>2, SourceIsWhole

\* The rows of a table that say anything.
SaidRows(rows) == {i \in DOMAIN rows : \E c \in DOMAIN rows[i] : rows[i][c].is # "empty"}

LEMMA TableIsWhole ==
  ASSUME NEW rows, IsFiniteSet(DOMAIN rows)
  PROVE  ReadOf(TakeoffFromTable(rows)) = Cardinality(SaidRows(rows))
  <1> DEFINE said == SaidRows(rows)
             known(i) == {c \in DOMAIN rows[i] : rows[i][c].is \in {"duct", "component"}}
             found(i) == NumericAfter(rows[i], Min(known(i)))
             reason == [i \in said |-> IF known(i) = {} THEN "no_lexicon_match" ELSE "no_quantity_cell"]
             D == {j \in said : known(j) # {} /\ found(j).quantity # {}}
  <1> DEFINE line(i) ==
               LET cell == rows[i][Min(known(i))]
               IN  Line(cell.is, cell.what.code, cell.what.dim, CHOOSE q \in found(i).quantity : TRUE,
                        IF found(i).unit # {} THEN CHOOSE u \in found(i).unit : TRUE
                        ELSE IF cell.is = "duct" THEN "m" ELSE "st",
                        cell.what.confidence)
             lines == [i \in D |-> line(i)]
  <1>1. TakeoffFromTable(rows) = SourceTakeoff(lines, reason) /\ DOMAIN lines = D
    <2>1. TakeoffFromTable(rows) = SourceTakeoff(lines, reason)
      BY Zenon DEF TakeoffFromTable, SaidRows
    <2>2. DOMAIN lines = D
      OBVIOUS
    <2> QED
      BY <2>1, <2>2
  <1> HIDE DEF lines
  <1>2. DOMAIN reason = said /\ D \subseteq said
    OBVIOUS
  <1>3. said \subseteq DOMAIN rows
    BY DEF SaidRows
  <1> HIDE DEF reason, D, said
  <1>4. IsFiniteSet(said)
    BY <1>3, FS_Subset
  <1> QED
    BY SMTT(30), <1>1, <1>2, <1>4, SourceIsWhole DEF said

LEMMA TextIsWhole ==
  ASSUME NEW text, IsFiniteSet(DOMAIN text)
  PROVE  ReadOf(TakeoffFromText(text)) = Cardinality(DOMAIN text)
  <1> DEFINE reason == [i \in DOMAIN text |-> IF text[i].duct THEN "duct_mention_without_length" ELSE "unknown_identity"]
             D == {j \in DOMAIN text : ~ text[j].duct /\ text[j].what # {}}
  <1> DEFINE line(i) ==
               LET c == CHOOSE c \in text[i].what : TRUE
               IN  Line("component", c.code, "none", 10 * text[i].count, "st", Rounded(9 * c.confidence, 10))
             lines == [i \in D |-> line(i)]
  <1>1. TakeoffFromText(text) = SourceTakeoff(lines, reason) /\ DOMAIN lines = D
    <2>1. TakeoffFromText(text) = SourceTakeoff(lines, reason)
      BY Zenon DEF TakeoffFromText
    <2>2. DOMAIN lines = D
      OBVIOUS
    <2> QED
      BY <2>1, <2>2
  <1> HIDE DEF lines
  <1>2. DOMAIN reason = DOMAIN text /\ D \subseteq DOMAIN text
    OBVIOUS
  <1> HIDE DEF reason, D
  <1> QED
    BY <1>1, <1>2, SourceIsWhole

\* What the elements of a sequence come to, and those of two, one after the other.
TotalOf(val, s) == SumFunctionOnSet([i \in DOMAIN s |-> val[s[i]]], DOMAIN s)

LEMMA TotalOfBoth ==
  ASSUME NEW X, NEW val, \A x \in X : val[x] \in Int, NEW s \in Seq(X), NEW t \in Seq(X)
  PROVE  /\ s \o t \in Seq(X) /\ TotalOf(val, s \o t) = TotalOf(val, s) + TotalOf(val, t)
         /\ TotalOf(val, s) \in Int /\ TotalOf(val, t) \in Int
  <1> DEFINE n == Len(s)
             m == Len(t)
             u == s \o t
             A == 1 .. n
             B == 1 .. m
             shift == [i \in B |-> n + i]
             C == ImageOf(shift, B)
             f == [i \in DOMAIN u |-> val[u[i]]]
             a == [i \in DOMAIN s |-> val[s[i]]]
             b == [i \in DOMAIN t |-> val[t[i]]]
  <1>1. n \in Nat /\ m \in Nat /\ DOMAIN s = A /\ DOMAIN t = B /\ \A i \in A : s[i] \in X
    OBVIOUS
  <1>2. \A i \in B : t[i] \in X
    OBVIOUS
  <1>3. u \in Seq(X) /\ Len(u) = n + m /\ \A i \in 1 .. n + m : u[i] = IF i <= n THEN s[i] ELSE t[i - n]
    BY ConcatProperties
  <1> HIDE DEF u, n, m
  <1>4. DOMAIN u = 1 .. n + m
    BY <1>3
  <1>5. DOMAIN u = A \cup C /\ A \cap C = {}
    <2>1. \A i : i \in C <=> \E j \in B : i = n + j
      BY DEF ImageOf
    <2>2. \A i \in C : i \in n + 1 .. n + m
      BY <1>1, <2>1
    <2>3. ASSUME NEW i \in n + 1 .. n + m PROVE i \in C
      <3>1. i - n \in B /\ i = n + (i - n)
        BY <1>1
      <3> QED
        BY <2>1, <3>1
    <2> HIDE DEF C, shift
    <2> QED
      BY <1>1, <1>4, <2>2, <2>3
  <1>6. IsFiniteSet(A) /\ IsFiniteSet(B)
    BY <1>1, UpTo
  <1>7. \A i \in A : f[i] = a[i] /\ f[i] \in Int
    BY <1>1, <1>3, <1>4
  <1>8. \A i \in B : f[shift[i]] = b[i] /\ b[i] \in Int
    <2> SUFFICES ASSUME NEW i \in B PROVE f[n + i] = b[i] /\ b[i] \in Int
      OBVIOUS
    <2>1. n + i \in 1 .. n + m /\ ~ (n + i <= n) /\ (n + i) - n = i
      BY <1>1
    <2>2. u[n + i] = t[i] /\ t[i] \in X
      BY <1>2, <1>3, <2>1
    <2> QED
      BY <1>1, <1>4, <2>1, <2>2
  <1>9. \A i, j \in B : shift[i] = shift[j] => i = j
    BY <1>1
  <1>10. ASSUME NEW i \in C PROVE f[i] \in Int
    <2>1. PICK j \in B : i = shift[j]
      BY DEF ImageOf
    <2> HIDE DEF f, b, shift, C
    <2> QED
      BY <1>8, <2>1
  <1> HIDE DEF f, a, b, shift
  <1>11. IsFiniteSet(C) /\ SumFunctionOnSet(f, C) = SumFunctionOnSet(b, B)
    BY <1>6, <1>8, <1>9, SumOfImage
  <1> HIDE DEF A, B, C
  <1>12. \A i \in A \cup C : f[i] \in Int
    BY <1>7, <1>10
  <1>13. SumFunctionOnSet(f, A \cup C) = SumFunctionOnSet(f, A) + SumFunctionOnSet(f, C)
    BY <1>5, <1>6, <1>11, <1>12, SumOfBoth
  <1>14. SumFunctionOnSet(a, A) = SumFunctionOnSet(f, A)
    BY <1>6, <1>7, SumSame
  <1>15. SumFunctionOnSet(a, A) \in Int /\ SumFunctionOnSet(b, B) \in Int
    BY <1>6, <1>7, <1>8, SumIsInt
  <1>16. TotalOf(val, u) = SumFunctionOnSet(f, A \cup C) /\ TotalOf(val, s) = SumFunctionOnSet(a, A) /\ TotalOf(val, t) = SumFunctionOnSet(b, B)
    BY <1>1, <1>5 DEF TotalOf, f, a, b
  <1>17. TotalOf(val, u) = TotalOf(val, s) + TotalOf(val, t)
    BY <1>11, <1>13, <1>14, <1>16
  <1> QED
    BY <1>3, <1>15, <1>16, <1>17 DEF u

LEMMA TotalOfFew ==
  ASSUME NEW val
  PROVE  /\ TotalOf(val, <<>>) = 0
         /\ \A x : val[x] \in Int => TotalOf(val, <<x>>) = val[x]
  <1>1. TotalOf(val, <<>>) = 0
    <2> DEFINE f == [i \in DOMAIN <<>> |-> val[<<>>[i]]]
    <2>1. DOMAIN <<>> = {}
      OBVIOUS
    <2> HIDE DEF f
    <2>2. SumFunctionOnSet(f, {}) = 0
      BY SumOfNone
    <2> QED
      BY <2>1, <2>2 DEF TotalOf, f
  <1>2. ASSUME NEW x, val[x] \in Int PROVE TotalOf(val, <<x>>) = val[x]
    <2> DEFINE f == [i \in DOMAIN <<x>> |-> val[<<x>>[i]]]
    <2>1. DOMAIN <<x>> = {1} /\ f[1] = val[x] /\ DOMAIN <<x>> = {} \cup {1}
      OBVIOUS
    <2>2. TotalOf(val, <<x>>) = SumFunctionOnSet(f, DOMAIN <<x>>)
      BY DEF TotalOf
    <2> HIDE DEF f
    <2>3. SumFunctionOnSet(f, {} \cup {1}) = f[1] + SumFunctionOnSet(f, {})
      BY <1>2, <2>1, FS_EmptySet, SumAdd
    <2>4. SumFunctionOnSet(f, {}) = 0
      BY SumOfNone
    <2> QED
      BY <1>2, <2>1, <2>2, <2>3, <2>4
  <1> QED
    BY <1>1, <1>2

\* Everything that the documents say is read: the rows of the drawings, the rows of the
\* table that say anything and the mentions of the text.
LEMMA ReadingsAreWhole ==
  ASSUME NEW body, IsBody(body)
  PROVE  LET t == TakeoffsOf(body)
             rows == [i \in DOMAIN body.drawings |-> BuildVentModel(body.drawings[i]).takeoff]
         IN  SumFunction([i \in DOMAIN t |-> ReadOf(t[i])])
               = SumFunction([i \in DOMAIN rows |-> Cardinality(DOMAIN rows[i])]) + Cardinality(SaidRows(body.table))
                   + SumFunction([x \in body.text |-> Len(x)])
  <1> DEFINE rows == [i \in DOMAIN body.drawings |-> BuildVentModel(body.drawings[i]).takeoff]
             n == Len(body.drawings)
             f == [i \in DOMAIN body.drawings |-> TakeoffFromGeometry(rows[i])]
             x == CHOOSE x \in body.text : TRUE
             table == TakeoffFromTable(body.table)
             text == TakeoffFromText(x)
             g == IF body.table = <<>> THEN <<>> ELSE <<table>>
             h == IF body.text = {} THEN <<>> ELSE <<text>>
             X == {f[i] : i \in 1 .. n} \cup {t \in {table} : body.table # <<>>} \cup {t \in {text} : body.text # {}}
             val == [t \in X |-> ReadOf(t)]
             sizes == [i \in DOMAIN rows |-> Cardinality(DOMAIN rows[i])]
             s == TakeoffsOf(body)
  <1>1. n \in Nat /\ DOMAIN body.drawings = 1 .. n /\ IsFiniteSet(1 .. n)
    BY SeqDomain DEF IsBody
  <1>2. DOMAIN f = 1 .. n /\ f = [i \in 1 .. n |-> f[i]] /\ DOMAIN rows = 1 .. n /\ DOMAIN sizes = 1 .. n
    BY <1>1
  <1>3. ASSUME NEW i \in 1 .. n
        PROVE  ReadOf(f[i]) = sizes[i] /\ sizes[i] \in Int
    <2>1. body.drawings[i] \in Seq(Range(body.drawings[i]))
      BY <1>1 DEF IsBody
    <2>2. DOMAIN rows[i] \subseteq DOMAIN body.drawings[i]
      BY <1>1, <2>1, SeqDomain, GeometryIs
    <2>3. IsFiniteSet(DOMAIN rows[i])
      BY <2>1, <2>2, SeqDomain, FS_Subset
    <2>4. f[i] = TakeoffFromGeometry(rows[i]) /\ sizes[i] = Cardinality(DOMAIN rows[i])
      BY <1>1
    <2> HIDE DEF rows, f, sizes
    <2> QED
      BY <2>3, <2>4, GeometryIsWhole, FS_CardinalityType
  <1>4. ReadOf(table) = Cardinality(SaidRows(body.table)) /\ ReadOf(table) \in Int
    <2>1. IsFiniteSet(DOMAIN body.table)
      BY SeqDomain DEF IsBody
    <2>2. IsFiniteSet(SaidRows(body.table))
      BY <2>1, FS_Subset DEF SaidRows
    <2> QED
      BY <2>1, <2>2, TableIsWhole, FS_CardinalityType
  <1>5. body.text # {} => body.text = {x} /\ ReadOf(text) = Len(x) /\ ReadOf(text) \in Int
    <2> SUFFICES ASSUME body.text # {} PROVE body.text = {x} /\ ReadOf(text) = Len(x) /\ ReadOf(text) \in Int
      OBVIOUS
    <2>1. x \in body.text
      OBVIOUS
    <2>2. body.text = {x}
      BY <2>1 DEF IsBody
    <2> HIDE DEF x
    <2>3. x \in Seq(Range(x))
      BY <2>1 DEF IsBody, IsText
    <2> QED
      BY <2>2, <2>3, SeqDomain, TextIsWhole
  <1>6. s = (f \o g) \o h
    <2>1. f = [i \in DOMAIN body.drawings |-> TakeoffFromGeometry(BuildVentModel(body.drawings[i]).takeoff)]
      OBVIOUS
    <2> HIDE DEF f
    <2> QED
      BY <2>1 DEF TakeoffsOf
  <1>7. /\ \A i \in 1 .. n : f[i] \in X
        /\ body.table # <<>> => table \in X
        /\ body.text # {} => text \in X
    OBVIOUS
  <1>8. \A t \in X : (\E i \in 1 .. n : t = f[i]) \/ t = table \/ (t = text /\ body.text # {})
    OBVIOUS
  <1>9. \A t \in X : val[t] = ReadOf(t)
    OBVIOUS
  <1> HIDE DEF f, table, text, X, val, sizes, s, rows, n
  <1>10. \A t \in X : val[t] \in Int
    BY <1>3, <1>4, <1>5, <1>8, <1>9
  <1>11. f \in Seq(X)
    BY <1>1, <1>2, <1>7
  <1>12. /\ g \in Seq(X)
         /\ TotalOf(val, g) = Cardinality(SaidRows(body.table))
    <2>1. CASE body.table = <<>>
      <3>1. SaidRows(body.table) = {}
        BY <2>1 DEF SaidRows
      <3>2. g = <<>>
        BY <2>1
      <3> QED
        BY <3>1, <3>2, TotalOfFew, FS_EmptySet, EmptySeq
    <2>2. CASE body.table # <<>>
      <3>1. g = <<table>> /\ table \in X
        BY <1>7, <2>2
      <3> HIDE DEF g
      <3>2. g \in Seq(X)
        BY <3>1
      <3>3. TotalOf(val, g) = val[table]
        BY <1>10, <3>1, TotalOfFew
      <3> QED
        BY <1>4, <1>9, <3>1, <3>2, <3>3
    <2> QED
      BY <2>1, <2>2
  <1>13. /\ h \in Seq(X)
         /\ TotalOf(val, h) = SumFunction([y \in body.text |-> Len(y)])
    <2> DEFINE l == [y \in body.text |-> Len(y)]
    <2>0. SumFunction(l) = SumFunctionOnSet(l, body.text)
      BY DEF SumFunction
    <2>1. CASE body.text = {}
      <3>1. h = <<>>
        BY <2>1
      <3> HIDE DEF h, l
      <3>2. SumFunctionOnSet(l, body.text) = 0
        BY <2>1, SumOfNone
      <3>3. h \in Seq(X) /\ TotalOf(val, h) = 0
        BY <3>1, TotalOfFew, EmptySeq
      <3> QED
        BY <2>0, <3>2, <3>3 DEF l
    <2>2. CASE body.text # {}
      <3>1. h = <<text>> /\ text \in X /\ body.text = {} \cup {x} /\ l[x] = Len(x) /\ l[x] \in Int
        BY <1>5, <1>7, <2>2
      <3> HIDE DEF h, l, x
      <3>2. h \in Seq(X)
        BY <3>1
      <3>3. TotalOf(val, h) = val[text]
        BY <1>10, <3>1, TotalOfFew
      <3>4. SumFunctionOnSet(l, {} \cup {x}) = l[x] + SumFunctionOnSet(l, {})
        BY <3>1, FS_EmptySet, SumAdd
      <3>5. SumFunctionOnSet(l, {}) = 0
        BY SumOfNone
      <3>6. TotalOf(val, h) = SumFunctionOnSet(l, body.text)
        BY <1>5, <1>9, <2>2, <3>1, <3>3, <3>4, <3>5
      <3> QED
        BY <2>0, <3>2, <3>6 DEF l
    <2> QED
      BY <2>1, <2>2
  <1> HIDE DEF g, h
  <1>14. /\ f \o g \in Seq(X) /\ TotalOf(val, f \o g) = TotalOf(val, f) + TotalOf(val, g)
    BY SMTT(30), <1>10, <1>11, <1>12, TotalOfBoth
  <1>15. TotalOf(val, (f \o g) \o h) = TotalOf(val, f \o g) + TotalOf(val, h) /\ (f \o g) \o h \in Seq(X)
    <2> DEFINE u == f \o g
    <2>1. u \in Seq(X) /\ h \in Seq(X)
      BY <1>13, <1>14
    <2> HIDE DEF u
    <2>2. u \o h \in Seq(X) /\ TotalOf(val, u \o h) = TotalOf(val, u) + TotalOf(val, h)
      BY <1>10, <2>1, TotalOfBoth
    <2> QED
      BY <2>2 DEF u
  <1>16. TotalOf(val, f) = SumFunction(sizes)
    <2> DEFINE a == [i \in DOMAIN f |-> val[f[i]]]
    <2>1. \A i \in 1 .. n : a[i] = sizes[i] /\ sizes[i] \in Int
      BY <1>2, <1>3, <1>7, <1>9
    <2> HIDE DEF a
    <2>2. SumFunctionOnSet(a, 1 .. n) = SumFunctionOnSet(sizes, 1 .. n)
      BY <1>1, <2>1, SumSame
    <2> QED
      BY <1>2, <2>2 DEF TotalOf, SumFunction, a
  <1>17. SumFunction([i \in DOMAIN s |-> ReadOf(s[i])]) = TotalOf(val, s)
    <2>1. \A i \in DOMAIN s : s[i] \in X
      BY <1>6, <1>15
    <2>2. [i \in DOMAIN s |-> ReadOf(s[i])] = [i \in DOMAIN s |-> val[s[i]]]
      BY <1>9, <2>1
    <2> QED
      BY <2>2 DEF TotalOf, SumFunction
  <1>18. TotalOf(val, s) = SumFunction(sizes) + Cardinality(SaidRows(body.table)) + SumFunction([y \in body.text |-> Len(y)])
    BY <1>6, <1>12, <1>13, <1>14, <1>15, <1>16
  <1> QED
    BY <1>17, <1>18 DEF s, sizes, rows

\* The lines of a consolidated takeoff are told apart by their keys.
KeysApart(c) == \A l, m \in c.lines : l.key = m.key => l = m

LEMMA ConsolidatedWhole ==
  ASSUME NEW takeoffs, IsTakeoffs(takeoffs), NEW tolerance
  PROVE  LET c == ConsolidateTakeoffs(takeoffs, tolerance)
         IN  ConsolidatedIsWhole(takeoffs, c) /\ KeysApart(c)
  <1> DEFINE all == LinesOf(takeoffs)
             key(p) == LineKey(LineAt(takeoffs, p))
             of(k) == {p \in all : key(p) = k}
             keys == {key(p) : p \in all}
             line(k) == ConsolidatedLine(takeoffs, of(k), tolerance)
             c == ConsolidateTakeoffs(takeoffs, tolerance)
  <1>1. c.lines = {line(k) : k \in keys}
    BY ConsolidatedIs
  <1> HIDE DEF c, all
  <1>2. ASSUME NEW k \in keys
        PROVE  /\ line(k).sources = of(k) /\ line(k).key = k
               /\ line(k).selected \subseteq {LineAt(takeoffs, p).quantity : p \in of(k)}
    <2> DEFINE at == of(k)
               l == ConsolidatedLine(takeoffs, at, tolerance)
    <2>1. at \subseteq LinesOf(takeoffs) /\ at # {} /\ \A p \in at : key(p) = k
      BY DEF all
    <2>2. line(k) = l
      OBVIOUS
    <2> HIDE DEF at
    <2>3. l.sources = at
      BY <2>1, ReferenceIs
    <2>4. PICK p \in at : l.key = LineKey(LineAt(takeoffs, p)) /\ l.selected \subseteq {LineAt(takeoffs, p).quantity}
      BY <2>1, ReferenceIs
    <2>5. l.key = k
      BY <2>1, <2>4
    <2> HIDE DEF l, key
    <2>6. l.selected \subseteq {LineAt(takeoffs, r).quantity : r \in at}
      BY <2>4
    <2> HIDE DEF line
    <2> QED
      BY <2>2, <2>3, <2>5, <2>6 DEF at
  <1>3. \A p \in all : key(p) \in keys /\ p \in of(key(p)) /\ \A k : p \in of(k) => k = key(p)
    OBVIOUS
  <1> HIDE DEF line, keys, of, key
  <1>4. KeysApart(c)
    BY <1>1, <1>2 DEF KeysApart
  <1>5. ASSUME NEW p \in all
        PROVE  Cardinality({l \in c.lines : p \in l.sources}) = 1
    <2>1. {l \in c.lines : p \in l.sources} = {line(key(p))}
      BY <1>1, <1>2, <1>3
    <2> QED
      BY <2>1, FS_Singleton
  <1>6. ASSUME NEW l \in c.lines
        PROVE  l.selected \subseteq {LineAt(takeoffs, p).quantity : p \in l.sources}
    BY <1>1, <1>2
  <1>7. ConsolidatedIsWhole(takeoffs, c)
    BY <1>5, <1>6 DEF ConsolidatedIsWhole, all, LinesOf, LineAt
  <1> QED
    BY <1>4, <1>7 DEF c

\* As many of a set as of what is made of its elements one by one.
LEMMA SizeOfImage ==
  ASSUME NEW S, IsFiniteSet(S), NEW h, \A x, y \in S : h[x] = h[y] => x = y
  PROVE  IsFiniteSet(ImageOf(h, S)) /\ Cardinality(ImageOf(h, S)) = Cardinality(S)
  <1> DEFINE f == [x \in S |-> h[x]]
             T == ImageOf(h, S)
  <1>1. f \in [S -> T] /\ \A t \in T : \E x \in S : f[x] = t
    BY DEF ImageOf
  <1>2. \A x, y \in S : f[x] = f[y] => x = y
    OBVIOUS
  <1>3. DOMAIN f = S
    OBVIOUS
  <1> HIDE DEF f, T
  <1>4. f \in Injection(S, T) /\ f \in Surjection(S, T)
    BY <1>1, <1>2, <1>3 DEF Injection, IsInjective, Surjection
  <1>5. IsFiniteSet(T) /\ Cardinality(T) = Cardinality(S)
    BY <1>4, FS_Surjection
  <1> QED
    BY <1>5 DEF T

LEMMA SizeOfParts ==
  ASSUME NEW S, IsFiniteSet(S), NEW T, T \subseteq S
  PROVE  /\ IsFiniteSet(T) /\ IsFiniteSet(S \ T) /\ Cardinality(S) \in Nat /\ Cardinality(T) \in Nat
         /\ Cardinality(S \ T) \in Nat /\ Cardinality(S) = Cardinality(T) + Cardinality(S \ T)
  <1> DEFINE x == Cardinality(T)
             y == Cardinality(S \ T)
             z == Cardinality(S)
  <1>1. IsFiniteSet(T) /\ IsFiniteSet(S \ T) /\ S \cap T = T
    BY FS_Subset
  <1>2. y = z - Cardinality(S \cap T)
    BY FS_Difference
  <1>3. x \in Nat /\ y \in Nat /\ z \in Nat
    BY <1>1, FS_CardinalityType
  <1> HIDE DEF x, y, z
  <1>4. y = z - x
    BY <1>1, <1>2 DEF x
  <1>5. z = x + y
    BY <1>3, <1>4
  <1> QED
    BY <1>1, <1>3, <1>5 DEF x, y, z

LEMMA PricedWhole ==
  ASSUME NEW c, IsFiniteSet(c.lines), KeysApart(c), c.questions = {l.key : l \in {m \in c.lines : m.selected = {}}}, NEW book
  PROVE  PricedIsWhole(c, PriceConsolidatedTakeoff(c, book))
  <1> DEFINE entry(l) == PriceEntry(book, l.key)
             L == c.lines
             R == {l \in L : l.selected # {}}
             M == {l \in R : \E e \in entry(l) : e.unit = l.unit}
             price == [l \in M |-> PricedLine(l, CHOOSE e \in entry(l) : TRUE, book)]
             excuse == [l \in R \ M |-> [key |-> l.key, reason |-> IF entry(l) = {} THEN "no_price_entry"
                                                                   ELSE "price_unit_mismatch"]]
             keyOf == [l \in L |-> l.key]
             p == PriceConsolidatedTakeoff(c, book)
             nothing == [overhead |-> 0, risk |-> 0, profit |-> 0, days |-> 1]
  <1>1. /\ p.lines = {PricedLine(l, CHOOSE e \in entry(l) : TRUE, book) : l \in M}
        /\ p.questions = c.questions
        /\ p.reservations = {l.key : l \in L \ R}
        /\ p.unpriced = {[key |-> l.key, reason |-> IF entry(l) = {} THEN "no_price_entry"
                                                    ELSE "price_unit_mismatch"] : l \in R \ M}
    BY DEF PriceConsolidatedTakeoff
  <1>2. p.lines = ImageOf(price, M) /\ p.unpriced = ImageOf(excuse, R \ M) /\ p.reservations = ImageOf(keyOf, L \ R)
    <2>1. p.lines = ImageOf(price, M)
      BY <1>1 DEF ImageOf
    <2>2. p.unpriced = ImageOf(excuse, R \ M)
      BY <1>1 DEF ImageOf
    <2>3. p.reservations = ImageOf(keyOf, L \ R)
      BY <1>1 DEF ImageOf
    <2> QED
      BY <2>1, <2>2, <2>3
  <1>3. \A l \in M : price[l].key = l.key
    BY DEF PricedLine
  <1>4. \A l \in R \ M : excuse[l].key = l.key
    OBVIOUS
  <1>5. \A l \in L : keyOf[l] = l.key
    OBVIOUS
  <1>6. R \subseteq L /\ M \subseteq R /\ L \ R = {m \in L : m.selected = {}}
    OBVIOUS
  <1>7. \A l, m \in L : l.key = m.key => l = m
    BY DEF KeysApart
  <1>8. p.questions = p.reservations
    BY <1>1, <1>6
  <1>9. \A r \in BuildVentQuote(p, nothing) : r.ready <=> p.unpriced = {} /\ p.reservations = {}
    <2> HIDE DEF p
    <2> DEFINE ready == p.unpriced = {} /\ p.reservations = {}
               share(percent) == HalfUp(p.grand * percent, 100)
               quote == [base |-> p.grand, overhead |-> share(0), risk |-> share(0), profit |-> share(0),
                         total |-> p.grand + share(0) + share(0) + share(0), ready |-> ready]
    <2>1. BuildVentQuote(p, nothing) \subseteq {quote}
      <3>1. nothing.overhead = 0 /\ nothing.risk = 0 /\ nothing.profit = 0
        OBVIOUS
      <3>2. share(nothing.overhead) = share(0) /\ share(nothing.risk) = share(0) /\ share(nothing.profit) = share(0)
        BY <3>1
      <3> HIDE DEF nothing
      <3> QED
        BY <3>2 DEF BuildVentQuote
    <2>2. quote.ready <=> ready
      OBVIOUS
    <2> HIDE DEF quote, nothing
    <2> QED
      BY <2>1, <2>2
  <1> HIDE DEF p, price, excuse, keyOf, M, R, entry, nothing
  <1>10. /\ {l.key : l \in p.lines} = {l.key : l \in M}
         /\ {u.key : u \in p.unpriced} = {l.key : l \in R \ M}
    <2>1. {l.key : l \in p.lines} = {l.key : l \in M}
      BY <1>2, <1>3 DEF ImageOf
    <2>2. {u.key : u \in p.unpriced} = {l.key : l \in R \ M}
      BY <1>2, <1>4 DEF ImageOf
    <2> QED
      BY <2>1, <2>2
  <1>11. {l.key : l \in L} = {l.key : l \in p.lines} \cup {u.key : u \in p.unpriced} \cup p.reservations
    <2>1. \A l : l \in L <=> l \in M \/ l \in R \ M \/ l \in L \ R
      BY <1>6
    <2> HIDE DEF L
    <2>2. {l.key : l \in L} = {l.key : l \in M} \cup {l.key : l \in R \ M} \cup {l.key : l \in L \ R}
      BY <2>1
    <2> QED
      BY <1>1, <1>10, <2>2 DEF L
  <1>12. Cardinality(L) = Cardinality(p.lines) + Cardinality(p.unpriced) + Cardinality(p.reservations)
    <2>1. IsFiniteSet(L) /\ IsFiniteSet(R) /\ IsFiniteSet(M) /\ IsFiniteSet(R \ M) /\ IsFiniteSet(L \ R)
      BY <1>6, SizeOfParts
    <2>2. \A l, m \in M : price[l] = price[m] => l = m
      BY <1>3, <1>6, <1>7
    <2>3. \A l, m \in R \ M : excuse[l] = excuse[m] => l = m
      BY <1>4, <1>6, <1>7
    <2>4. \A l, m \in L \ R : keyOf[l] = keyOf[m] => l = m
      BY <1>5, <1>7
    <2>5. Cardinality(p.lines) = Cardinality(M)
      BY <1>2, <2>1, <2>2, SizeOfImage
    <2>6. Cardinality(p.unpriced) = Cardinality(R \ M)
      BY <1>2, <2>1, <2>3, SizeOfImage
    <2>7. Cardinality(p.reservations) = Cardinality(L \ R)
      BY <1>2, <2>1, <2>4, SizeOfImage
    <2>8. Cardinality(L) = Cardinality(R) + Cardinality(L \ R) /\ Cardinality(R) = Cardinality(M) + Cardinality(R \ M)
      BY <1>6, <2>1, SizeOfParts
    <2> QED
      BY <2>5, <2>6, <2>7, <2>8
  <1>13. (p.unpriced = {} /\ p.reservations = {}) <=> {l.key : l \in p.lines} = {l.key : l \in L}
    <2>1. ASSUME p.unpriced = {}, p.reservations = {}
          PROVE  {l.key : l \in p.lines} = {l.key : l \in L}
      BY <1>11, <2>1
    <2>2. ASSUME {l.key : l \in p.lines} = {l.key : l \in L}
          PROVE  p.unpriced = {} /\ p.reservations = {}
      <3>1. \A l \in L : \E m \in M : m.key = l.key
        BY <1>10, <2>2
      <3>2. L \subseteq M
        BY <1>6, <1>7, <3>1
      <3>3. R \ M = {} /\ L \ R = {}
        BY <1>6, <3>2
      <3> QED
        BY <1>2, <3>3 DEF ImageOf
    <2> QED
      BY <2>1, <2>2
  <1>14. \A r \in BuildVentQuote(p, nothing) : r.ready <=> {l.key : l \in p.lines} = {l.key : l \in L}
    BY <1>9, <1>13
  <1>15. PricedIsWhole(c, p)
    BY <1>8, <1>11, <1>12, <1>14 DEF PricedIsWhole, nothing, L
  <1> QED
    BY <1>15 DEF p

\* What the documents of a takeoff say is in it: every component of a drawing is counted,
\* every row and mention is a line or was skipped for a reason, and every line is
\* consolidated once and then priced, unpriced or a reservation and a question. A quote is
\* ready when nothing but prices is left. (build_quantity_takeoff, takeoff_from_*,
\* consolidate_takeoffs, price_consolidated_takeoff, build_vent_quote)
THEOREM TakeoffsAreAlwaysWhole ==
  ASSUME NEW body, IsBody(body)
  PROVE  TakeoffsAreWhole(body)
  <1> DEFINE rows == [i \in DOMAIN body.drawings |-> BuildVentModel(body.drawings[i]).takeoff]
             all == TakeoffsOf(body)
             tolerance == IF body.tolerance = 0 THEN 20 ELSE body.tolerance
             c == ConsolidateTakeoffs(all, tolerance)
             read(t) == Cardinality(DOMAIN t.lines) + Cardinality(DOMAIN t.skipped)
  <1>1. ASSUME NEW i \in DOMAIN rows
        PROVE  SumFunction([j \in DOMAIN rows[i] |-> Max(rows[i][j].quantity)]) = Len(body.drawings[i])
    <2>1. body.drawings[i] \in Seq(Range(body.drawings[i])) /\ rows[i] = BuildVentModel(body.drawings[i]).takeoff
      BY DEF IsBody
    <2> HIDE DEF rows
    <2> QED
      BY <2>1, DrawingCounts
  <1>2. ASSUME NEW t \in VentTakeoff(body)
        PROVE  t = PricedBy(body.book, all, c)
    BY DEF VentTakeoff
  <1>3. SumFunction([i \in DOMAIN all |-> read(all[i])])
          = SumFunction([i \in DOMAIN rows |-> Cardinality(DOMAIN rows[i])]) + Cardinality(SaidRows(body.table))
              + SumFunction([x \in body.text |-> Len(x)])
    BY ReadingsAreWhole DEF ReadOf
  <1>4. IsTakeoffs(all)
    BY TakeoffsAre
  <1> HIDE DEF all, tolerance
  <1>5. ConsolidatedIsWhole(all, c) /\ KeysApart(c)
    BY <1>4, ConsolidatedWhole
  <1>6. IsFiniteSet(c.lines) /\ c.questions = {l.key : l \in {m \in c.lines : m.selected = {}}}
    BY <1>4, ConsolidatedIs DEF IsConsolidated
  <1> HIDE DEF c
  <1>7. \A b : PricedIsWhole(c, PriceConsolidatedTakeoff(c, b))
    BY <1>5, <1>6, PricedWhole
  <1>8. ASSUME NEW t \in VentTakeoff(body)
        PROVE  /\ SumFunction([i \in DOMAIN t.takeoffs |-> read(t.takeoffs[i])])
                    = SumFunction([i \in DOMAIN rows |-> Cardinality(DOMAIN rows[i])]) + Cardinality(SaidRows(body.table))
                        + SumFunction([x \in body.text |-> Len(x)])
               /\ ConsolidatedIsWhole(t.takeoffs, t.consolidated)
               /\ \A p \in t.priced : PricedIsWhole(t.consolidated, p)
    <2>1. t.takeoffs = all /\ t.consolidated = c /\ t.priced = {PriceConsolidatedTakeoff(c, b) : b \in body.book}
      BY <1>2 DEF PricedBy
    <2> HIDE DEF rows, read
    <2>2. SumFunction([i \in DOMAIN t.takeoffs |-> read(t.takeoffs[i])]) = SumFunction([i \in DOMAIN all |-> read(all[i])])
      BY <2>1
    <2> QED
      BY <1>3, <1>5, <1>7, <2>1, <2>2
  <1> HIDE DEF rows
  <1> QED
    BY <1>1, <1>8 DEF TakeoffsAreWhole, rows, SaidRows

-----------------------------------------------------------------------------
(* What is offered, tested and told is whole                                *)

IsLevels(levels) == \A l \in DOMAIN levels : levels[l] \in Int

FirstFlats(flats) == {i \in DOMAIN flats : \A j \in 1 .. i - 1 : flats[j].id # flats[i].id}
KnownFlats(flats, levels, config) ==
    {i \in FirstFlats(flats) : HeightTo(levels, flats[i].plan, config.top) # {}}
StringFor(flats, levels, config, i, k) ==
    [apartment |-> flats[i].id, stairwell |-> flats[i].stairwell, kind |-> k,
     dim |-> config.dims[k], medium |-> config.media[k],
     length |-> Max(HeightTo(levels, flats[i].plan, config.top)) + config.allowance]

LEMMA RiserIs ==
  ASSUME NEW flats, NEW levels, NEW config
  PROVE  LET model == BuildRiserModel(flats, levels, config)
             known == KnownFlats(flats, levels, config)
         IN  /\ \A x : x \in model.strings <=>
                         \E i \in known, k \in DOMAIN config.dims : x = StringFor(flats, levels, config, i, k)
             /\ model.skipped = {flats[i].id : i \in FirstFlats(flats) \ known}
  <1>1. BuildRiserModel(flats, levels, config).strings
          = {StringFor(flats, levels, config, i, k) : i \in KnownFlats(flats, levels, config), k \in DOMAIN config.dims}
    BY DEF BuildRiserModel, KnownFlats, FirstFlats, StringFor
  <1>2. BuildRiserModel(flats, levels, config).skipped
          = {flats[i].id : i \in FirstFlats(flats) \ KnownFlats(flats, levels, config)}
    BY DEF BuildRiserModel, KnownFlats, FirstFlats
  <1> QED
    BY <1>1, <1>2

LEMMA FirstsAre ==
  ASSUME NEW flats, flats \in Seq(Range(flats))
  PROVE  /\ FirstFlats(flats) \subseteq DOMAIN flats
         /\ \A i, j \in FirstFlats(flats) : flats[i].id = flats[j].id => i = j
         /\ \A i \in DOMAIN flats : \E j \in FirstFlats(flats) : flats[j].id = flats[i].id
  <1>1. Len(flats) \in Nat /\ DOMAIN flats = 1 .. Len(flats) /\ IsFiniteSet(DOMAIN flats) /\ DOMAIN flats \subseteq Int
    BY SeqDomain
  <1>2. ASSUME NEW i \in FirstFlats(flats), NEW j \in FirstFlats(flats), flats[i].id = flats[j].id
        PROVE  i = j
    <2>1. i \in 1 .. Len(flats) /\ j \in 1 .. Len(flats)
      BY <1>1 DEF FirstFlats
    <2>2. ~ i \in 1 .. j - 1
      BY <1>2 DEF FirstFlats
    <2>3. ~ j \in 1 .. i - 1
      BY <1>2 DEF FirstFlats
    <2> QED
      BY <1>1, <2>1, <2>2, <2>3
  <1>3. ASSUME NEW i \in DOMAIN flats
        PROVE  \E j \in FirstFlats(flats) : flats[j].id = flats[i].id
    <2> DEFINE T == {j \in DOMAIN flats : flats[j].id = flats[i].id}
               m == Min(T)
    <2>1. T \subseteq DOMAIN flats /\ i \in T
      OBVIOUS
    <2>2. IsFiniteSet(T)
      BY <1>1, <2>1, FS_Subset
    <2>3. m \in T /\ \A y \in T : m <= y
      BY <1>1, <2>1, <2>2, LeastAndGreatest
    <2> HIDE DEF m
    <2>4. m \in DOMAIN flats /\ flats[m].id = flats[i].id
      BY <2>3
    <2>5. ASSUME NEW j \in 1 .. m - 1 PROVE flats[j].id # flats[m].id
      <3>1. j \in DOMAIN flats /\ ~ m <= j
        BY <1>1, <2>4
      <3> QED
        BY <2>3, <2>4, <3>1
    <2> QED
      BY <2>4, <2>5 DEF FirstFlats
  <1> QED
    BY <1>2, <1>3 DEF FirstFlats

LEMMA LengthsAre ==
  ASSUME NEW flats, NEW levels, IsLevels(levels), NEW config, config.allowance \in Int
  PROVE  \A s \in BuildRiserModel(flats, levels, config).strings : s.length \in Int
  <1> SUFFICES ASSUME NEW i \in KnownFlats(flats, levels, config), NEW k
               PROVE  StringFor(flats, levels, config, i, k).length \in Int
    BY RiserIs
  <1> DEFINE plan == flats[i].plan
             H == HeightTo(levels, plan, config.top)
             high == levels[config.top] - levels[plan]
  <1>1. H # {}
    BY DEF KnownFlats
  <1>2. H = {high : p \in {q \in {plan} : {q, config.top} \subseteq DOMAIN levels /\ levels[config.top] > levels[q]}}
    BY DEF HeightTo
  <1>3. {plan, config.top} \subseteq DOMAIN levels /\ H = {high}
    BY <1>1, <1>2
  <1>4. high \in Int
    BY <1>3 DEF IsLevels
  <1> HIDE DEF H, high
  <1>5. Max(H) = high
    BY <1>3, <1>4, MaxIs
  <1>6. StringFor(flats, levels, config, i, k).length = Max(H) + config.allowance
    BY DEF StringFor, H
  <1> QED
    BY <1>4, <1>5, <1>6

\* The ducts of a riser model are as long as its strings.
LEMMA DuctsAreWhole ==
  ASSUME NEW model, IsFiniteSet(model.strings), \A s \in model.strings : s.length \in Int
  PROVE  LET lines == RiserTakeoff(model).lines
         IN  SumFunction([i \in DOMAIN lines |-> lines[i].quantity]) = TotalLength(model.strings)
  <1> DEFINE S == model.strings
             kind == [s \in S |-> <<s.medium, s.dim>>]
             keys == ImageOf(kind, S)
             of(k) == {s \in S : <<s.medium, s.dim>> = k}
             length == [s \in S |-> s.length]
             sums == [k \in keys |-> TotalLength(of(k))]
             line == [k \in keys |-> Line("duct", k[1], k[2], TotalLength(of(k)), "m", 85)]
             T == ImageOf(line, keys)
             lines == SetToSeq(T)
             quantity == [l \in T |-> l.quantity]
             n == Cardinality(T)
             each == [i \in DOMAIN lines |-> lines[i].quantity]
  <1>1. RiserTakeoff(model).lines = lines
    <2>1. {<<s.medium, s.dim>> : s \in model.strings} = keys
      BY DEF ImageOf
    <2>2. T = {Line("duct", k[1], k[2], TotalLength(of(k)), "m", 85) : k \in keys}
      BY DEF ImageOf
    <2>3. RiserTakeoff(model).lines
            = SetToSeq({Line("duct", k[1], k[2], TotalLength(of(k)), "m", 85) : k \in {<<s.medium, s.dim>> : s \in model.strings}})
      BY DEF RiserTakeoff
    <2> HIDE DEF keys, T
    <2> QED
      BY <2>1, <2>2, <2>3
  <1>2. IsFiniteSet(keys) /\ \A s \in S : kind[s] \in keys
    BY ImageIsFinite DEF ImageOf
  <1>3. \A k : of(k) = OfKind(kind, S, k)
    BY DEF OfKind
  <1>4. \A s \in S : length[s] = s.length /\ length[s] \in Int
    OBVIOUS
  <1>5. \A k \in keys : sums[k] = SumFunctionOnSet(length, of(k)) /\ sums[k] \in Int
    <2> SUFFICES ASSUME NEW k \in keys PROVE sums[k] = SumFunctionOnSet(length, of(k)) /\ sums[k] \in Int
      OBVIOUS
    <2> DEFINE R == of(k)
               g == [s \in R |-> s.length]
    <2>1. R \subseteq S
      OBVIOUS
    <2>2. sums[k] = SumFunctionOnSet(g, R)
      BY DEF TotalLength, SumFunction
    <2>3. \A s \in R : g[s] = s.length
      OBVIOUS
    <2> HIDE DEF R, g, length, sums
    <2>4. IsFiniteSet(R) /\ \A s \in R : length[s] \in Int /\ g[s] = length[s]
      BY <1>4, <2>1, <2>3, FS_Subset
    <2>5. SumFunctionOnSet(g, R) = SumFunctionOnSet(length, R) /\ SumFunctionOnSet(length, R) \in Int
      BY <2>4, SumSame, SumIsInt
    <2> QED
      BY <2>2, <2>5 DEF R
  <1>6. \A k \in keys : \E a, b : k = <<a, b>>
    BY DEF ImageOf
  <1>7. \A k \in keys : line[k].code = k[1] /\ line[k].dim = k[2] /\ line[k].quantity = sums[k]
    BY DEF Line
  <1>8. TotalLength(S) = SumFunctionOnSet(length, S)
    BY DEF TotalLength, SumFunction
  <1> HIDE DEF kind, keys, of, length, sums, line, S
  <1>9. SumFunctionOnSet(sums, keys) = SumFunctionOnSet(length, S)
    BY <1>2, <1>3, <1>4, <1>5, SumOfKinds DEF S
  <1>10. \A k, m \in keys : line[k] = line[m] => k = m
    <2> SUFFICES ASSUME NEW k \in keys, NEW m \in keys, line[k] = line[m] PROVE k = m
      OBVIOUS
    <2>1. k[1] = m[1] /\ k[2] = m[2]
      BY <1>7
    <2> QED
      BY <1>6, <2>1
  <1>11. \A k \in keys : quantity[line[k]] = sums[k]
    <2> SUFFICES ASSUME NEW k \in keys PROVE quantity[line[k]] = sums[k]
      OBVIOUS
    <2>1. line[k] \in T
      BY DEF ImageOf
    <2> HIDE DEF T
    <2> QED
      BY <1>7, <2>1
  <1>12. \A t \in T : quantity[t] = t.quantity /\ t.quantity \in Int
    <2> SUFFICES ASSUME NEW t \in T PROVE quantity[t] = t.quantity /\ t.quantity \in Int
      OBVIOUS
    <2>1. PICK k \in keys : t = line[k]
      BY DEF ImageOf
    <2> HIDE DEF T
    <2> QED
      BY <1>5, <1>7, <2>1
  <1> HIDE DEF quantity
  <1>13. IsFiniteSet(T) /\ SumFunctionOnSet(quantity, T) = SumFunctionOnSet(sums, keys)
    BY <1>2, <1>5, <1>10, <1>11, SumOfImage
  <1> HIDE DEF T
  <1>14. lines \in [1 .. n -> T] /\ IsInjective(lines) /\ Range(lines) = T
    BY <1>13, ListIs
  <1>15. n \in Nat /\ IsFiniteSet(1 .. n)
    BY <1>13, FS_CardinalityType, UpTo
  <1> HIDE DEF lines, n
  <1>16. DOMAIN lines = 1 .. n /\ ImageOf(lines, 1 .. n) = T
    BY <1>14 DEF Range, ImageOf
  <1>17. \A i \in 1 .. n : each[i] \in Int /\ quantity[lines[i]] = each[i]
    BY <1>12, <1>14, <1>16
  <1>18. \A i, j \in 1 .. n : lines[i] = lines[j] => i = j
    BY <1>14 DEF IsInjective
  <1>19. DOMAIN each = 1 .. n
    BY <1>16
  <1> HIDE DEF each
  <1>20. SumFunctionOnSet(quantity, ImageOf(lines, 1 .. n)) = SumFunctionOnSet(each, 1 .. n)
    BY <1>15, <1>17, <1>18, SumOfImage
  <1>21. SumFunction(each) = TotalLength(S)
    BY <1>8, <1>9, <1>13, <1>16, <1>19, <1>20 DEF SumFunction
  <1> QED
    BY <1>1, <1>21 DEF each, S

\* Every flat of a riser model has a string of every kind, or it was skipped, and the ducts
\* are as long as the strings. (build_riser_model, to_source_takeoff)
THEOREM RisersAreAlwaysWhole ==
  ASSUME NEW flats, flats \in Seq(Range(flats)), NEW levels, IsLevels(levels),
         NEW config, IsFiniteSet(DOMAIN config.dims), config.allowance \in Int
  PROVE  RisersAreWhole(flats, BuildRiserModel(flats, levels, config), config)
  <1> DEFINE model == BuildRiserModel(flats, levels, config)
             first == FirstFlats(flats)
             known == KnownFlats(flats, levels, config)
             kinds == DOMAIN config.dims
             string(i, k) == StringFor(flats, levels, config, i, k)
             lines == RiserTakeoff(model).lines
             of(id) == {s \in model.strings : s.apartment = id}
  <1>1. /\ \A x : x \in model.strings <=> \E i \in known, k \in kinds : x = string(i, k)
        /\ model.skipped = {flats[i].id : i \in first \ known}
    BY RiserIs
  <1>2. \A i, k : string(i, k).apartment = flats[i].id /\ string(i, k).kind = k
    BY DEF StringFor
  <1>3. /\ first \subseteq DOMAIN flats
        /\ \A i, j \in first : flats[i].id = flats[j].id => i = j
        /\ \A i \in DOMAIN flats : \E j \in first : flats[j].id = flats[i].id
    BY FirstsAre
  <1>4. known \subseteq first
    BY DEF KnownFlats
  <1>5. SumFunction([i \in DOMAIN lines |-> lines[i].quantity]) = TotalLength(model.strings)
    <2>1. IsFiniteSet(model.strings) /\ \A s \in model.strings : s.length \in Int
      BY RisersAreFinite, LengthsAre
    <2> HIDE DEF model
    <2> QED
      BY <2>1, DuctsAreWhole
  <1> HIDE DEF model, first, known, kinds, string, lines
  <1>6. model.skipped \subseteq {flats[i].id : i \in DOMAIN flats}
    BY <1>1, <1>3
  <1>7. ASSUME NEW i \in DOMAIN flats
        PROVE  /\ {s.kind : s \in of(flats[i].id)} = IF flats[i].id \in model.skipped THEN {} ELSE kinds
               /\ \A s, t \in of(flats[i].id) : s.kind = t.kind => s = t
    <2>1. PICK j \in first : flats[j].id = flats[i].id
      BY <1>3
    <2>2. \A s \in of(flats[i].id) : j \in known /\ \E k \in kinds : s = string(j, k) /\ s.kind = k
      <3> SUFFICES ASSUME NEW s \in model.strings, s.apartment = flats[i].id
                   PROVE  j \in known /\ \E k \in kinds : s = string(j, k) /\ s.kind = k
        OBVIOUS
      <3>1. PICK m \in known, k \in kinds : s = string(m, k)
        BY <1>1
      <3>2. flats[m].id = flats[j].id /\ s.kind = k
        BY <1>2, <2>1, <3>1
      <3>3. m = j
        BY <1>3, <1>4, <3>2
      <3> QED
        BY <3>1, <3>2, <3>3
    <2>3. j \in known => \A k \in kinds : string(j, k) \in of(flats[i].id) /\ string(j, k).kind = k
      BY <1>1, <1>2, <2>1
    <2>4. flats[i].id \in model.skipped <=> j \notin known
      <3>1. \A m \in first \ known : flats[m].id = flats[i].id => m = j
        BY <1>3, <2>1
      <3> QED
        BY <1>1, <2>1, <3>1
    <2> HIDE DEF of
    <2>5. CASE j \in known
      <3>1. {s.kind : s \in of(flats[i].id)} = kinds
        BY <2>2, <2>3, <2>5
      <3> QED
        BY <2>2, <2>4, <2>5, <3>1
    <2>6. CASE j \notin known
      BY <2>2, <2>4, <2>6
    <2> QED
      BY <2>5, <2>6
  <1>8. \A id \in {flats[i].id : i \in DOMAIN flats} :
           /\ {s.kind : s \in of(id)} = IF id \in model.skipped THEN {} ELSE kinds
           /\ \A s, t \in of(id) : s.kind = t.kind => s = t
    BY <1>7
  <1> QED
    BY <1>5, <1>6, <1>8 DEF RisersAreWhole, model, lines, kinds

\* Of the strings of every stairwell at least the share that was asked for is tested, and
\* never more than there are. (pressure_test_service_quantities)
THEOREM ServicesAreAlwaysWhole ==
  ASSUME NEW model, IsFiniteSet(model.strings), NEW percent \in Int, NEW s \in ServiceQuantities(model, percent)
  PROVE  ServiceIsWhole(model, percent, s)
  <1> DEFINE S == model.strings
             W == {t.stairwell : t \in S}
             kind == [t \in S |-> t.stairwell]
             b == 100
             sizes == [w \in DOMAIN s |-> s[w].strings]
  <1>1. /\ percent \in 1 .. 100 /\ DOMAIN s = W
        /\ \A w \in W : /\ s[w].test = Ceiling(Cardinality(StringsOf(model, w)) * percent, b)
                        /\ s[w].strings = Cardinality(StringsOf(model, w))
    <2> DEFINE record(w) == [apartments |-> Cardinality({t.apartment : t \in StringsOf(model, w)}),
                             strings |-> Cardinality(StringsOf(model, w)),
                             test |-> Ceiling(Cardinality(StringsOf(model, w)) * percent, 100),
                             length |-> TotalLength(StringsOf(model, w))]
               service == [w \in W |-> record(w)]
    <2>1. ServiceQuantities(model, percent) = IF percent \notin 1 .. 100 THEN {} ELSE {service}
      BY DEF ServiceQuantities
    <2>2. percent \in 1 .. 100 /\ s = service
      BY <2>1
    <2>3. \A w : /\ record(w).test = Ceiling(Cardinality(StringsOf(model, w)) * percent, 100)
                 /\ record(w).strings = Cardinality(StringsOf(model, w))
      OBVIOUS
    <2> HIDE DEF record
    <2>4. DOMAIN s = W /\ \A w \in W : s[w] = record(w)
      BY <2>2
    <2> QED
      BY <2>2, <2>3, <2>4
  <1>2. \A n \in 1 .. 100 : n >= 1 /\ n <= 100
    OBVIOUS
  <1>3. b \in Int /\ b > 0 /\ percent >= 1 /\ percent <= b
    BY <1>1, <1>2
  <1>4. W = ImageOf(kind, S) /\ \A t \in S : kind[t] = t.stairwell /\ kind[t] \in W
    BY DEF ImageOf
  <1>5. \A w : StringsOf(model, w) = OfKind(kind, S, w)
    BY DEF StringsOf, OfKind
  <1>0. IsFiniteSet(S)
    OBVIOUS
  <1> HIDE DEF b, W, kind, S
  <1>6. IsFiniteSet(W)
    BY <1>0, <1>4, ImageIsFinite
  <1>7. \A w \in W : sizes[w] = Cardinality(OfKind(kind, S, w)) /\ sizes[w] = s[w].strings
    BY <1>1, <1>5
  <1>8. DOMAIN sizes = W
    BY <1>1
  <1> HIDE DEF sizes
  <1>9. SumFunctionOnSet(sizes, W) = Cardinality(S)
    BY <1>0, <1>4, <1>6, <1>7, SizeOfKinds
  <1>10. ASSUME NEW w \in W PROVE s[w].test <= s[w].strings /\ 100 * s[w].test >= percent * s[w].strings
    <2> DEFINE n == Cardinality(StringsOf(model, w))
               a == n * percent
               c == (-a) \div b
    <2>1. n \in Nat
      BY FS_Subset, FS_CardinalityType DEF StringsOf
    <2>2. s[w].strings = n /\ s[w].test = -c
      BY <1>1 DEF Ceiling
    <2> HIDE DEF n
    <2>3. a \in Int /\ a <= n * b /\ a = percent * n
      <3>1. \A x, y, z \in Int : x >= 0 /\ y <= z => x * y <= x * z /\ x * y \in Int /\ x * y = y * x
        BY SMT
      <3> QED
        BY <1>3, <2>1, <3>1
    <2> HIDE DEF a
    <2>4. c \in Int /\ b * c <= -a /\ -a < b * c + b
      BY <1>3, <2>3, DivIs
    <2> HIDE DEF c
    <2>5. b * (-c) >= a /\ b * (-c) < n * b + b
      <3>1. b * (-c) = -(b * c) /\ b * c \in Int /\ n * b \in Int
        BY <1>3, <2>1, <2>4
      <3> QED
        BY <1>3, <2>3, <2>4, <3>1
    <2>6. -c <= n
      <3> DEFINE k == -c
      <3>1. k \in Int /\ n \in Int /\ b * k < b * (n + 1)
        BY <1>3, <2>1, <2>4, <2>5
      <3> HIDE DEF k
      <3>2. \A u, v \in Int : b * u < b * v => u < v
        BY <1>3, SMT
      <3>3. k < n + 1
        BY <3>1, <3>2
      <3> QED
        BY <3>1, <3>3 DEF k
    <2>7. 100 * s[w].test >= percent * s[w].strings
      BY <2>2, <2>3, <2>5 DEF b
    <2> QED
      BY <2>2, <2>6, <2>7
  <1>11. SumFunction(sizes) = Cardinality(S)
    BY <1>8, <1>9 DEF SumFunction
  <1> QED
    BY <1>1, <1>10, <1>11 DEF ServiceIsWhole, sizes, S

PricedItems(items, book) == {i \in DOMAIN items : ServicePrice(book, items[i].code) # {}}

LEMMA OfferIs ==
  ASSUME NEW service, NEW book, NEW extra, NEW visits, NEW risk,
         NEW offers, offers = PricePressureTestOffer(service, book, extra, visits, risk), NEW o \in offers,
         NEW items, items = OfferItems(service, extra, visits)
  PROVE  /\ DOMAIN o.lines = PricedItems(items, book)
         /\ \A i \in PricedItems(items, book) : o.lines[i].item = items[i]
         /\ DOMAIN o.reservations = DOMAIN items \ PricedItems(items, book)
         /\ \A i \in DOMAIN items \ PricedItems(items, book) : o.reservations[i] = items[i]
  <1> DEFINE priced == PricedItems(items, book)
             amount(i) == HalfUp(Max(ServicePrice(book, items[i].code)) * items[i].quantity, 10)
             sum == SumFunction([i \in priced |-> amount(i)])
             lines == [i \in priced |-> [item |-> items[i], amount |-> amount(i)]]
             left == [i \in DOMAIN items \ priced |-> items[i]]
             fixed == 100000 * HalfUp(sum * (1000 + risk), 100000000)
             offer == [lines |-> lines, total |-> sum, reservations |-> left, fixed |-> fixed]
  <1>1. offers = IF visits < 0 \/ risk < 0 THEN {} ELSE {offer}
    BY DEF PricePressureTestOffer, PricedItems
  <1>2. o \in offers
    OBVIOUS
  <1>3. o = offer
    <2> HIDE DEF offer
    <2> QED
      BY <1>1, <1>2
  <1>4. /\ DOMAIN lines = priced /\ \A i \in priced : lines[i].item = items[i]
        /\ DOMAIN left = DOMAIN items \ priced /\ \A i \in DOMAIN items \ priced : left[i] = items[i]
    OBVIOUS
  <1> HIDE DEF lines, left, fixed, sum
  <1>5. o.lines = lines /\ o.reservations = left
    BY <1>3
  <1> QED
    BY <1>4, <1>5

\* What was asked for, the strings of the stairwells, what was added by hand and the visits,
\* is a line of the offer or one of its reservations, each once. (price_pressure_test_offer)
THEOREM OffersAreAlwaysWhole ==
  ASSUME NEW service, IsService(service), NEW book, NEW extra, IsItems(extra), NEW visits \in Int, NEW risk
  PROVE  OffersAreWhole(service, extra, visits, PricePressureTestOffer(service, book, extra, visits, risk))
  <1> DEFINE items == OfferItems(service, extra, visits)
             priced == PricedItems(items, book)
             size == Cardinality(DOMAIN service) + Len(extra) + IF visits = 0 THEN 0 ELSE 1
  <1> SUFFICES ASSUME NEW o \in PricePressureTestOffer(service, book, extra, visits, risk)
               PROVE  /\ {l.item : l \in Range(o.lines)} \cup Range(o.reservations) = Range(items)
                      /\ Cardinality(DOMAIN o.lines) + Cardinality(DOMAIN o.reservations) = size
    BY DEF OffersAreWhole
  <1>1. /\ DOMAIN o.lines = priced /\ \A i \in priced : o.lines[i].item = items[i]
        /\ DOMAIN o.reservations = DOMAIN items \ priced
        /\ \A i \in DOMAIN items \ priced : o.reservations[i] = items[i]
    BY OfferIs
  <1>3. IsItems(items) /\ Len(items) = size
    BY OfferItemsAre
  <1>4. priced \subseteq DOMAIN items
    BY DEF PricedItems
  <1> HIDE DEF items, priced, size
  <1>5. {l.item : l \in Range(o.lines)} = {items[i] : i \in priced}
    BY <1>1 DEF Range
  <1>6. Range(o.reservations) = {items[i] : i \in DOMAIN items \ priced}
    BY <1>1 DEF Range
  <1>7. {l.item : l \in Range(o.lines)} \cup Range(o.reservations) = Range(items)
    BY <1>4, <1>5, <1>6 DEF Range
  <1>8. Len(items) \in Nat /\ DOMAIN items = 1 .. Len(items) /\ IsFiniteSet(DOMAIN items)
    BY <1>3, SeqDomain DEF IsItems
  <1>9. Cardinality(DOMAIN items) = Len(items)
    BY <1>8, UpTo
  <1>10. Cardinality(DOMAIN items) = Cardinality(priced) + Cardinality(DOMAIN items \ priced)
    BY <1>4, <1>8, SizeOfParts
  <1> QED
    BY <1>1, <1>3, <1>7, <1>9, <1>10

-----------------------------------------------------------------------------
(* A test: what is told of it is founded                                    *)

\* Every string is a candidate of the test or was skipped. (vent_candidates)
THEOREM CandidatesAreAlwaysWhole ==
  ASSUME NEW strings, strings \in Seq(Range(strings))
  PROVE  CandidatesAreWhole(strings)
  <1> DEFINE D == DOMAIN strings
             found == {i \in D : Candidate(strings[i]) # {}}
             c == [i \in found |-> strings[i]]
             s == [i \in D \ found |-> strings[i]]
             all == VentCandidates(strings)
  <1>1. all = [candidates |-> c, skipped |-> s]
    BY DEF VentCandidates
  <1>2. found \subseteq D
    OBVIOUS
  <1>3. Len(strings) \in Nat /\ D = 1 .. Len(strings) /\ IsFiniteSet(D)
    BY SeqDomain
  <1> HIDE DEF found
  <1>4. /\ DOMAIN c = found /\ Range(c) = {strings[i] : i \in found}
        /\ DOMAIN s = D \ found /\ Range(s) = {strings[i] : i \in D \ found}
    BY DEF Range
  <1> HIDE DEF c, s, all
  <1>5. all.candidates = c /\ all.skipped = s
    BY <1>1
  <1>6. Range(c) \cup Range(s) = Range(strings)
    BY <1>2, <1>4 DEF Range
  <1> HIDE DEF D
  <1>7. Cardinality(D) = Len(strings)
    BY <1>3, UpTo
  <1>8. Cardinality(D) = Cardinality(found) + Cardinality(D \ found)
    BY <1>2, <1>3, SizeOfParts
  <1> QED
    BY <1>4, <1>5, <1>6, <1>7, <1>8 DEF CandidatesAreWhole, all

\* The strictest of the classes asked of a family is one of them, and no other is as
\* strict. (find_conflicts)
THEOREM ConflictsAreAlwaysStrict ==
  ASSUME NEW asked, \A r \in asked : r.class \in {"A", "B", "C", "D"}
  PROVE  ConflictsAreStrict(asked)
  <1> DEFINE classes(f) == {r.class : r \in {q \in asked : q.family = f}}
             places(f) == {i \in DOMAIN Strictness : Strictness[i] \in classes(f)}
             families == {g \in {r.family : r \in asked} : Cardinality(classes(g)) > 1}
             conflict(f) == [family |-> f, classes |-> classes(f), strictest |-> Strictness[Max(places(f))]]
  <1>1. FindConflicts(asked) = {conflict(f) : f \in families}
    BY DEF FindConflicts
  <1> DEFINE n == 4
  <1>2. n \in Nat /\ DOMAIN Strictness = 1 .. n
    BY DEF Strictness
  <1>3. \A i, j \in 1 .. n : Strictness[i] = Strictness[j] => i = j
    BY DEF Strictness
  <1>4. \A k \in {"A", "B", "C", "D"} : \E i \in 1 .. n : Strictness[i] = k
    <2>1. /\ Strictness[1] = "A" /\ Strictness[2] = "B" /\ Strictness[3] = "C" /\ Strictness[4] = "D"
          /\ 1 \in 1 .. n /\ 2 \in 1 .. n /\ 3 \in 1 .. n /\ 4 \in 1 .. n
      BY DEF Strictness
    <2> QED
      BY <2>1
  <1>5. \A f : \A k \in classes(f) : k \in {"A", "B", "C", "D"}
    OBVIOUS
  <1>6. \A f \in families : classes(f) # {}
    OBVIOUS
  <1> HIDE DEF n, classes
  <1>7. ASSUME NEW f \in families
        PROVE  {k \in classes(f) : \A i, j \in DOMAIN Strictness :
                   Strictness[i] = k /\ Strictness[j] \in classes(f) => i >= j} = {Strictness[Max(places(f))]}
    <2> DEFINE P == places(f)
               m == Max(P)
               T == {k \in classes(f) : \A i, j \in DOMAIN Strictness :
                        Strictness[i] = k /\ Strictness[j] \in classes(f) => i >= j}
    <2>1. P \subseteq 1 .. n /\ P # {}
      BY <1>2, <1>4, <1>5, <1>6
    <2>2. IsFiniteSet(1 .. n) /\ 1 .. n \subseteq Int
      BY <1>2, UpTo
    <2>3. IsFiniteSet(P)
      BY <2>1, <2>2, FS_Subset
    <2>4. \A i : i \in P <=> i \in 1 .. n /\ Strictness[i] \in classes(f)
      BY <1>2
    <2> HIDE DEF P
    <2>5. m \in P /\ \A y \in P : m >= y
      BY <2>1, <2>2, <2>3, LeastAndGreatest
    <2> HIDE DEF m
    <2>6. m \in 1 .. n /\ Strictness[m] \in classes(f)
      BY <2>4, <2>5
    <2>7. Strictness[m] \in T
      <3>1. \A i, j \in 1 .. n : Strictness[i] = Strictness[m] /\ Strictness[j] \in classes(f) => i >= j
        BY <1>3, <2>4, <2>5, <2>6
      <3> QED
        BY <1>2, <2>6, <3>1
    <2>8. ASSUME NEW k \in T PROVE k = Strictness[m]
      <3>1. PICK i \in 1 .. n : Strictness[i] = k
        BY <1>4, <1>5
      <3>2. i >= m /\ i \in P
        BY <1>2, <2>4, <2>6, <3>1
      <3>3. i \in Int /\ m \in Int /\ m >= i
        BY <2>1, <2>2, <2>5, <3>2
      <3> QED
        BY <3>1, <3>2, <3>3
    <2> HIDE DEF T
    <2>9. T = {Strictness[m]}
      BY <2>7, <2>8
    <2> QED
      BY <2>9 DEF T, m, P
  <1>8. \A f : conflict(f).classes = classes(f) /\ conflict(f).strictest = Strictness[Max(places(f))]
    OBVIOUS
  <1> HIDE DEF families, conflict, places
  <1> QED
    BY <1>1, <1>7, <1>8 DEF ConflictsAreStrict

\* A test says what it is of, and measures at most once.
IsInput(input) ==
    /\ input = [x \in DOMAIN input |-> input[x]]
    /\ {"class", "power", "area", "measured", "origin", "confirmed", "prePour"} \subseteq DOMAIN input
    /\ input.power \in Int /\ input.power > 0 /\ input.area \in Int
    /\ input.measured \subseteq Int /\ \A m, n \in input.measured : m = n
    /\ DOMAIN input.origin = {"class", "pressure"}

\* The fields of a test that someone has to confirm.
Inferred(input) ==
    {f \in DOMAIN input.origin : input.origin[f] = "inferred"} \cup IF input.prePour THEN {"pre_pour"} ELSE {}

LEMMA ProvenanceIs ==
  ASSUME NEW input, DOMAIN input.origin = {"class", "pressure"}
  PROVE  (\A p \in Provenance(input) : ~ RequiresConfirmation(p)) <=> Inferred(input) \subseteq input.confirmed
  <1> DEFINE said(f) == [field |-> f, origin |-> input.origin[f],
                         confirmed |-> input.origin[f] = "stated" \/ f \in input.confirmed]
             poured(f) == [field |-> f, origin |-> "inferred", confirmed |-> f \in input.confirmed]
             pours == IF input.prePour THEN {"pre_pour"} ELSE {}
             fields == {"class", "pressure"}
  <1>1. Provenance(input) = {said(f) : f \in fields} \cup {poured(f) : f \in pours}
    BY DEF Provenance
  <1>2. \A f : RequiresConfirmation(said(f)) <=> input.origin[f] = "inferred" /\ f \notin input.confirmed
    <2> SUFFICES ASSUME NEW f
                 PROVE  RequiresConfirmation(said(f)) <=> input.origin[f] = "inferred" /\ f \notin input.confirmed
      OBVIOUS
    <2>1. said(f).origin = input.origin[f]
      OBVIOUS
    <2>2. said(f).confirmed = (input.origin[f] = "stated" \/ f \in input.confirmed)
      OBVIOUS
    <2>3. RequiresConfirmation(said(f)) <=> said(f).origin = "inferred" /\ ~ said(f).confirmed
      BY Zenon DEF RequiresConfirmation
    <2>4. "inferred" # "stated"
      OBVIOUS
    <2> HIDE DEF said
    <2> QED
      BY <2>1, <2>2, <2>3, <2>4
  <1>3. \A f : RequiresConfirmation(poured(f)) <=> f \notin input.confirmed
    <2> SUFFICES ASSUME NEW f PROVE RequiresConfirmation(poured(f)) <=> f \notin input.confirmed
      OBVIOUS
    <2>1. poured(f).origin = "inferred" /\ poured(f).confirmed = (f \in input.confirmed)
      OBVIOUS
    <2>2. RequiresConfirmation(poured(f)) <=> poured(f).origin = "inferred" /\ ~ poured(f).confirmed
      BY Zenon DEF RequiresConfirmation
    <2> HIDE DEF poured
    <2> QED
      BY <2>1, <2>2
  <1>4. Inferred(input) = {f \in fields : input.origin[f] = "inferred"} \cup pours
    BY DEF Inferred
  <1> HIDE DEF said, poured, pours, fields
  <1> QED
    BY <1>1, <1>2, <1>3, <1>4

\* What a test allows to leak.
Allowed(input) == LeakageFactor[input.class] * input.power * input.area

LEMMA EvaluatedIs ==
  ASSUME NEW input, input.power # 0, input.area \in Int
  PROVE  LET result == EvaluatePressureTest(input)
             valid == input.area > 0 /\ \A m \in input.measured : m >= 0
         IN  /\ result # {} <=> valid
             /\ \A r \in result : /\ r.ready <=> /\ input.measured # {}
                                                 /\ \A p \in Provenance(input) : ~ RequiresConfirmation(p)
                                  /\ r.status = "pass" <=> input.measured # {} /\ Max(input.measured) <= Allowed(input)
  <1> DEFINE a == Allowed(input)
             status == CASE input.measured = {} -> "not_measured"
                         [] input.measured # {} /\ Max(input.measured) <= a -> "pass"
                         [] OTHER -> "fail"
             ready == input.measured # {} /\ \A p \in Provenance(input) : ~ RequiresConfirmation(p)
             record == [allowed |-> a, provenance |-> Provenance(input), status |-> status, ready |-> ready]
             rec(x) == [allowed |-> x, provenance |-> Provenance(input),
                        status |-> CASE input.measured = {} -> "not_measured"
                                     [] input.measured # {} /\ Max(input.measured) <= x -> "pass"
                                     [] OTHER -> "fail",
                        ready |-> input.measured # {} /\ \A p \in Provenance(input) : ~ RequiresConfirmation(p)]
             flows == {f \in AllowedLeakageFlow(input.class, input.power, input.area) : \A m \in input.measured : m >= 0}
  <1>1. EvaluatePressureTest(input) = {rec(x) : x \in flows}
    BY Zenon DEF EvaluatePressureTest
  <1>2. AllowedLeakageFlow(input.class, input.power, input.area) = IF input.area <= 0 THEN {} ELSE {a}
    BY DEF AllowedLeakageFlow, Allowed
  <1>3. flows = IF input.area > 0 /\ (\A m \in input.measured : m >= 0) THEN {a} ELSE {}
    BY <1>2
  <1>4. rec(a).status = status /\ rec(a).ready = ready
    OBVIOUS
  <1>5. status = "pass" <=> input.measured # {} /\ Max(input.measured) <= a
    OBVIOUS
  <1> HIDE DEF rec, flows, status
  <1>6. \A r \in EvaluatePressureTest(input) : r.status = status /\ r.ready = ready
    BY <1>1, <1>3, <1>4
  <1>7. EvaluatePressureTest(input) # {} <=> input.area > 0 /\ (\A m \in input.measured : m >= 0)
    BY <1>1, <1>3
  <1> HIDE DEF a
  <1> QED
    BY <1>5, <1>6, <1>7, Zenon DEF a

\* A protocol says what was measured, once, validly, of an area, and nothing that was
\* inferred and not confirmed; and who passes in a class passes in every laxer one.
\* (evaluate_pressure_test, protocol_xlsx)
THEOREM InputsAreAlwaysFounded ==
  ASSUME NEW input, IsInput(input)
  PROVE  InputIsFounded(input)
  <1> DEFINE passes(class) == \E r \in EvaluatePressureTest([input EXCEPT !.class = class]) : r.status = "pass"
             valid == input.area > 0 /\ \A m \in input.measured : m >= 0
             confirmed == \A p \in Provenance(input) : ~ RequiresConfirmation(p)
             result == EvaluatePressureTest(input)
  <1>1. input.power # 0 /\ input.power \in Int /\ input.power > 0 /\ input.area \in Int
    BY DEF IsInput
  <1>2. result # {} <=> valid
    BY <1>1, EvaluatedIs
  <1>3. \A r \in result : r.ready <=> input.measured # {} /\ confirmed
    BY <1>1, EvaluatedIs
  <1>4. confirmed <=> Inferred(input) \subseteq input.confirmed
    BY ProvenanceIs DEF IsInput
  <1>5. ProtocolAnswer(input) = CASE result = {} -> 422
                                  [] \E r \in result : ~ r.ready -> 409
                                  [] OTHER -> 200
    BY DEF ProtocolAnswer
  <1> HIDE DEF valid, confirmed, result
  <1>6. ProtocolAnswer(input) = 200 <=> result # {} /\ \A r \in result : r.ready
    BY <1>5
  <1>7. ProtocolAnswer(input) = 200
           <=> input.measured # {} /\ (\A m \in input.measured : m >= 0) /\ input.area > 0
                 /\ Inferred(input) \subseteq input.confirmed
    BY <1>2, <1>3, <1>4, <1>6 DEF valid
  <1>8. \A class : passes(class)
                     <=> /\ input.area > 0 /\ input.measured # {} /\ \A m \in input.measured : m >= 0
                         /\ Max(input.measured) <= LeakageFactor[class] * input.power * input.area
    <2> SUFFICES ASSUME NEW class
                 PROVE  passes(class)
                          <=> /\ input.area > 0 /\ input.measured # {} /\ \A m \in input.measured : m >= 0
                              /\ Max(input.measured) <= LeakageFactor[class] * input.power * input.area
      OBVIOUS
    <2> DEFINE of == [input EXCEPT !.class = class]
    <2>1. /\ of.class = class /\ of.power = input.power /\ of.area = input.area /\ of.measured = input.measured
      BY DEF IsInput
    <2> HIDE DEF of
    <2>2. of.power # 0 /\ of.area \in Int
      BY <1>1, <2>1
    <2>3. Allowed(of) = LeakageFactor[class] * input.power * input.area
      BY <2>1 DEF Allowed
    <2>4. /\ EvaluatePressureTest(of) # {} <=> of.area > 0 /\ \A m \in of.measured : m >= 0
          /\ \A r \in EvaluatePressureTest(of) : r.status = "pass" <=> of.measured # {} /\ Max(of.measured) <= Allowed(of)
      BY <2>2, EvaluatedIs
    <2>5. passes(class) <=> \E r \in EvaluatePressureTest(of) : r.status = "pass"
      BY DEF of
    <2> HIDE DEF passes
    <2> QED
      BY <2>1, <2>3, <2>4, <2>5
  <1> HIDE DEF passes
  <1>9. \A i, j \in 1 .. 4 : i <= j => /\ LeakageFactor[Strictness[i]] \in Int /\ LeakageFactor[Strictness[j]] \in Int
                                       /\ LeakageFactor[Strictness[i]] >= LeakageFactor[Strictness[j]]
    <2>1. /\ LeakageFactor["A"] = 27 /\ LeakageFactor["B"] = 9 /\ LeakageFactor["C"] = 3 /\ LeakageFactor["D"] = 1
      BY DEF LeakageFactor
    <2>2. Strictness[1] = "A" /\ Strictness[2] = "B" /\ Strictness[3] = "C" /\ Strictness[4] = "D"
      BY DEF Strictness
    <2>3. \A i \in 1 .. 4 : i = 1 \/ i = 2 \/ i = 3 \/ i = 4
      OBVIOUS
    <2> QED
      BY <2>1, <2>2, <2>3
  <1>10. DOMAIN Strictness = 1 .. 4
    BY DEF Strictness
  <1>11. ASSUME NEW i \in 1 .. 4, NEW j \in 1 .. 4, i <= j, passes(Strictness[j]) PROVE passes(Strictness[i])
    <2> DEFINE x == LeakageFactor[Strictness[i]]
               y == LeakageFactor[Strictness[j]]
               p == input.power
               A == input.area
               M == Max(input.measured)
    <2>1. x \in Int /\ y \in Int /\ x >= y /\ p \in Int /\ p > 0 /\ A \in Int
      BY <1>1, <1>9, <1>11
    <2>2. A > 0 /\ input.measured # {} /\ (\A m \in input.measured : m >= 0) /\ M <= y * p * A
      BY <1>8, <1>11
    <2>3. M \in Int
      <3>1. PICK m \in input.measured : TRUE
        BY <2>2
      <3>2. input.measured \subseteq Int /\ (\A n \in input.measured : m >= n)
        BY DEF IsInput
      <3>3. M = m
        BY <3>1, <3>2, MaxIs
      <3> QED
        BY <3>2, <3>3
    <2> HIDE DEF x, y, p, A, M
    <2>4. \A u, v, w \in Int : u >= v /\ w >= 0 => u * w \in Int /\ v * w \in Int /\ u * w >= v * w
      BY SMT
    <2>5. x * p >= y * p /\ x * p \in Int /\ y * p \in Int
      BY <2>1, <2>4
    <2>6. (x * p) * A >= (y * p) * A /\ (x * p) * A \in Int /\ (y * p) * A \in Int
      BY <2>1, <2>2, <2>4, <2>5
    <2>7. M <= x * p * A
      BY <2>2, <2>3, <2>6
    <2> QED
      BY <1>8, <2>2, <2>7 DEF x, p, A, M
  <1> QED
    BY <1>7, <1>10, <1>11, ZenonT(40) DEF InputIsFounded, Inferred, passes

\* A string of a round duct has one diameter at most.
IsString(s) == s.length \in Int /\ s.round \subseteq Int /\ \A c, d \in s.round : c = d

LEMMA AreaIs ==
  ASSUME NEW strings, strings \in Seq(Range(strings)), \A i \in DOMAIN strings : IsString(strings[i])
  PROVE  LET found == VentCandidates(strings).candidates
         IN  SumFunction([i \in DOMAIN found |-> Max({c.area : c \in Candidate(found[i])})]) \in Int
  <1> DEFINE F == {i \in DOMAIN strings : Candidate(strings[i]) # {}}
             found == VentCandidates(strings).candidates
             area == [i \in DOMAIN found |-> Max({c.area : c \in Candidate(found[i])})]
  <1>1. found = [i \in F |-> strings[i]]
    BY DEF VentCandidates
  <1>2. IsFiniteSet(F)
    BY SeqDomain, FS_Subset
  <1>3. \A i \in F : i \in DOMAIN strings /\ Candidate(strings[i]) # {}
    OBVIOUS
  <1> HIDE DEF F, found
  <1>4. DOMAIN found = F /\ \A i \in F : found[i] = strings[i]
    BY <1>1
  <1>5. ASSUME NEW i \in F PROVE area[i] \in Int
    <2> DEFINE s == strings[i]
               A == {c.area : c \in Candidate(s)}
    <2>1. IsString(s) /\ Candidate(s) # {}
      BY <1>3
    <2>2. area[i] = Max(A)
      BY <1>4
    <2>3. Candidate(s) = {[string |-> s, area |-> d * s.length] : d \in {c \in s.round : s.length > 0}}
      BY DEF Candidate
    <2> HIDE DEF s
    <2>4. PICK d \in s.round : s.length > 0
      BY <2>1, <2>3
    <2>5. A = {d * s.length}
      <3>1. \A c \in s.round : c = d
        BY <2>1, <2>4 DEF IsString
      <3>2. Candidate(s) = {[string |-> s, area |-> d * s.length]}
        BY <2>3, <2>4, <3>1
      <3> QED
        BY <3>2
    <2> DEFINE x == d * s.length
    <2>6. x \in Int
      BY <2>1, <2>4 DEF IsString
    <2> HIDE DEF A, x
    <2>7. Max({x}) = x
      <3>1. {x} \subseteq Int /\ x \in {x} /\ \A y \in {x} : x >= y
        BY <2>6
      <3> QED
        BY <3>1, MaxIs
    <2> QED
      BY <2>2, <2>5, <2>6, <2>7 DEF x
  <1> HIDE DEF area
  <1>6. SumFunctionOnSet(area, F) \in Int
    BY <1>2, <1>5, SumIsInt
  <1>7. DOMAIN area = F
    BY <1>4 DEF area
  <1>8. SumFunction(area) \in Int
    BY <1>6, <1>7 DEF SumFunction
  <1> QED
    BY <1>8 DEF area, found

-----------------------------------------------------------------------------
(* QUERIES.  What is asked of the small documents is what was asked above   *)

LEMMA FewAre ==
  ASSUME NEW list, NEW n, NEW k \in FewOf(list, n)
  PROVE  k \subseteq DOMAIN list
  BY DEF FewOf

LEMMA SomeAre ==
  ASSUME NEW list, list \in Seq(Range(list)), NEW which, which \subseteq DOMAIN list
  PROVE  LET s == Picked(list, which)
         IN  s \in Seq(Range(s)) /\ \A i \in DOMAIN s : s[i] \in Range(list)
  <1> DEFINE s == Picked(list, which)
  <1>1. s \in Seq(Range(s)) /\ Range(s) \subseteq Range(list)
    BY PickedIs
  <1> HIDE DEF s
  <1>2. \A i \in DOMAIN s : s[i] \in Range(s)
    BY DEF Range
  <1> QED
    BY <1>1, <1>2 DEF s

LEMMA DrawingsAreLists == MCDrawing \in Seq(Range(MCDrawing))
  <1>1. MCDrawing = [i \in 1 .. 7 |-> MCDrawing[i]]
    BY DEF MCDrawing
  <1> QED
    BY <1>1, LenIs

LEMMA TablesAreLists ==
  MCTable \in Seq(Range(MCTable)) /\ \A row \in Range(MCTable) : IsRow(row)
  <1>1. MCTable \in Seq(Range(MCTable))
    BY DEF MCTable, Range
  <1>2. \A i \in 1 .. 7 : IsRow(MCTable[i])
    <2>1. IsRow(MCTable[1])
      BY DEF MCTable, IsRow, Recognised, Cell, Figure, UnitCell, Range
    <2>2. IsRow(MCTable[2])
      BY DEF MCTable, IsRow, Recognised, Cell, Figure, UnitCell, Range
    <2>3. IsRow(MCTable[3])
      BY DEF MCTable, IsRow, Recognised, Cell, Figure, UnitCell, Range
    <2>4. IsRow(MCTable[4])
      BY DEF MCTable, IsRow, Recognised, Cell, Figure, UnitCell, Range
    <2>5. IsRow(MCTable[5])
      BY DEF MCTable, IsRow, Recognised, Cell, Figure, UnitCell, Range
    <2>6. IsRow(MCTable[6])
      BY DEF MCTable, IsRow, Recognised, Cell, Figure, UnitCell, Range
    <2>7. IsRow(MCTable[7])
      BY DEF MCTable, IsRow, Recognised, Cell, Figure, UnitCell, Range
    <2> QED
      BY <2>1, <2>2, <2>3, <2>4, <2>5, <2>6, <2>7
  <1>3. DOMAIN MCTable = 1 .. 7
    BY DEF MCTable
  <1> QED
    BY <1>1, <1>2, <1>3 DEF Range

LEMMA TextsAreLists ==
  /\ MCText \in Seq(Range(MCText))
  /\ \A m \in Range(MCText) : m.count \in Int /\ \A c \in m.what : c.confidence \in Int
  <1>1. MCText \in Seq(Range(MCText)) /\ DOMAIN MCText = 1 .. 4
    BY DEF MCText, Range
  <1>2. \A n \in Int : \A codes : LET m == Mention(n, codes) IN m.count \in Int /\ \A c \in m.what : c.confidence \in Int
    BY DEF Mention
  <1>3. DuctMention.count \in Int /\ \A c \in DuctMention.what : c.confidence \in Int
    BY DEF Mention, DuctMention
  <1>4. \A i \in 1 .. 4 : MCText[i].count \in Int /\ \A c \in MCText[i].what : c.confidence \in Int
    <2>1. MCText[1] = Mention(1, {"FD"}) /\ MCText[2] = Mention(2, {}) /\ MCText[3] = DuctMention /\ MCText[4] = Mention(2, {"X"})
      BY DEF MCText
    <2> QED
      BY <1>2, <1>3, <2>1
  <1> QED
    BY <1>1, <1>4 DEF Range

LEMMA BooksAre == IsBook(MCBook)
  <1>1. DOMAIN MCBook.entries = 1 .. 5 /\ MCBook.rate \in Int
    BY DEF MCBook
  <1>2. \A i \in 1 .. 5 : MCBook.entries[i].price \in Int /\ MCBook.entries[i].hours \in Int
    BY DEF MCBook, PriceOf
  <1>3. IsFiniteSet(1 .. 5)
    <2> DEFINE n == 5
    <2>1. n \in Nat
      OBVIOUS
    <2> HIDE DEF n
    <2>2. IsFiniteSet(1 .. n)
      BY <2>1, UpTo
    <2> QED
      BY <2>2 DEF n
  <1>4. 1 .. 5 \subseteq Int
    OBVIOUS
  <1> QED
    BY <1>1, <1>2, <1>3, <1>4 DEF IsBook

LEMMA BodiesAre ==
  ASSUME NEW q \in Takeoffs
  PROVE  q.about = "takeoff" /\ IsBody(TakeoffBody(q))
  <1>1. PICK d \in FewOf(MCDrawing, 1), t \in FewOf(MCTable, 2), x \in FewOf(MCText, 1) :
           q = [about |-> "takeoff", drawing |-> d, table |-> t, text |-> x]
    BY DEF Takeoffs
  <1>2. q.about = "takeoff" /\ q.drawing = d /\ q.table = t /\ q.text = x
    BY <1>1
  <1> DEFINE drawing == Picked(MCDrawing, d)
             table == Picked(MCTable, t)
             text == Picked(MCText, x)
             body == TakeoffBody(q)
  <1>3. drawing \in Seq(Range(drawing))
    BY FewAre, SomeAre, DrawingsAreLists
  <1>4. table \in Seq(Range(table)) /\ \A i \in DOMAIN table : IsRow(table[i])
    BY FewAre, SomeAre, TablesAreLists
  <1>5. IsText(text)
    BY FewAre, SomeAre, TextsAreLists DEF IsText
  <1> HIDE DEF drawing, table, text
  <1>6. /\ body.drawings = IF drawing = <<>> THEN <<>> ELSE <<drawing>>
        /\ body.table = table /\ body.text \subseteq {text} /\ body.book = {MCBook}
    BY <1>2 DEF TakeoffBody, drawing, table, text
  <1> HIDE DEF body
  <1>7. body.drawings \in Seq(Range(body.drawings)) /\ \A i \in DOMAIN body.drawings : body.drawings[i] = drawing
    <2>1. CASE drawing = <<>>
      BY <1>6, <2>1, EmptySeq
    <2>2. CASE drawing # <<>>
      <3>1. body.drawings = <<drawing>>
        BY <1>6, <2>2
      <3>2. DOMAIN <<drawing>> = 1 .. 1 /\ <<drawing>>[1] = drawing /\ \A i \in 1 .. 1 : i = 1
        OBVIOUS
      <3>3. <<drawing>> \in Seq({drawing})
        OBVIOUS
      <3>4. <<drawing>> \in Seq(Range(<<drawing>>))
        BY <3>3, SeqOfRange
      <3> QED
        BY <3>1, <3>2, <3>4
    <2> QED
      BY <2>1, <2>2
  <1>8. IsBody(body)
    BY <1>3, <1>4, <1>5, <1>6, <1>7, BooksAre DEF IsBody
  <1> QED
    BY <1>2, <1>8 DEF body

LEMMA QuotesAre ==
  ASSUME NEW q \in Takeoffs
  PROVE  q.about = "takeoff" /\ QuotesAddUp(q)
  <1>1. BodyAddsUp(TakeoffBody(q)) /\ q.about = "takeoff"
    BY BodiesAre, TakeoffsAddUp
  <1>2. \A r \in MCRequests : IsRequest(r)
    BY DEF MCRequests, IsRequest
  <1>3. \A range \in MCRanges : IsRange(range)
    <2> SUFFICES ASSUME NEW n \in {335, 299}, NEW range, range = [low |-> 301, normal |-> n, high |-> 457], RangeIsValid(range)
                 PROVE  IsRange(range)
      BY DEF MCRanges
    <2>1. range.low = 301 /\ range.normal = n /\ range.high = 457
      OBVIOUS
    <2>2. range = [low |-> range.low, normal |-> range.normal, high |-> range.high]
      BY <2>1
    <2> QED
      BY <2>1, <2>2 DEF IsRange
  <1>4. \A n \in {10, 25, 105} : n \in Int /\ n >= 5
    OBVIOUS
  <1> SUFFICES ASSUME NEW t \in VentTakeoff(TakeoffBody(q)), NEW p \in t.priced
               PROVE  /\ LinesAddUp(p)
                      /\ \A r \in MCRequests : SharesAddUp(p, r)
                      /\ \A range \in MCRanges, n \in {10, 25, 105} : JudgedByRange(range, n, p)
    BY <1>1 DEF QuotesAddUp
  <1>5. LinesAddUp(p) /\ \A r : IsRequest(r) => SharesAddUp(p, r)
    BY <1>1 DEF BodyAddsUp
  <1>6. \A range : \A n \in Int : IsRange(range) /\ n >= 5 => JudgedByRange(range, n, p)
    BY <1>1 DEF BodyAddsUp
  <1>7. ASSUME NEW range \in MCRanges, NEW n \in {10, 25, 105} PROVE JudgedByRange(range, n, p)
    BY <1>3, <1>4, <1>6
  <1> QED
    BY <1>2, <1>5, <1>7

LEMMA OfferingIs ==
  ASSUME NEW q \in Offerings
  PROVE  /\ q.about = "offer" /\ q.percent \in Int /\ q.visits \in Int /\ q.risk \in Int /\ IsItems(q.extra)
         /\ Picked(MCFlats, q.flats) \in Seq(Range(Picked(MCFlats, q.flats)))
         /\ IsFiniteSet(DOMAIN MCConfig.dims) /\ IsFiniteSet(RiserOf(q).strings)
         /\ \A s \in ServiceQuantities(RiserOf(q), q.percent) : IsService(s)
  <1>1. PICK f \in FewOf(MCFlats, 2), p \in {1, 50, 100}, e \in Extras, v \in {0, 2}, r \in {0, 50} :
           q = [about |-> "offer", flats |-> f, percent |-> p, extra |-> e, visits |-> v, risk |-> r]
    BY DEF Offerings
  <1>2. /\ q.about = "offer" /\ q.flats \in FewOf(MCFlats, 2) /\ q.percent \in Int /\ q.extra \in Extras
        /\ q.visits \in Int /\ q.risk \in Int
    BY <1>1
  <1>3. IsItems(q.extra)
    <2>1. IsItems(<<>>)
      BY DEF IsItems
    <2>2. IsItems(<<Extra("hour", 15)>>)
      BY DEF IsItems, Extra, Range
    <2>3. IsItems(<<Extra("hour", 3), Extra("box", 10)>>)
      BY DEF IsItems, Extra, Range
    <2> QED
      BY <1>2, <2>1, <2>2, <2>3 DEF Extras
  <1>4. Picked(MCFlats, q.flats) \in Seq(Range(Picked(MCFlats, q.flats)))
    <2>1. MCFlats \in Seq(Range(MCFlats))
      BY DEF MCFlats, Range
    <2> QED
      BY <1>2, <2>1, FewAre, SomeAre
  <1>5. IsFiniteSet(DOMAIN MCConfig.dims)
    <2>1. DOMAIN MCConfig.dims = {"supply"} \cup {"extract"}
      BY DEF MCConfig
    <2>2. IsFiniteSet({"supply"} \cup {"extract"})
      BY FS_Singleton, FS_AddElement
    <2> QED
      BY <2>1, <2>2
  <1>6. IsFiniteSet(RiserOf(q).strings)
    <2>1. RiserOf(q) = BuildRiserModel(Picked(MCFlats, q.flats), MCLevels, MCConfig)
      BY DEF RiserOf
    <2> QED
      BY <1>4, <1>5, <2>1, RisersAreFinite
  <1>7. \A s \in ServiceQuantities(RiserOf(q), q.percent) : IsService(s)
    BY <1>2, <1>6, ServicesAre
  <1> QED
    BY <1>2, <1>3, <1>4, <1>5, <1>6, <1>7

LEMMA OfferingsAre ==
  ASSUME NEW q \in Offerings
  PROVE  q.about = "offer" /\ OfferAddsUp(q)
  <1>1. IsServiceBook(MCServiceBook)
    BY DEF IsServiceBook, MCServiceBook, Range
  <1>2. \A s \in ServiceQuantities(RiserOf(q), q.percent) : OffersAddUp(MCServiceBook, q.risk, OfferOf(q, s))
    BY <1>1, OfferingIs, OfferedAddsUp DEF OfferOf
  <1> QED
    BY <1>2, OfferingIs DEF OfferAddsUp

LEMMA PartsAreLists == MCParts \in Seq(Range(MCParts))
  <1>1. MCParts = [k \in 1 .. 6 |-> MCParts[k]]
    BY DEF MCParts
  <1> QED
    BY <1>1, LenIs

LEMMA OvkQuotesAre ==
  ASSUME NEW q \in OvkQuotes
  PROVE  q.about = "ovk" /\ OvkQuoteAddsUp(q)
  <1>1. PICK p \in SUBSET (DOMAIN MCParts), i \in {"recurring", "first"}, b \in {-1, 0, 150000} :
           q = [about |-> "ovk", parts |-> Picked(MCParts, p), inspection |-> i, base |-> b]
    BY DEF OvkQuotes
  <1>2. q.about = "ovk" /\ q.parts = Picked(MCParts, p) /\ q.inspection = i /\ q.base \in Int
    BY <1>1
  <1>3. MCParts \in Seq(Range(MCParts)) /\ DOMAIN MCParts = 1 .. 6
    <2>1. DOMAIN MCParts = 1 .. 6
      BY DEF MCParts
    <2> QED
      BY <2>1, PartsAreLists
  <1>4. \A part \in Range(MCParts) : IsPart(part)
    <2>1. \A k \in 1 .. 6 : IsPart(MCParts[k])
      BY DEF MCParts, Part, IsPart
    <2> QED
      BY <1>3, <2>1 DEF Range
  <1>5. q.parts \in Seq(Range(q.parts)) /\ \A part \in Range(q.parts) : IsPart(part)
    BY <1>2, <1>3, <1>4, PickedIs
  <1>6. \A c \in DOMAIN MCCategories : \A r \in MCCategories[c].rates : r.price \in Int
    BY DEF MCCategories, RateOf
  <1>7. \A least \in Int : IsTaxa([base |-> q.base, minimum |-> least, categories |-> MCCategories])
    BY <1>2, <1>6 DEF IsTaxa
  <1>8. \A least \in {0, 350000} : least \in Int
    OBVIOUS
  <1>9. \A least \in Int : PartsAddUp(q.parts, q.inspection, [base |-> q.base, minimum |-> least, categories |-> MCCategories])
    BY <1>5, <1>7, QuotesOfPartsAddUp
  <1> QED
    BY <1>2, <1>8, <1>9 DEF OvkQuoteAddsUp

LEMMA EstimatesAre ==
  ASSUME NEW q \in Estimates
  PROVE  q.about = "estimate" /\ EstimateAddsUp(q)
  <1>1. PICK a \in FewOf(MCEstimateLines, 2), b \in FewOf(MCEstimateLines, 2) \cup {1 .. 3},
             r \in {{}, {1, 2}, {2, 3, 4}}, o \in BOOLEAN :
           q = [about |-> "estimate", previous |-> a, current |-> b, rules |-> r, ours |-> o]
    BY DEF Estimates
  <1>2. q.about = "estimate" /\ q.previous = a /\ q.current = b
    BY <1>1
  <1>3. MCEstimateLines \in Seq(Range(MCEstimateLines)) /\ DOMAIN MCEstimateLines = 1 .. 5
    BY DEF MCEstimateLines, Range
  <1>4. \A l \in Range(MCEstimateLines) : l.amount \in Int
    <2>1. \A k \in 1 .. 5 : MCEstimateLines[k].amount \in Int
      BY DEF MCEstimateLines, EstimateLine
    <2> QED
      BY <1>3, <2>1 DEF Range
  <1>5. \A which : which \subseteq DOMAIN MCEstimateLines => IsEstimate(Picked(MCEstimateLines, which))
    BY <1>3, <1>4, SomeAre, SeqDomain DEF IsEstimate
  <1>6. q.previous \subseteq DOMAIN MCEstimateLines /\ q.current \subseteq DOMAIN MCEstimateLines
    <2>1. 1 .. 3 \subseteq 1 .. 5
      OBVIOUS
    <2> QED
      BY <1>2, <1>3, <2>1, FewAre
  <1> DEFINE before == EstimateOfLines(q.previous, 1)
             after == EstimateOfLines(q.current, IF q.ours THEN 1 ELSE 2)
  <1>7. before.lines = Picked(MCEstimateLines, q.previous) /\ after.lines = Picked(MCEstimateLines, q.current)
    BY DEF EstimateOfLines
  <1> HIDE DEF before, after
  <1>8. IsEstimate(before.lines) /\ IsEstimate(after.lines)
    BY <1>5, <1>6, <1>7
  <1>9. RevisionAddsUp(before.lines, StructureEstimate(before, Profile(q.rules)), StructureEstimate(after, Profile({1, 2})))
    BY <1>8, EstimatesAddUp
  <1> QED
    BY <1>2, <1>7, <1>9 DEF EstimateAddsUp, StructuredBefore, StructuredAfter, before, after

\* Whatever is asked of the documents, the rounded amounts of the lines add up to the total
\* of a takeoff, a quote, an offer or an estimate within what rounding moves, and a total is
\* judged by the range it was compared with. (price_consolidated_takeoff, build_vent_quote,
\* compare_detailed_total, price_pressure_test_offer, build_quote, compare_estimates)
THEOREM PricesAlwaysAddUp == PricesSpec => []PricesAddUp
  <1> DEFINE Asked == query \subseteq Takeoffs \cup Offerings \cup Tests \cup OvkQuotes \cup Estimates
  <1>1. PricesInit => Asked
    BY DEF PricesInit
  <1>2. Asked /\ [AskPrice]_query => Asked'
    BY DEF AskPrice
  <1>3. Asked => PricesAddUp
    <2> SUFFICES ASSUME NEW q \in Takeoffs \cup Offerings \cup Tests \cup OvkQuotes \cup Estimates
                 PROVE  CASE q.about = "takeoff" -> QuotesAddUp(q)
                          [] q.about = "offer" -> OfferAddsUp(q)
                          [] q.about = "ovk" -> OvkQuoteAddsUp(q)
                          [] q.about = "estimate" -> EstimateAddsUp(q)
                          [] OTHER -> TRUE
      BY DEF PricesAddUp
    <2>1. CASE q \in Takeoffs
      BY <2>1, QuotesAre
    <2>2. CASE q \in Offerings
      BY <2>2, OfferingsAre
    <2>3. CASE q \in Tests
      <3>1. q.about = "test"
        BY <2>3 DEF Tests
      <3> QED
        BY <3>1
    <2>4. CASE q \in OvkQuotes
      BY <2>4, OvkQuotesAre
    <2>5. CASE q \in Estimates
      BY <2>5, EstimatesAre
    <2> QED
      BY <2>1, <2>2, <2>3, <2>4, <2>5
  <1> QED
    BY <1>1, <1>2, <1>3, PTL DEF PricesSpec

LEMMA OfferingsAreWhole ==
  ASSUME NEW q \in Offerings
  PROVE  q.about = "offer" /\ OfferIsWhole(q)
  <1> DEFINE flats == Picked(MCFlats, q.flats)
  <1>1. /\ q.about = "offer" /\ q.percent \in Int /\ q.visits \in Int /\ IsItems(q.extra)
        /\ flats \in Seq(Range(flats)) /\ IsFiniteSet(DOMAIN MCConfig.dims) /\ IsFiniteSet(RiserOf(q).strings)
        /\ \A s \in ServiceQuantities(RiserOf(q), q.percent) : IsService(s)
    BY OfferingIs
  <1>2. IsLevels(MCLevels) /\ MCConfig.allowance \in Int
    BY DEF IsLevels, MCLevels, MCConfig
  <1>3. RiserOf(q) = BuildRiserModel(flats, MCLevels, MCConfig)
    BY DEF RiserOf
  <1> HIDE DEF flats
  <1>4. RisersAreWhole(flats, RiserOf(q), MCConfig)
    BY <1>1, <1>2, <1>3, RisersAreAlwaysWhole
  <1>5. \A s \in ServiceQuantities(RiserOf(q), q.percent) : ServiceIsWhole(RiserOf(q), q.percent, s)
    BY <1>1, ServicesAreAlwaysWhole
  <1>6. \A s \in ServiceQuantities(RiserOf(q), q.percent) : OffersAreWhole(s, q.extra, q.visits, OfferOf(q, s))
    BY <1>1, OffersAreAlwaysWhole DEF OfferOf
  <1> QED
    BY <1>1, <1>4, <1>5, <1>6 DEF OfferIsWhole, flats

LEMMA TestsAreFounded ==
  ASSUME NEW q \in Tests
  PROVE  q.about = "test" /\ ProtocolIsFounded(q)
  <1> DEFINE strings == Picked(MCStrings, q.strings)
             input == TestInput(q)
  <1>1. PICK k \in SUBSET (DOMAIN MCStrings), c \in {"A", "D"}, m \in {{}, {0}, {3750}, {3751}, {-1}},
             o \in Origins, p \in Origins, f \in {{}, {"class"}, {"class", "pressure", "pre_pour"}}, b \in BOOLEAN :
           q = [about |-> "test", strings |-> k, class |-> c, measured |-> m,
                origin |-> [class |-> o, pressure |-> p], confirmed |-> f, prePour |-> b]
    BY DEF Tests
  <1>2. /\ q.about = "test" /\ q.strings \subseteq DOMAIN MCStrings /\ q.class \in {"A", "D"}
        /\ q.measured = m /\ q.origin = [class |-> o, pressure |-> p]
    BY <1>1
  <1>3. m \subseteq Int /\ \A x, y \in m : x = y
    BY <1>1
  <1>4. MCStrings \in Seq(Range(MCStrings)) /\ \A s \in Range(MCStrings) : IsString(s)
    <2>1. MCStrings \in Seq(Range(MCStrings)) /\ DOMAIN MCStrings = 1 .. 3
      BY DEF MCStrings, Range
    <2>2. \A i \in 1 .. 3 : IsString(MCStrings[i])
      BY DEF MCStrings, String, IsString
    <2> QED
      BY <2>1, <2>2 DEF Range
  <1>5. strings \in Seq(Range(strings)) /\ \A i \in DOMAIN strings : IsString(strings[i])
    BY <1>2, <1>4, SomeAre
  <1> DEFINE found == VentCandidates(strings).candidates
             area == SumFunction([i \in DOMAIN found |-> Max({x.area : x \in Candidate(found[i])})])
  <1>6. input = [class |-> q.class, power |-> 1, measured |-> q.measured, origin |-> q.origin,
                 confirmed |-> q.confirmed, prePour |-> q.prePour, area |-> area]
    BY DEF TestInput
  <1> HIDE DEF strings
  <1>7. area \in Int
    BY <1>5, AreaIs
  <1> HIDE DEF area, input
  <1>8. /\ input = [x \in DOMAIN input |-> input[x]]
        /\ DOMAIN input = {"class", "power", "measured", "origin", "confirmed", "prePour", "area"}
        /\ input.power = 1 /\ input.area = area /\ input.measured = m /\ input.origin = [class |-> o, pressure |-> p]
    BY <1>2, <1>6
  <1>9. DOMAIN [class |-> o, pressure |-> p] = {"class", "pressure"}
    OBVIOUS
  <1>10. IsInput(input)
    BY <1>3, <1>7, <1>8, <1>9 DEF IsInput
  <1>11. InputIsFounded(input)
    BY <1>10, InputsAreAlwaysFounded
  <1>12. CandidatesAreWhole(strings)
    BY <1>5, CandidatesAreAlwaysWhole
  <1> DEFINE asked == {[family |-> 1, class |-> x] : x \in {q.class, "C"}}
  <1>13. \A r \in asked : r.class \in {"A", "B", "C", "D"}
    BY <1>2
  <1> HIDE DEF asked
  <1>14. ConflictsAreStrict(asked)
    BY <1>13, ConflictsAreAlwaysStrict
  <1> QED
    BY <1>2, <1>11, <1>12, <1>14 DEF ProtocolIsFounded, asked, strings, input

LEMMA EstimatesAreWhole ==
  ASSUME NEW q \in Estimates
  PROVE  q.about = "estimate" /\ EstimateIsWhole(q)
  <1>1. PICK a \in FewOf(MCEstimateLines, 2), b \in FewOf(MCEstimateLines, 2) \cup {1 .. 3},
             r \in {{}, {1, 2}, {2, 3, 4}}, o \in BOOLEAN :
           q = [about |-> "estimate", previous |-> a, current |-> b, rules |-> r, ours |-> o]
    BY DEF Estimates
  <1>2. q.about = "estimate" /\ q.previous = a /\ q.current = b /\ q.rules = r /\ q.ours \in BOOLEAN
    BY <1>1
  <1>3. MCEstimateLines \in Seq(Range(MCEstimateLines)) /\ DOMAIN MCEstimateLines = 1 .. 5
    BY DEF MCEstimateLines, Range
  <1>4. \A l \in Range(MCEstimateLines) : l.amount \in Int /\ l.id \in Int
    <2>1. \A k \in 1 .. 5 : MCEstimateLines[k].amount \in Int /\ MCEstimateLines[k].id \in Int
      BY DEF MCEstimateLines, EstimateLine
    <2> QED
      BY <1>3, <2>1 DEF Range
  <1>5. ASSUME NEW which, which \subseteq DOMAIN MCEstimateLines
        PROVE  LET lines == Picked(MCEstimateLines, which)
               IN  /\ IsFiniteSet(DOMAIN lines) /\ DOMAIN lines \subseteq Int
                   /\ \A i \in DOMAIN lines : lines[i].amount \in Int /\ lines[i].id \in Int
    <2> DEFINE lines == Picked(MCEstimateLines, which)
    <2>1. lines \in Seq(Range(lines)) /\ \A i \in DOMAIN lines : lines[i] \in Range(MCEstimateLines)
      BY <1>3, <1>5, SomeAre
    <2> HIDE DEF lines
    <2>2. IsFiniteSet(DOMAIN lines) /\ DOMAIN lines \subseteq Int
      BY <2>1, SeqDomain
    <2> QED
      BY <1>4, <2>1, <2>2 DEF lines
  <1>6. q.previous \subseteq DOMAIN MCEstimateLines /\ q.current \subseteq DOMAIN MCEstimateLines
    <2>1. 1 .. 3 \subseteq 1 .. 5
      OBVIOUS
    <2> QED
      BY <1>2, <1>3, <2>1, FewAre
  <1> DEFINE before == EstimateOfLines(q.previous, 1)
             after == EstimateOfLines(q.current, IF q.ours THEN 1 ELSE 2)
  <1>7. /\ before.lines = Picked(MCEstimateLines, q.previous) /\ after.lines = Picked(MCEstimateLines, q.current)
        /\ before.project = 1 /\ after.project = (IF q.ours THEN 1 ELSE 2)
        /\ before.baseline = after.baseline /\ before.currency = after.currency
    BY DEF EstimateOfLines
  <1> HIDE DEF before, after
  <1>8. /\ IsFiniteSet(DOMAIN before.lines) /\ DOMAIN before.lines \subseteq Int
        /\ \A i \in DOMAIN before.lines : before.lines[i].amount \in Int /\ before.lines[i].id \in Int
        /\ IsEstimate(before.lines) /\ IsEstimate(after.lines)
    BY <1>5, <1>6, <1>7 DEF IsEstimate
  <1>9. IsProfile(Profile(q.rules))
    <2> DEFINE rules == {MCRules[i] : i \in q.rules}
               place(s, g) == [section |-> s, group |-> g]
    <2>1. q.rules \subseteq 1 .. 4
      BY <1>1, <1>2
    <2>2. /\ MCRules[1].id = 2 /\ MCRules[2].id = 1 /\ MCRules[3].id = 3 /\ MCRules[4].id = 4
          /\ MCRules[1].priority = 10 /\ MCRules[2].priority = 10 /\ MCRules[3].priority = 5 /\ MCRules[4].priority = 100
      BY DEF MCRules, Rule
    <2>3. /\ MCRules[1].place = place(20, 10) /\ MCRules[2].place = place(10, 20)
          /\ MCRules[3].place = place(20, 20) /\ MCRules[4].place = place(10, 10)
      BY DEF MCRules, Rule
    <2>4. \A s, g \in Int : place(s, g) \in Places
      BY DEF Places
    <2>5. \A i \in 1 .. 4 : i = 1 \/ i = 2 \/ i = 3 \/ i = 4
      OBVIOUS
    <2> HIDE DEF place
    <2>6. \A i \in 1 .. 4 : MCRules[i].id \in Int /\ MCRules[i].priority \in Int
      BY <2>2, <2>5
    <2>7. \A i \in 1 .. 4 : MCRules[i].place \in Places
      BY <2>3, <2>4, <2>5
    <2>8. \A i, j \in 1 .. 4 : MCRules[i].id = MCRules[j].id => i = j
      BY <2>2, <2>5
    <2>9. Profile(q.rules).rules = rules /\ Profile(q.rules).fallback = place(99, 99)
      BY DEF Profile, place
    <2>10. IsFiniteSet(rules)
      <3> DEFINE f == [i \in 1 .. 4 |-> MCRules[i]]
                 n == 4
      <3>1. rules \subseteq ImageOf(f, 1 .. n) /\ n \in Nat
        BY <2>1 DEF ImageOf
      <3> HIDE DEF f, n, rules
      <3>2. IsFiniteSet(ImageOf(f, 1 .. n))
        BY <3>1, UpTo, ImageIsFinite
      <3> QED
        BY <3>1, <3>2, FS_Subset
    <2>11. \A x \in rules : \E i \in 1 .. 4 : x = MCRules[i]
      BY <2>1
    <2> HIDE DEF rules
    <2>12. \A x \in rules : x.id \in Int /\ x.priority \in Int /\ x.place \in Places
      BY <2>6, <2>7, <2>11
    <2>13. \A x, y \in rules : x.id = y.id => x = y
      BY <2>8, <2>11
    <2> QED
      BY <2>4, <2>9, <2>10, <2>12, <2>13 DEF IsProfile
  <1>10. PlacesAreWhole(before.lines, Profile(q.rules), StructureEstimate(before, Profile(q.rules)))
    BY <1>8, <1>9, EstimatesAreInPlace
  <1> DEFINE old == StructureEstimate(before, Profile(q.rules))
             new == StructureEstimate(after, Profile({1, 2}))
  <1>11. IsSummed(old) /\ IsSummed(new)
    BY <1>8, StructuredIsSummed DEF StructureEstimate
  <1>12. /\ old.project = before.project /\ old.baseline = before.baseline /\ old.currency = before.currency
         /\ new.project = after.project /\ new.baseline = after.baseline /\ new.currency = after.currency
    BY DEF StructureEstimate, Structured
  <1> HIDE DEF old, new
  <1>13. RevisionSaysAll(old, new, q.ours)
    <2>1. q.ours <=> old.project = new.project /\ old.baseline = new.baseline /\ old.currency = new.currency
      BY <1>2, <1>7, <1>12
    <2> QED
      BY <1>11, <2>1, RevisionsSayAll
  <1> QED
    BY <1>2, <1>7, <1>10, <1>13 DEF EstimateIsWhole, StructuredBefore, StructuredAfter, before, after, old, new

\* Whatever is asked of the documents, nothing is left out unsaid on the way to a price: it
\* is a line, it was skipped, or it is a question, a reservation or a caveat of what comes
\* out. (takeoff_from_table, consolidate_takeoffs, price_consolidated_takeoff,
\* build_riser_model, price_pressure_test_offer, evaluate_pressure_test, structure_estimate)
THEOREM NothingIsEverLost == PricesSpec => []NothingIsLost
  <1> DEFINE Asked == query \subseteq Takeoffs \cup Offerings \cup Tests \cup OvkQuotes \cup Estimates
  <1>1. PricesInit => Asked
    BY DEF PricesInit
  <1>2. Asked /\ [AskPrice]_query => Asked'
    BY DEF AskPrice
  <1>3. Asked => NothingIsLost
    <2> SUFFICES ASSUME NEW q \in Takeoffs \cup Offerings \cup Tests \cup OvkQuotes \cup Estimates
                 PROVE  CASE q.about = "takeoff" -> TakeoffIsWhole(q)
                          [] q.about = "offer" -> OfferIsWhole(q)
                          [] q.about = "test" -> ProtocolIsFounded(q)
                          [] q.about = "estimate" -> EstimateIsWhole(q)
                          [] OTHER -> TRUE
      BY DEF NothingIsLost
    <2>1. CASE q \in Takeoffs
      <3>1. q.about = "takeoff" /\ TakeoffIsWhole(q)
        BY <2>1, BodiesAre, TakeoffsAreAlwaysWhole DEF TakeoffIsWhole
      <3> QED
        BY <3>1
    <2>2. CASE q \in Offerings
      BY <2>2, OfferingsAreWhole
    <2>3. CASE q \in Tests
      BY <2>3, TestsAreFounded
    <2>4. CASE q \in OvkQuotes
      <3>1. q.about = "ovk"
        BY <2>4, OvkQuotesAre
      <3> QED
        BY <3>1
    <2>5. CASE q \in Estimates
      BY <2>5, EstimatesAreWhole
    <2> QED
      BY <2>1, <2>2, <2>3, <2>4, <2>5
  <1> QED
    BY <1>1, <1>2, <1>3, PTL DEF PricesSpec
=============================================================================
