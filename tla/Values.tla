------------------------------- MODULE Values -------------------------------
(***************************************************************************)
(* The values of the document language (crates/core/src/core/types): their *)
(* order, their metered equality, the operators of apply_binop, the JSON   *)
(* form in which storage and the network carry them, and the text that     *)
(* {placeholders} render to.                                               *)
(*                                                                         *)
(* A string is a sequence of naturals, one per byte, so that it has the    *)
(* length the budgets charge and the order sorting uses.  IntMax and Scale *)
(* stand for i64::MAX and DECIMAL_SCALE: i128 intermediates are integers.  *)
(***************************************************************************)
EXTENDS Integers, Sequences, SequencesExt

CONSTANTS
  IntMax,            \* i64::MAX
  Scale,             \* DECIMAL_SCALE, a power of ten
  ScaleDigits,       \* its number of zeros
  MAX_JSON_DEPTH, MAX_JSON_NODES,
  MAX_INTERPOLATED_BYTES

ASSUME ValuesAssumption ==
  /\ IntMax \in Nat \ {0} /\ ScaleDigits \in Nat \ {0} /\ Scale = 10 ^ ScaleDigits
  /\ MAX_JSON_DEPTH \in Nat /\ MAX_JSON_NODES \in Nat /\ MAX_INTERPOLATED_BYTES \in Nat

Null == [t |-> "null"]
Bool(b) == [t |-> "bool", b |-> b]
Int_(i) == [t |-> "int", i |-> i]
Decimal(d) == [t |-> "dec", d |-> d]
String(s) == [t |-> "str", s |-> s]
List(l) == [t |-> "list", l |-> l]
Record(f) == [t |-> "rec", f |-> f]
FileHandle(h) == [t |-> "file", h |-> h]

Ok(v) == [ok |-> TRUE, v |-> v]
Err(e) == [ok |-> FALSE, e |-> e]

type_name(v) == IF v.t \in {"int", "dec"} THEN "num" ELSE v.t

-----------------------------------------------------------------------------
\* Order.

Sign(x) == IF x < 0 THEN -1 ELSE IF x > 0 THEN 1 ELSE 0

\* str::cmp, byte by byte; a proper prefix is the smaller.
StrCmp(a, b) ==
  LET diff == {i \in 1..Len(a) : i <= Len(b) /\ a[i] # b[i]}
      i == Min(diff)
  IN  IF diff = {} THEN Sign(Len(a) - Len(b)) ELSE Sign(a[i] - b[i])

variant_weight(v) ==
  CASE v.t = "null" -> 1 [] v.t = "bool" -> 2 [] v.t \in {"int", "dec"} -> 3
    [] v.t = "str" -> 4 [] v.t = "list" -> 5 [] v.t = "rec" -> 6 [] v.t = "file" -> 7

IsNum(v) == v.t \in {"int", "dec"}

\* A number at Decimal scale, in i128.
Scaled(v) == IF v.t = "int" THEN v.i * Scale ELSE v.d

\* The first pair of a zip that is not equal decides, then the lengths.
FirstUnequal(ords, a, b) ==
  LET off == {i \in DOMAIN ords : ords[i] # 0}
  IN  IF off = {} THEN Sign(Len(a) - Len(b)) ELSE ords[Min(off)]

Zipped(a, b) == 1..Min({Len(a), Len(b)})

RECURSIVE Compare(_, _)
Compare(x, y) ==
  CASE IsNum(x) /\ IsNum(y) -> Sign(Scaled(x) - Scaled(y))
    [] x.t = "bool" /\ y.t = "bool" -> IF x.b = y.b THEN 0 ELSE IF y.b THEN -1 ELSE 1
    [] x.t = "str" /\ y.t = "str" -> StrCmp(x.s, y.s)
    [] x.t = "list" /\ y.t = "list" ->
         FirstUnequal([i \in Zipped(x.l, y.l) |-> Compare(x.l[i], y.l[i])], x.l, y.l)
    [] x.t = "rec" /\ y.t = "rec" ->
         FirstUnequal([i \in Zipped(x.f, y.f) |->
                         LET k == StrCmp(x.f[i].key, y.f[i].key)
                         IN  IF k # 0 THEN k ELSE Compare(x.f[i].val, y.f[i].val)], x.f, y.f)
    [] OTHER -> Sign(variant_weight(x) - variant_weight(y))

\* A missing field is <<>>, a present one <<value>>; the missing one is smallest.
compare_values(a, b) ==
  CASE a = <<>> /\ b = <<>> -> 0
    [] a = <<>> /\ b # <<>> -> -1
    [] a # <<>> /\ b = <<>> -> 1
    [] OTHER -> Compare(a[1], b[1])

-----------------------------------------------------------------------------
\* Records.

\* Value::record_from_unsorted: ordered by key, the first of two equal keys kept.
record_from_unsorted(pairs) ==
  LET firsts == {i \in DOMAIN pairs : \A j \in 1..(i - 1) : pairs[j].key # pairs[i].key}
  IN  Record(SetToSortSeq({pairs[i] : i \in firsts}, LAMBDA p, q : StrCmp(p.key, q.key) < 0))

\* Value::get_field, as an optional value.
get_field(v, name) ==
  IF v.t # "rec" THEN <<>>
  ELSE LET hits == {i \in DOMAIN v.f : v.f[i].key = name}
       IN  IF hits = {} THEN <<>> ELSE <<v.f[Min(hits)].val>>

RECURSIVE resolve_dot_path(_, _)
resolve_dot_path(v, path) ==
  IF path = <<>> THEN <<v>>
  ELSE LET f == get_field(v, Head(path))
       IN  IF f = <<>> THEN <<>> ELSE resolve_dot_path(f[1], Tail(path))

-----------------------------------------------------------------------------
\* Metered equality.  The work stack is popped from the end, and what a pair
\* costs is charged before it is compared.  Shared storage (Arc::ptr_eq), which
\* only makes a comparison cheaper, is not modelled.

PairCost(a, b) ==
  CASE a.t = "str" /\ b.t = "str" -> 1 + Min({Len(a.s), Len(b.s)})
    [] a.t = "list" /\ b.t = "list" -> IF Len(a.l) = Len(b.l) THEN 1 + Len(a.l) ELSE 1
    [] a.t = "rec" /\ b.t = "rec" -> IF Len(a.f) = Len(b.f) THEN 1 + Len(a.f) ELSE 1
    [] OTHER -> 1

\* Whether the pair itself already differs, its children apart.
Differs(a, b) ==
  CASE IsNum(a) /\ IsNum(b) -> Scaled(a) # Scaled(b)
    [] a.t = "list" /\ b.t = "list" -> Len(a.l) # Len(b.l)
    [] a.t = "rec" /\ b.t = "rec" ->
         Len(a.f) # Len(b.f) \/ \E i \in DOMAIN a.f : a.f[i].key # b.f[i].key
    [] OTHER -> a # b

Children(a, b) ==
  CASE a.t = "list" -> [i \in DOMAIN a.l |-> <<a.l[i], b.l[i]>>]
    [] a.t = "rec" -> [i \in DOMAIN a.f |-> <<a.f[i].val, b.f[i].val>>]
    [] OTHER -> <<>>

\* Mutation: what cannot be decided is unequal.
undecided_is_unequal(n) == [r |-> Ok(FALSE), n |-> n]

Undecided(n) == [r |-> Err("Timeout"), n |-> n]

RECURSIVE EqStack(_, _, _)
EqStack(stack, n, max) ==
  IF stack = <<>> THEN [r |-> Ok(TRUE), n |-> n]
  ELSE LET a == Last(stack)[1]
           b == Last(stack)[2]
           cost == n + PairCost(a, b)
       IN  CASE cost > max -> Undecided(cost)
             [] cost <= max /\ Differs(a, b) -> [r |-> Ok(FALSE), n |-> cost]
             [] OTHER -> EqStack(Front(stack) \o Children(a, b), cost, max)

budget_eq(a, b, n, max) == EqStack(<<<<a, b>>>>, n, max)

-----------------------------------------------------------------------------
\* apply_binop on two evaluated operands, with the running instruction count.

Fits(x) == -IntMax - 1 <= x /\ x <= IntMax
CheckedInt(x) == IF Fits(x) THEN Ok(Int_(x)) ELSE Err("IntegerOverflow")
CheckedDecimal(x) == IF Fits(x) THEN Ok(Decimal(x)) ELSE Err("IntegerOverflow")

\* Integer division truncates towards zero.
Quot(a, b) == Sign(a) * Sign(b) * ((Sign(a) * a) \div (Sign(b) * b))

Orders == {"lt", "gt", "le", "ge"}
Comparisons == Orders \cup {"eq", "ne"}

compare_op(op, c) ==
  CASE op = "eq" -> c = 0 [] op = "ne" -> c # 0 [] op = "lt" -> c < 0
    [] op = "gt" -> c > 0 [] op = "le" -> c <= 0 [] op = "ge" -> c >= 0

IntArith(op, l, r) ==
  CASE op = "add" -> CheckedInt(l + r)
    [] op = "sub" -> CheckedInt(l - r)
    [] op = "mul" -> CheckedInt(l * r)
    [] op = "div" -> IF r = 0 THEN Err("DivisionByZero") ELSE CheckedDecimal(Quot(l * Scale, r))
    [] OTHER -> Err("TypeError")

DecimalArith(op, l, r) ==
  CASE op = "add" -> CheckedDecimal(l + r)
    [] op = "sub" -> CheckedDecimal(l - r)
    [] op = "mul" -> CheckedDecimal(Quot(l * r, Scale))
    [] op = "div" -> IF r = 0 THEN Err("DivisionByZero") ELSE CheckedDecimal(Quot(l * Scale, r))
    [] OTHER -> Err("TypeError")

\* Arithmetic on an Int and a Decimal promotes the Int, which may overflow;
\* comparison does not, it is made in i128.
NumOp(op, l, r) ==
  CASE op \in Comparisons -> Ok(Bool(compare_op(op, Compare(l, r))))
    [] op \notin Comparisons /\ l.t = "int" /\ r.t = "int" -> IntArith(op, l.i, r.i)
    [] op \notin Comparisons /\ l.t # r.t /\ ~(Fits(Scaled(l)) /\ Fits(Scaled(r))) ->
         Err("IntegerOverflow")
    [] OTHER -> DecimalArith(op, Scaled(l), Scaled(r))

apply_binop(op, l, r, n, max) ==
  LET concat == n + Len(l.s) + Len(r.s)
  IN  [r |-> CASE IsNum(l) /\ IsNum(r) -> NumOp(op, l, r)
               [] l.t = "str" /\ r.t = "str" /\ op = "add" ->
                    IF concat > max THEN Err("Timeout") ELSE Ok(String(l.s \o r.s))
               [] l.t = "str" /\ r.t = "str" /\ op \in Comparisons ->
                    Ok(Bool(compare_op(op, StrCmp(l.s, r.s))))
               [] l.t = "bool" /\ r.t = "bool" /\ op \in {"eq", "ne"} -> Ok(Bool((l = r) <=> op = "eq"))
               [] l.t = "bool" /\ r.t = "bool" /\ op = "and" -> Ok(Bool(l.b /\ r.b))
               [] l.t = "bool" /\ r.t = "bool" /\ op = "or" -> Ok(Bool(l.b \/ r.b))
               [] "null" \in {l.t, r.t} /\ op \in {"eq", "ne"} -> Ok(Bool((l = r) <=> op = "eq"))
               [] OTHER -> Err("TypeError"),
       n |-> IF l.t = "str" /\ r.t = "str" /\ op = "add" THEN concat ELSE n]

-----------------------------------------------------------------------------
\* JSON.  A number token is its sign, its integer part and its fractional
\* digits; a fraction of <<>> is a token without a point.

Digits(x, k) == [i \in 1..k |-> (x \div 10 ^ (k - i)) % 10]

TrimZeros(d) ==
  LET sig == {i \in DOMAIN d : d[i] # 0}
  IN  IF sig = {} THEN <<>> ELSE SubSeq(d, 1, Max(sig))

\* Mutation: the sign is taken from the integer part.
sign_of_integer_part(scaled, always_fractional) ==
  LET mag == IF scaled < 0 THEN -scaled ELSE scaled
      frac == TrimZeros(Digits(mag % Scale, ScaleDigits))
  IN  [neg |-> scaled < 0 /\ mag >= Scale, int |-> mag \div Scale,
       frac |-> IF frac = <<>> /\ always_fractional THEN <<0>> ELSE frac]

\* The magnitude is divided out first; the sign is written even when the
\* integer part is zero.
format_decimal(scaled, always_fractional) ==
  LET mag == IF scaled < 0 THEN -scaled ELSE scaled
      frac == TrimZeros(Digits(mag % Scale, ScaleDigits))
  IN  [neg |-> scaled < 0, int |-> mag \div Scale,
       frac |-> IF frac = <<>> /\ always_fractional THEN <<0>> ELSE frac]

RECURSIVE to_json(_)
to_json(v) ==
  LET all(vs) == IF \A i \in DOMAIN vs : vs[i].ok THEN Ok([i \in DOMAIN vs |-> vs[i].v])
                 ELSE Err("ExecutionError")
      fields == all([i \in DOMAIN v.f |-> to_json(v.f[i].val)])
      items == all([i \in DOMAIN v.l |-> to_json(v.l[i])])
  IN  CASE v.t = "int" ->
             Ok([j |-> "num", num |-> [neg |-> v.i < 0, int |-> IF v.i < 0 THEN -v.i ELSE v.i,
                                       frac |-> <<>>]])
        [] v.t = "dec" -> Ok([j |-> "num", num |-> format_decimal(v.d, TRUE)])
        [] v.t = "list" -> IF items.ok THEN Ok([j |-> "arr", items |-> items.v]) ELSE items
        [] v.t = "rec" ->
             IF fields.ok THEN Ok([j |-> "obj", pairs |-> [i \in DOMAIN v.f |->
                                     [key |-> v.f[i].key, val |-> fields.v[i]]]])
             ELSE fields
        [] v.t = "file" -> Err("ExecutionError")
        [] OTHER -> Ok([j |-> "scalar", val |-> v])

\* Digits past the scale round half away from zero on the first one dropped.
parse_json_number_exact(num) ==
  LET kept == [i \in 1..ScaleDigits |-> IF i <= Len(num.frac) THEN num.frac[i] ELSE 0]
      up == IF Len(num.frac) > ScaleDigits /\ num.frac[ScaleDigits + 1] >= 5 THEN 1 ELSE 0
      frac == FoldLeft(LAMBDA acc, d : acc * 10 + d, 0, kept) + up
      int == IF num.neg THEN -num.int ELSE num.int
      base == int * Scale
  IN  CASE ~Fits(int) -> Err("SecurityViolation")
        [] Fits(int) /\ num.frac = <<>> -> Ok(Int_(int))
        [] Fits(int) /\ num.frac # <<>> /\ ~Fits(base) -> Err("SecurityViolation")
        [] OTHER -> LET scaled == IF num.neg THEN base - frac ELSE base + frac
                    IN  IF Fits(scaled) THEN Ok(Decimal(scaled)) ELSE Err("SecurityViolation")

\* ValueSeed: every value counts one node, checked before the depth, before its
\* children.  Returns the result and the running node total.
RECURSIVE Seed(_, _, _, _)
Seed(j, depth, nodes, max) ==
  LET SeedStep(acc, x) ==
        IF ~acc.r.ok THEN acc
        ELSE LET s == Seed(x, depth + 1, acc.n, max)
             IN  [r |-> IF s.r.ok THEN Ok(Append(acc.r.v, s.r.v)) ELSE s.r, n |-> s.n]
      SeedAll(xs) == FoldLeft(SeedStep, [r |-> Ok(<<>>), n |-> nodes + 1], xs)
      items == SeedAll(j.items)
      vals == SeedAll([i \in DOMAIN j.pairs |-> j.pairs[i].val])
  IN  CASE nodes + 1 > max \/ depth > MAX_JSON_DEPTH ->
             [r |-> Err("SecurityViolation"), n |-> nodes + 1]
        [] OTHER ->
             CASE j.j = "scalar" -> [r |-> Ok(j.val), n |-> nodes + 1]
               [] j.j = "num" -> [r |-> parse_json_number_exact(j.num), n |-> nodes + 1]
               [] j.j = "arr" ->
                    [r |-> IF items.r.ok THEN Ok(List(items.r.v)) ELSE items.r, n |-> items.n]
               [] j.j = "obj" ->
                    [r |-> IF vals.r.ok
                           THEN Ok(record_from_unsorted([i \in DOMAIN j.pairs |->
                                     [key |-> j.pairs[i].key, val |-> vals.r.v[i]]]))
                           ELSE vals.r, n |-> vals.n]

from_json_str(j) == Seed(j, 0, 0, MAX_JSON_NODES).r

\* A trusted payload, one read back from storage, has no node cap.
from_json_slice(j, is_trusted, all_nodes) ==
  Seed(j, 0, 0, IF is_trusted THEN all_nodes ELSE MAX_JSON_NODES).r

-----------------------------------------------------------------------------
\* Display and interpolation.  Texts are bytes: 45 is '-', 46 '.', 48 '0',
\* 91 '[', 93 ']', 123 '{', 125 '}', 44 ',', 58 ':', 32 ' '.

ShowNat(n) ==
  LET len == CHOOSE k \in 1..(n + 1) : n < 10 ^ k /\ (k = 1 \/ n >= 10 ^ (k - 1))
  IN  [i \in 1..len |-> 48 + Digits(n, len)[i]]

ShowNumber(num) ==
  (IF num.neg THEN <<45>> ELSE <<>>) \o ShowNat(num.int)
    \o (IF num.frac = <<>> THEN <<>> ELSE <<46>> \o [i \in DOMAIN num.frac |-> 48 + num.frac[i]])

ShowInt(i) == ShowNumber([neg |-> i < 0, int |-> IF i < 0 THEN -i ELSE i, frac |-> <<>>])

CommaJoin(ss) ==
  FoldLeft(LAMBDA acc, s : IF acc = <<>> THEN s ELSE acc \o <<44, 32>> \o s, <<>>, ss)

\* impl Display for Value.  A file shows its name, never its path.
RECURSIVE Display(_)
Display(v) ==
  CASE v.t = "null" -> <<110, 117, 108, 108>>
    [] v.t = "bool" -> IF v.b THEN <<116, 114, 117, 101>> ELSE <<102, 97, 108, 115, 101>>
    [] v.t = "int" -> ShowInt(v.i)
    [] v.t = "dec" -> ShowNumber(format_decimal(v.d, FALSE))
    [] v.t = "str" -> v.s
    [] v.t = "list" -> <<91>> \o CommaJoin([i \in DOMAIN v.l |-> Display(v.l[i])]) \o <<93>>
    [] v.t = "rec" ->
         <<123>> \o CommaJoin([i \in DOMAIN v.f |-> v.f[i].key \o <<58, 32>> \o Display(v.f[i].val)])
           \o <<125>>
    [] v.t = "file" -> v.h.filename

\* What one placeholder prints: the overlay's value if the whole path resolves
\* there, else the store's, else the placeholder itself.
Placeholder(p, overlay, lookup) ==
  LET at(m) == IF p.root \in DOMAIN m THEN resolve_dot_path(m[p.root], p.path) ELSE <<>>
      o == at(overlay)
      g == at(lookup)
  IN  IF o # <<>> THEN Display(o[1]) ELSE IF g # <<>> THEN Display(g[1]) ELSE p.raw

\* CappedBuffer::write_str.
FitsBuffer(written, out) == Len(written) + Len(out) <= MAX_INTERPOLATED_BYTES

\* A text is a sequence of runs, plain bytes or placeholders.  A write that
\* would pass the cap is refused before it is made.
interpolate_into_with_overlay(text, overlay, lookup) ==
  LET write(acc, run) ==
        LET out == IF run.plain THEN run.raw ELSE Placeholder(run, overlay, lookup)
        IN  IF ~acc.ok \/ ~FitsBuffer(acc.v, out)
            THEN [acc EXCEPT !.ok = FALSE]
            ELSE [acc EXCEPT !.v = @ \o out]
  IN  FoldLeft(write, Ok(<<>>), text)
=============================================================================
