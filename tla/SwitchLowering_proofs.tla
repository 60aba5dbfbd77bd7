----------------------- MODULE SwitchLowering_proofs -----------------------
(***************************************************************************)
(* Proofs about SwitchLowering, for every width of int, every threshold    *)
(* and every switch whose cases are different, of type int and without an  *)
(* overflow in their differences: the dispatch reaches the right label,    *)
(* and no jump leaves the jump table.                                      *)
(***************************************************************************)
EXTENDS SwitchLowering, StackLemmas

---------------------------------------------------------------------------
(* The inductive invariant.                                                *)

Locs == [kind : {"case", "last"}, lo : Int, hi : Int]

\* The values of the cases read and of those still to be read.
AllValues == {cases[i] : i \in 1 .. Len(cases)} \cup CaseValues(body)

\* The labels read and those still to be read, all of them different.
LabelsInv ==
    /\ unsigned \in BOOLEAN /\ x \in ExprValues
    /\ cases \in Seq(IntValues) /\ body \in Seq(IntValues \cup {Default})
    /\ \A i, j \in 1 .. Len(cases) :
          /\ cases[i] = cases[j] => i = j
          /\ unsigned => cases[i] >= 0
    /\ \A i, j \in 1 .. Len(body) : body[i] # Default /\ body[j] # Default =>
          /\ body[i] = body[j] => i = j
          /\ unsigned => body[i] >= 0
    /\ \A i \in 1 .. Len(cases), j \in 1 .. Len(body) : body[j] # Default => cases[i] # body[j]
    /\ Len(cases) + Len(body) > LinearMax => NoOverflow(AllValues)

\* The list of positions holds the first n cases, by value.
SortedUpTo(n) ==
    /\ sorted \in Seq(Nat) /\ Len(sorted) = n
    /\ \A k \in 1 .. n : sorted[k] \in 1 .. n
    /\ \A i \in 1 .. n : \E k \in 1 .. n : sorted[k] = i
    /\ \A k, m \in 1 .. n : k < m => cases[sorted[k]] < cases[sorted[m]]

AllSorted == SortedUpTo(Len(cases)) /\ Len(cases) > 0

\* The entry for value v of the jump table.
EntryOf(loc, v) ==
    /\ \A k \in 0 .. Count - 1 : Sorted(k) = v => loc = CaseAt(sorted[k + 1])
    /\ (\A k \in 0 .. Count - 1 : Sorted(k) # v) => loc = LastLabel

\* The table has entries for the first n cases and the gaps between them.
FilledUpTo(n) ==
    /\ mode = "table" /\ AllSorted /\ table \in Seq(Locs)
    /\ nextv = IF n = 0 THEN Sorted(0) ELSE Sorted(n - 1) + 1
    /\ Len(table) = nextv - Sorted(0)
    /\ \A t \in 1 .. Len(table) : EntryOf(table[t], Sorted(0) + t - 1)
    /\ Sorted(Count - 1) - Sorted(0) < Half

\* The case with value x, if there is one, is in the part [lo, hi).
Within(lo, hi) == \A k \in 0 .. Count - 1 : Sorted(k) = x => lo <= k /\ k < hi

\* What is known when the parser is at loc ...
Built(loc) ==
    /\ loc.kind = "parsing" => sorted = <<>> /\ table = <<>>
    /\ loc.kind = "sorting" =>
          /\ loc.lo \in 1 .. Len(cases) + 1 /\ Len(cases) > LinearMax /\ body = <<>>
          /\ SortedUpTo(loc.lo - 1) /\ table = <<>>
    /\ loc.kind = "filling" => loc.lo \in 0 .. Count /\ FilledUpTo(loc.lo)

\* ... and when the dispatch code is there.
Reached(loc) ==
    /\ loc.kind = "linear" =>
          /\ mode = "linear" /\ loc.lo \in 1 .. Len(cases)
          /\ \A j \in 1 .. loc.lo - 1 : cases[j] # x
    /\ loc.kind \in {"comp", "left"} =>
          /\ mode = "bsearch" /\ AllSorted /\ Within(loc.lo, loc.hi)
          /\ loc.lo \in 0 .. Count /\ loc.hi \in 0 .. Count /\ loc.lo < loc.hi
    /\ loc.kind = "left" => loc.hi - loc.lo > 2 /\ Sorted((loc.lo + loc.hi) \div 2) # x
    /\ loc.kind \in {"comp1", "comp2", "jtbl"} => FilledUpTo(Count)
    /\ loc.kind \in {"comp2", "jtbl"} => check >= 0
    /\ loc.kind = "jtbl" => check <= Conv(maxval)
    /\ loc.kind = "case" =>
          /\ loc.lo \in 1 .. Len(cases) /\ loc = CaseAt(loc.lo)
          /\ \A j \in 1 .. Len(cases) : cases[j] = x => j = loc.lo
          /\ mode # "bsearch" => cases[loc.lo] = x
    /\ loc.kind = "last" => loc = LastLabel /\ \A j \in 1 .. Len(cases) : cases[j] # x
    /\ loc.kind # "wild"

SwitchInv == LabelsInv /\ Built(at) /\ Reached(at)

---------------------------------------------------------------------------
(* Machine arithmetic.                                                     *)

\* The remainder of a number that is at most one modulus away.
LEMMA ModLemma ==
    ASSUME NEW M \in Nat, M > 0, NEW v \in Int
    PROVE  /\ 0 <= v /\ v < M => v % M = v
           /\ 0 - M <= v /\ v < 0 => v % M = v + M
           /\ M <= v /\ v < 2 * M => v % M = v - M
  <1>1. ASSUME 0 <= v, v < M PROVE v % M = v
    BY <1>1
  <1>2. ASSUME 0 - M <= v, v < 0 PROVE v % M = v + M
    BY <1>2
  <1>3. ASSUME M <= v, v < 2 * M PROVE v % M = v - M
    BY <1>3
  <1> QED BY <1>1, <1>2, <1>3

\* Conversion to int of a value that is at most one int range away.
LEMMA ToIntLemma ==
    ASSUME NEW v \in Int, 0 - 2 * Half <= v, v < 2 * Half
    PROVE  ToInt(v) = IF v < 0 - Half THEN v + 2 * Half
                      ELSE IF v >= Half THEN v - 2 * Half ELSE v
  <1>1. Half \in Nat /\ Half > 0 /\ Modulus \in Nat /\ Modulus > 0 /\ Modulus = 2 * Half
    BY HalfAssumption DEF Modulus
  <1>2. CASE v < 0
    <2>1. v % Modulus = v + Modulus
      BY <1>1, <1>2, ModLemma
    <2> QED BY <1>1, <1>2, <2>1 DEF ToInt
  <1>3. CASE v >= 0
    <2>1. v % Modulus = v
      BY <1>1, <1>3, ModLemma
    <2> QED BY <1>1, <1>3, <2>1 DEF ToInt
  <1> QED BY <1>2, <1>3

\* The values of cases are not changed by a conversion.
LEMMA ConvLemma ==
    ASSUME unsigned \in BOOLEAN, NEW v \in IntValues, unsigned => v >= 0
    PROVE  v \in Int /\ ToInt(v) = v /\ Conv(v) = v
  <1>1. Half \in Nat /\ Half > 0 /\ Modulus \in Nat /\ Modulus > 0 /\ Modulus = 2 * Half
    BY HalfAssumption DEF Modulus
  <1>2. v \in Int /\ 0 - Half <= v /\ v < Half
    BY <1>1 DEF IntValues
  <1>3. ToInt(v) = v
    BY <1>1, <1>2, ToIntLemma
  <1>4. CASE unsigned
    <2>1. v % Modulus = v
      BY <1>1, <1>2, <1>4, ModLemma
    <2> QED BY <1>2, <1>3, <1>4, <2>1 DEF Conv
  <1>5. CASE ~ unsigned
    BY <1>2, <1>3, <1>5 DEF Conv
  <1> QED BY <1>4, <1>5

---------------------------------------------------------------------------
(* Sorted cases.                                                           *)

\* The values of the sorted cases.
LEMMA SortedLemma ==
    ASSUME LabelsInv, AllSorted
    PROVE  /\ Count = Len(cases) /\ Count \in Nat /\ Count > 0
           /\ \A k \in 0 .. Count - 1 :
                /\ Sorted(k) \in Int /\ 0 - Half <= Sorted(k) /\ Sorted(k) < Half
                /\ unsigned => Sorted(k) >= 0
                /\ ToInt(Sorted(k)) = Sorted(k) /\ Conv(Sorted(k)) = Sorted(k)
                /\ sorted[k + 1] \in 1 .. Len(cases) /\ Sorted(k) = cases[sorted[k + 1]]
           /\ \A k, m \in 0 .. Count - 1 : k < m => Sorted(k) < Sorted(m)
           /\ \A k, m \in 0 .. Count - 1 : Sorted(k) = Sorted(m) => k = m
           /\ \A i \in 1 .. Len(cases) : \E k \in 0 .. Count - 1 : sorted[k + 1] = i /\ Sorted(k) = cases[i]
  <1>1. Count = Len(cases) /\ Count \in Nat /\ Count > 0
    BY LenProperties DEF LabelsInv, AllSorted, SortedUpTo, Count
  <1>2. \A k \in 0 .. Count - 1 : k + 1 \in 1 .. Len(cases)
    BY <1>1
  <1>3. \A k \in 0 .. Count - 1 : sorted[k + 1] \in 1 .. Len(cases) /\ Sorted(k) = cases[sorted[k + 1]]
    BY <1>2 DEF AllSorted, SortedUpTo, Sorted
  <1>4. ASSUME NEW k \in 0 .. Count - 1
        PROVE  /\ Sorted(k) \in Int /\ 0 - Half <= Sorted(k) /\ Sorted(k) < Half
               /\ unsigned => Sorted(k) >= 0
               /\ ToInt(Sorted(k)) = Sorted(k) /\ Conv(Sorted(k)) = Sorted(k)
    <2>1. Sorted(k) \in IntValues /\ (unsigned => Sorted(k) >= 0) /\ unsigned \in BOOLEAN
      BY <1>1, <1>3, ElementOfSeq DEF LabelsInv
    <2>2. Sorted(k) \in Int /\ 0 - Half <= Sorted(k) /\ Sorted(k) < Half
      BY <2>1, HalfAssumption DEF IntValues
    <2> QED BY <2>1, <2>2, ConvLemma
  <1>5. ASSUME NEW k \in 0 .. Count - 1, NEW m \in 0 .. Count - 1, k < m PROVE Sorted(k) < Sorted(m)
    <2>1. k + 1 \in 1 .. Len(cases) /\ m + 1 \in 1 .. Len(cases) /\ k + 1 < m + 1
      BY <1>2, <1>5
    <2> QED BY <2>1, <1>3 DEF AllSorted, SortedUpTo
  <1>6. ASSUME NEW k \in 0 .. Count - 1, NEW m \in 0 .. Count - 1, Sorted(k) = Sorted(m) PROVE k = m
    <2>1. k < m \/ m < k \/ k = m
      BY <1>1
    <2> QED BY <1>4, <1>5, <1>6, <2>1
  <1>7. ASSUME NEW i \in 1 .. Len(cases)
        PROVE  \E k \in 0 .. Count - 1 : sorted[k + 1] = i /\ Sorted(k) = cases[i]
    <2>1. PICK m \in 1 .. Len(cases) : sorted[m] = i
      BY DEF AllSorted, SortedUpTo
    <2>2. m - 1 \in 0 .. Count - 1 /\ (m - 1) + 1 = m
      BY <1>1
    <2> QED BY <1>3, <2>1, <2>2
  <1> QED BY <1>1, <1>3, <1>4, <1>5, <1>6, <1>7

---------------------------------------------------------------------------
(* Reading the body.                                                       *)

\* No label has been read when the parser enters the body.
LEMMA InitLemma == Init => SwitchInv
  <1> SUFFICES ASSUME Init PROVE SwitchInv
    OBVIOUS
  <1>1. PICK sw \in Switches : unsigned = sw.unsigned /\ body = sw.body
    BY DEF Init
  <1>2. /\ sw.unsigned \in BOOLEAN /\ sw.body \in Seq(IntValues \cup {Default})
        /\ \A i, j \in 1 .. Len(sw.body) : sw.body[i] # Default /\ sw.body[j] # Default =>
              /\ sw.body[i] = sw.body[j] => i = j
              /\ sw.unsigned => sw.body[i] >= 0
        /\ Len(sw.body) > LinearMax => NoOverflow(CaseValues(sw.body))
    BY SwitchesAssumption
  <1>3. cases = <<>> /\ cases \in Seq(IntValues) /\ Len(cases) = 0
    BY EmptySeq DEF Init
  <1>4. LabelsInv
    <2>1. AllValues = CaseValues(sw.body) /\ Len(cases) + Len(body) = Len(sw.body)
      <3>1. {cases[i] : i \in 1 .. Len(cases)} = {}
        BY <1>3
      <3>2. Len(sw.body) \in Nat
        BY <1>2, LenProperties
      <3> QED BY <1>1, <1>3, <3>1, <3>2 DEF AllValues
    <2> QED BY <1>1, <1>2, <1>3, <2>1 DEF Init, LabelsInv
  <1>5. Built(at) /\ Reached(at)
    BY DEF Init, Built, Reached, Parsing, Loc
  <1> QED BY <1>4, <1>5 DEF SwitchInv

\* The first of the labels that are left and the rest of them.
LEMMA HeadOfBody ==
    ASSUME LabelsInv, body # <<>>
    PROVE  /\ Len(body) \in Nat /\ Len(body) > 0 /\ Head(body) = body[1]
           /\ Tail(body) \in Seq(IntValues \cup {Default}) /\ Len(Tail(body)) = Len(body) - 1
           /\ \A i \in 1 .. Len(body) - 1 : Tail(body)[i] = body[i + 1] /\ i + 1 \in 1 .. Len(body)
           /\ body[1] \in IntValues \cup {Default}
  <1>1. Len(body) \in Nat /\ Len(body) > 0
    BY EmptySeq, LenProperties DEF LabelsInv
  <1>2. /\ Head(body) = body[1] /\ Tail(body) \in Seq(IntValues \cup {Default})
        /\ Len(Tail(body)) = Len(body) - 1
        /\ \A i \in 1 .. Len(Tail(body)) : Tail(body)[i] = body[i + 1]
    BY HeadTailProperties DEF LabelsInv
  <1>3. body[1] \in IntValues \cup {Default}
    BY <1>1, ElementOfSeq DEF LabelsInv
  <1> QED BY <1>1, <1>2, <1>3

\* The case values of a list are its first one and those of the rest.
LEMMA RestOfValues ==
    ASSUME NEW m \in Nat, m > 0, NEW s, NEW r, Len(s) = m, Len(r) = m - 1,
           \A i \in 1 .. m - 1 : r[i] = s[i + 1]
    PROVE  \A v : v \in CaseValues(s) <=> (v = s[1] /\ s[1] # Default) \/ v \in CaseValues(r)
  <1> TAKE v
  <1>1. ASSUME NEW k \in 1 .. m, s[k] # Default, v = s[k]
        PROVE  (v = s[1] /\ s[1] # Default) \/ v \in CaseValues(r)
    <2>1. CASE k = 1
      BY <1>1, <2>1
    <2>2. CASE k # 1
      <3>1. k - 1 \in 1 .. m - 1 /\ (k - 1) + 1 = k
        BY <2>2
      <3>2. r[k - 1] = s[k]
        BY <3>1
      <3> QED BY <1>1, <3>1, <3>2 DEF CaseValues
    <2> QED BY <2>1, <2>2
  <1>2. ASSUME v = s[1], s[1] # Default PROVE v \in CaseValues(s)
    BY <1>2 DEF CaseValues
  <1>3. ASSUME NEW k \in 1 .. m - 1, r[k] # Default, v = r[k] PROVE v \in CaseValues(s)
    <2>1. k + 1 \in 1 .. m /\ r[k] = s[k + 1]
      OBVIOUS
    <2> QED BY <1>3, <2>1 DEF CaseValues
  <1>4. v \in CaseValues(s) => (v = s[1] /\ s[1] # Default) \/ v \in CaseValues(r)
    BY <1>1 DEF CaseValues
  <1>5. v \in CaseValues(r) => v \in CaseValues(s)
    BY <1>3 DEF CaseValues
  <1> QED BY <1>2, <1>4, <1>5

\* A case label moves a value from the body to the cases.
LEMMA CaseLabelStep == SwitchInv /\ CaseLabel => SwitchInv'
  <1> SUFFICES ASSUME SwitchInv, CaseLabel PROVE SwitchInv'
    OBVIOUS
  <1>1. LabelsInv /\ body # <<>> /\ at = Parsing
    BY DEF SwitchInv, CaseLabel
  <1>2. PICK m \in Nat, n \in Nat : m = Len(body) /\ n = Len(cases) /\ m > 0
    BY <1>1, HeadOfBody, LenProperties DEF LabelsInv
  <1>3. /\ body' \in Seq(IntValues \cup {Default}) /\ Len(body') = m - 1
        /\ \A i \in 1 .. m - 1 : body'[i] = body[i + 1] /\ i + 1 \in 1 .. m /\ i + 1 # 1
    BY <1>1, <1>2, HeadOfBody DEF CaseLabel
  <1>4. body[1] # Default /\ body[1] \in IntValues /\ 1 \in 1 .. m
    BY <1>1, <1>2, HeadOfBody DEF CaseLabel
  <1>5. /\ cases' \in Seq(IntValues) /\ Len(cases') = n + 1
        /\ \A i \in 1 .. n : cases'[i] = cases[i]
        /\ cases'[n + 1] = body[1]
    <2>1. cases' = Append(cases, body[1]) /\ cases \in Seq(IntValues)
      BY <1>1, HeadOfBody DEF CaseLabel, LabelsInv
    <2> QED BY <1>2, <1>4, <2>1, AppendProperties
  <1>6. \A i \in 1 .. n + 1 : i \in 1 .. n \/ i = n + 1
    BY <1>2
  <1>7. unsigned' = unsigned /\ x' = x
    BY DEF CaseLabel
  <1>8. ASSUME NEW i \in 1 .. n + 1, NEW j \in 1 .. n + 1
        PROVE  /\ cases'[i] = cases'[j] => i = j
               /\ unsigned => cases'[i] >= 0
    <2>1. CASE i \in 1 .. n /\ j \in 1 .. n
      BY <1>1, <1>2, <1>5, <2>1 DEF LabelsInv
    <2>2. CASE i \in 1 .. n /\ j = n + 1
      BY <1>1, <1>2, <1>4, <1>5, <2>2 DEF LabelsInv
    <2>3. CASE i = n + 1 /\ j \in 1 .. n
      BY <1>1, <1>2, <1>4, <1>5, <2>3 DEF LabelsInv
    <2>4. CASE i = n + 1 /\ j = n + 1
      BY <1>1, <1>2, <1>4, <1>5, <2>4 DEF LabelsInv
    <2> QED BY <1>6, <2>1, <2>2, <2>3, <2>4
  <1>9. ASSUME NEW i \in 1 .. m - 1, NEW j \in 1 .. m - 1, body'[i] # Default, body'[j] # Default
        PROVE  /\ body'[i] = body'[j] => i = j
               /\ unsigned => body'[i] >= 0
    BY <1>1, <1>2, <1>3, <1>9 DEF LabelsInv
  <1>10. ASSUME NEW i \in 1 .. n + 1, NEW j \in 1 .. m - 1, body'[j] # Default
         PROVE  cases'[i] # body'[j]
    <2>1. CASE i \in 1 .. n
      BY <1>1, <1>2, <1>3, <1>5, <1>10, <2>1 DEF LabelsInv
    <2>2. CASE i = n + 1
      BY <1>1, <1>2, <1>3, <1>4, <1>5, <1>10, <2>2 DEF LabelsInv
    <2> QED BY <1>6, <2>1, <2>2
  <1>11. LabelsInv'
    <2>1. (unsigned \in BOOLEAN /\ x \in ExprValues)'
      BY <1>1, <1>7 DEF LabelsInv, ExprValues
    <2>2. AllValues' = AllValues
      <3>1. \A v : v \in {cases'[i] : i \in 1 .. n + 1} <=> v = body[1] \/ v \in {cases[i] : i \in 1 .. n}
        <4>1. n + 1 \in 1 .. n + 1 /\ \A i \in 1 .. n : i \in 1 .. n + 1
          OBVIOUS
        <4> QED BY <1>5, <1>6, <4>1
      <3>2. \A v : v = body[1] \/ v \in CaseValues(body') <=> v \in CaseValues(body)
        BY <1>2, <1>3, <1>4, RestOfValues
      <3>3. \A v : v \in AllValues' <=> v \in AllValues
        BY <1>2, <1>5, <3>1, <3>2 DEF AllValues
      <3> QED BY <3>3
    <2>3. Len(cases') + Len(body') = Len(cases) + Len(body)
      BY <1>2, <1>3, <1>5
    <2> QED BY <1>1, <1>3, <1>5, <1>7, <1>8, <1>9, <1>10, <2>1, <2>2, <2>3 DEF LabelsInv
  <1>12. Built(at)' /\ Reached(at)'
    BY <1>1 DEF SwitchInv, CaseLabel, Built, Reached, Parsing, Loc
  <1> QED BY <1>11, <1>12 DEF SwitchInv

\* A default label leaves the values as they are.
LEMMA DefaultLabelStep == SwitchInv /\ DefaultLabel => SwitchInv'
  <1> SUFFICES ASSUME SwitchInv, DefaultLabel PROVE SwitchInv'
    OBVIOUS
  <1>1. LabelsInv /\ body # <<>> /\ at = Parsing
    BY DEF SwitchInv, DefaultLabel
  <1>2. PICK m \in Nat : m = Len(body) /\ m > 0
    BY <1>1, HeadOfBody
  <1>3. /\ body' \in Seq(IntValues \cup {Default}) /\ Len(body') = m - 1
        /\ \A i \in 1 .. m - 1 : body'[i] = body[i + 1] /\ i + 1 \in 1 .. m
    BY <1>1, <1>2, HeadOfBody DEF DefaultLabel
  <1>4. cases' = cases /\ unsigned' = unsigned /\ x' = x
    BY DEF DefaultLabel
  <1>5. ASSUME NEW i \in 1 .. m - 1, NEW j \in 1 .. m - 1, body'[i] # Default, body'[j] # Default
        PROVE  /\ body'[i] = body'[j] => i = j
               /\ unsigned => body'[i] >= 0
    BY <1>1, <1>2, <1>3, <1>5 DEF LabelsInv
  <1>6. ASSUME NEW i \in 1 .. Len(cases), NEW j \in 1 .. m - 1, body'[j] # Default
        PROVE  cases[i] # body'[j]
    BY <1>1, <1>2, <1>3, <1>6 DEF LabelsInv
  <1>7. LabelsInv'
    <2>1. (unsigned \in BOOLEAN /\ x \in ExprValues)'
      BY <1>1, <1>4 DEF LabelsInv, ExprValues
    <2>2. /\ cases \in Seq(IntValues)
          /\ \A i, j \in 1 .. Len(cases) :
                /\ cases[i] = cases[j] => i = j
                /\ unsigned => cases[i] >= 0
          /\ Len(cases) \in Nat
      BY <1>1, LenProperties DEF LabelsInv
    <2>3. AllValues' = AllValues
      <3>1. body[1] = Default
        BY <1>1, HeadOfBody DEF DefaultLabel
      <3>2. \A v : v \in CaseValues(body') <=> v \in CaseValues(body)
        BY <1>2, <1>3, <3>1, RestOfValues
      <3>3. CaseValues(body') = CaseValues(body)
        BY <3>2
      <3> QED BY <1>4, <3>3 DEF AllValues
    <2>4. Len(cases) + Len(body') > LinearMax => Len(cases) + Len(body) > LinearMax
      BY <1>2, <1>3, <2>2, LinearMaxAssumption
    <2> QED BY <1>1, <1>3, <1>4, <1>5, <1>6, <2>1, <2>2, <2>3, <2>4 DEF LabelsInv
  <1>8. Built(at)' /\ Reached(at)'
    BY <1>1 DEF SwitchInv, DefaultLabel, Built, Reached, Parsing, Loc
  <1> QED BY <1>7, <1>8 DEF SwitchInv

\* Nothing but case and default labels changes the labels.
LEMMA LabelsKept ==
    ASSUME LabelsInv, UNCHANGED <<unsigned, body, cases, x>>
    PROVE  LabelsInv'
  BY DEF LabelsInv, ExprValues, AllValues

\* The first block of the chain, or nothing sorted yet.
LEMMA EndBodyStep == SwitchInv /\ EndBody => SwitchInv'
  <1> SUFFICES ASSUME SwitchInv, EndBody PROVE SwitchInv'
    OBVIOUS
  <1>1. /\ LabelsInv /\ Len(cases) \in Nat /\ sorted = <<>> /\ table = <<>>
        /\ sorted \in Seq(Nat) /\ Len(sorted) = 0
    BY EmptySeq, LenProperties DEF SwitchInv, EndBody, LabelsInv, Built, Parsing, Loc
  <1>2. LabelsInv'
    BY <1>1, LabelsKept DEF EndBody
  <1>3. body = <<>> /\ UNCHANGED <<unsigned, body, cases, dflt, sorted, table, nextv, x>>
    BY DEF EndBody
  <1>4. CASE Len(cases) > LinearMax
    <2>1. at' = Sorting(1) /\ Len(cases) > LinearMax
      BY <1>4 DEF EndBody
    <2>2. SortedUpTo(0)'
      BY <1>1, <1>3 DEF SortedUpTo
    <2>3. Built(at)'
      BY <1>1, <1>3, <2>1, <2>2 DEF Built, Sorting, Loc
    <2>4. Reached(at)'
      BY <2>1 DEF Reached, Sorting, Loc
    <2> QED BY <1>2, <2>3, <2>4 DEF SwitchInv
  <1>5. CASE ~ (Len(cases) > LinearMax) /\ cases = <<>>
    <2>1. at' = LastLabel /\ Len(cases) = 0
      BY <1>1, <1>5, EmptySeq DEF EndBody
    <2> QED BY <1>2, <1>3, <2>1 DEF SwitchInv, Built, Reached, LastLabel, Loc
  <1>6. CASE ~ (Len(cases) > LinearMax) /\ cases # <<>>
    <2>1. at' = Loc("linear", 1, 0) /\ mode' = "linear" /\ Len(cases) > 0
      BY <1>1, <1>6, EmptySeq DEF EndBody, LabelsInv
    <2>2. Built(at)'
      BY <2>1 DEF Built, Loc
    <2>3. Reached(at)'
      BY <1>1, <1>3, <2>1 DEF Reached, Loc
    <2> QED BY <1>2, <2>2, <2>3 DEF SwitchInv
  <1> QED BY <1>4, <1>5, <1>6

---------------------------------------------------------------------------
(* Sorting the cases.                                                      *)

\* An element put before position p of a list.
Spliced(s, e, p) == SubSeq(s, 1, p - 1) \o <<e>> \o SubSeq(s, p, Len(s))

\* The elements of the longer list.
LEMMA SpliceLemma ==
    ASSUME NEW s \in Seq(Nat), NEW e \in Nat, NEW p \in 1 .. Len(s) + 1
    PROVE  /\ Spliced(s, e, p) \in Seq(Nat) /\ Len(Spliced(s, e, p)) = Len(s) + 1
           /\ Spliced(s, e, p)[p] = e
           /\ \A k \in 1 .. p - 1 : Spliced(s, e, p)[k] = s[k]
           /\ \A k \in p .. Len(s) : Spliced(s, e, p)[k + 1] = s[k]
  <1> DEFINE r == Spliced(s, e, p)
             n == Len(s)
             a == SubSeq(s, 1, p - 1)
             b == SubSeq(s, p, n)
             c == a \o <<e>>
  <1>1. n \in Nat /\ p \in Nat /\ p >= 1 /\ p <= n + 1
    BY LenProperties
  <1>2. a \in Seq(Nat) /\ Len(a) = p - 1 /\ \A i \in 1 .. p - 1 : a[i] = s[i]
    <2>1. \A i \in 1 .. p - 1 : s[i] \in Nat
      BY <1>1, ElementOfSeq
    <2>2. /\ a \in Seq(Nat) /\ Len(a) = IF 1 <= p - 1 THEN (p - 1) - 1 + 1 ELSE 0
          /\ \A i \in 1 .. (p - 1) - 1 + 1 : a[i] = s[1 + i - 1]
      BY <1>1, <2>1, SubSeqProperties
    <2>3. \A i \in 1 .. p - 1 : i \in 1 .. (p - 1) - 1 + 1 /\ 1 + i - 1 = i
      BY <1>1
    <2> QED BY <1>1, <2>2, <2>3
  <1>3. b \in Seq(Nat) /\ Len(b) = n - p + 1 /\ \A i \in 1 .. n - p + 1 : b[i] = s[p + i - 1]
    <2>1. \A i \in p .. n : s[i] \in Nat
      BY <1>1, ElementOfSeq
    <2>2. /\ b \in Seq(Nat) /\ Len(b) = IF p <= n THEN n - p + 1 ELSE 0
          /\ \A i \in 1 .. n - p + 1 : b[i] = s[p + i - 1]
      BY <1>1, <2>1, SubSeqProperties
    <2> QED BY <1>1, <2>2
  <1> HIDE DEF a, b
  <1>4. /\ c \in Seq(Nat) /\ Len(c) = p /\ c[p] = e
        /\ \A i \in 1 .. p - 1 : c[i] = s[i]
    <2>1. <<e>> \in Seq(Nat) /\ Len(<<e>>) = 1 /\ <<e>>[1] = e
      OBVIOUS
    <2>2. /\ c \in Seq(Nat) /\ Len(c) = Len(a) + Len(<<e>>)
          /\ \A i \in 1 .. Len(a) + Len(<<e>>) : c[i] = IF i <= Len(a) THEN a[i] ELSE <<e>>[i - Len(a)]
      BY <1>2, <2>1, ConcatProperties
    <2>3. Len(a) + Len(<<e>>) = p /\ p - Len(a) = 1 /\ ~ (p <= Len(a)) /\ p \in 1 .. p
      BY <1>1, <1>2, <2>1
    <2>4. \A i \in 1 .. p - 1 : i \in 1 .. p /\ i <= Len(a)
      BY <1>1, <1>2
    <2>5. c[p] = <<e>>[1]
      BY <2>2, <2>3
    <2> QED BY <1>2, <2>1, <2>2, <2>3, <2>4, <2>5
  <1> HIDE DEF c
  <1>5. r = c \o b
    BY DEF a, b, c, r, Spliced
  <1> HIDE DEF r
  <1>6. /\ r \in Seq(Nat) /\ Len(r) = Len(c) + Len(b)
        /\ \A i \in 1 .. Len(c) + Len(b) : r[i] = IF i <= Len(c) THEN c[i] ELSE b[i - Len(c)]
    <2>1. /\ c \o b \in Seq(Nat) /\ Len(c \o b) = Len(c) + Len(b)
          /\ \A i \in 1 .. Len(c) + Len(b) : (c \o b)[i] = IF i <= Len(c) THEN c[i] ELSE b[i - Len(c)]
      BY <1>3, <1>4, ConcatProperties
    <2> QED BY <1>5, <2>1
  <1>7. Len(c) + Len(b) = n + 1
    BY <1>1, <1>3, <1>4
  <1>8. r[p] = e /\ \A k \in 1 .. p - 1 : r[k] = s[k]
    <2>1. \A k \in 1 .. p : k \in 1 .. n + 1 /\ k <= p
      BY <1>1
    <2>2. \A k \in 1 .. p : r[k] = c[k]
      BY <1>4, <1>6, <1>7, <2>1
    <2>3. p \in 1 .. p /\ \A k \in 1 .. p - 1 : k \in 1 .. p
      BY <1>1
    <2> QED BY <1>4, <2>2, <2>3
  <1>9. ASSUME NEW k \in p .. n PROVE r[k + 1] = s[k]
    <2>1. /\ k + 1 \in 1 .. n + 1 /\ ~ (k + 1 <= p) /\ (k + 1) - p \in 1 .. n - p + 1
          /\ p + ((k + 1) - p) - 1 = k
      BY <1>1
    <2>2. r[k + 1] = b[(k + 1) - p]
      BY <1>4, <1>6, <1>7, <2>1
    <2> QED BY <1>3, <2>1, <2>2
  <1> QED BY <1>6, <1>7, <1>8, <1>9 DEF r

\* The case goes behind all the smaller ones.
LEMMA InsertLemma ==
    ASSUME NEW s \in Seq(Nat), NEW i \in Nat, cases[i] \in Int,
           \A k \in 1 .. Len(s) : cases[s[k]] \in Int /\ cases[s[k]] # cases[i],
           \A k, m \in 1 .. Len(s) : k < m => cases[s[k]] < cases[s[m]]
    PROVE  \E p \in 1 .. Len(s) + 1 :
              /\ InsertSorted(s, i) = Spliced(s, i, p)
              /\ \A k \in 1 .. p - 1 : cases[s[k]] < cases[i]
              /\ \A k \in p .. Len(s) : cases[i] < cases[s[k]]
  <1> DEFINE stop == {k \in 1 .. Len(s) : cases[i] < cases[s[k]]}
  <1>1. Len(s) \in Nat
    BY LenProperties
  <1>2. CASE stop = {}
    <2>1. InsertSorted(s, i) = Spliced(s, i, Len(s) + 1)
      BY <1>2 DEF InsertSorted, Spliced
    <2>2. ASSUME NEW k \in 1 .. (Len(s) + 1) - 1 PROVE cases[s[k]] < cases[i]
      <3>1. k \in 1 .. Len(s)
        BY <1>1
      <3>2. ~ (cases[i] < cases[s[k]])
        BY <1>2, <3>1
      <3>3. cases[s[k]] \in Int /\ cases[s[k]] # cases[i]
        BY <3>1
      <3> QED BY <3>2, <3>3
    <2>3. Len(s) + 1 \in 1 .. Len(s) + 1 /\ (Len(s) + 1) .. Len(s) = {}
      BY <1>1
    <2> QED BY <2>1, <2>2, <2>3
  <1>3. CASE stop # {}
    <2> DEFINE p == CHOOSE k \in stop : \A j \in stop : k <= j
    <2>1. \E k \in stop : \A j \in stop : k <= j
      <3>1. stop \in SUBSET Nat
        BY <1>1
      <3> QED BY <1>3, <3>1, LeastElement
    <2>2. p \in stop /\ \A j \in stop : p <= j
      BY <2>1
    <2>3. InsertSorted(s, i) = Spliced(s, i, p)
      BY <1>3 DEF InsertSorted, Spliced
    <2> HIDE DEF p
    <2>4. p \in 1 .. Len(s) /\ cases[i] < cases[s[p]]
      BY <2>2
    <2>5. ASSUME NEW k \in 1 .. p - 1 PROVE cases[s[k]] < cases[i]
      <3>1. k \in 1 .. Len(s) /\ ~ (p <= k)
        BY <1>1, <2>4
      <3>2. ~ (cases[i] < cases[s[k]])
        BY <2>2, <3>1
      <3> QED BY <3>1, <3>2
    <2>6. ASSUME NEW k \in p .. Len(s) PROVE cases[i] < cases[s[k]]
      <3>1. k \in 1 .. Len(s) /\ (k = p \/ p < k)
        BY <1>1, <2>4
      <3> QED BY <2>4, <3>1
    <2>7. p \in 1 .. Len(s) + 1
      BY <1>1, <2>4
    <2> QED BY <2>3, <2>5, <2>6, <2>7
  <1> QED BY <1>2, <1>3

\* One turn of the insertion sort.
LEMMA SortCaseStep == SwitchInv /\ SortCase => SwitchInv'
  <1> SUFFICES ASSUME SwitchInv, SortCase PROVE SwitchInv'
    OBVIOUS
  <1>1. /\ LabelsInv /\ Len(cases) > LinearMax /\ body = <<>> /\ table = <<>>
        /\ UNCHANGED <<unsigned, body, cases, dflt, mode, table, nextv, x>>
        /\ sorted' = InsertSorted(sorted, at.lo) /\ at' = Sorting(at.lo + 1)
    BY DEF SwitchInv, SortCase, Built
  <1>2. PICK n \in Nat : at.lo = n + 1 /\ n + 1 \in 1 .. Len(cases) /\ SortedUpTo(n)
    <2>1. at.lo \in 1 .. Len(cases) + 1 /\ at.lo <= Len(cases) /\ SortedUpTo(at.lo - 1) /\ Len(cases) \in Nat
      BY LenProperties DEF SwitchInv, SortCase, Built, LabelsInv
    <2>2. at.lo - 1 \in Nat /\ at.lo = (at.lo - 1) + 1 /\ at.lo \in 1 .. Len(cases)
      BY <2>1
    <2> QED BY <2>1, <2>2
  <1>3. \A i, j \in 1 .. Len(cases) : cases[i] \in Int /\ (cases[i] = cases[j] => i = j)
    <2>1. \A i \in 1 .. Len(cases) : cases[i] \in IntValues
      BY <1>1, ElementOfSeq DEF LabelsInv
    <2> QED BY <1>1, <2>1, HalfAssumption DEF LabelsInv, IntValues
  <1>4. Len(cases) \in Nat
    BY <1>1, LenProperties DEF LabelsInv
  <1>5. /\ sorted \in Seq(Nat) /\ Len(sorted) = n
        /\ \A k \in 1 .. n : sorted[k] \in 1 .. n /\ sorted[k] \in 1 .. Len(cases) /\ sorted[k] # n + 1
        /\ \A k, m \in 1 .. n : k < m => cases[sorted[k]] < cases[sorted[m]]
    <2>1. \A v \in 1 .. n : v \in 1 .. Len(cases) /\ v # n + 1
      BY <1>2, <1>4
    <2>2. /\ sorted \in Seq(Nat) /\ Len(sorted) = n
          /\ \A k \in 1 .. n : sorted[k] \in 1 .. n
          /\ \A k, m \in 1 .. n : k < m => cases[sorted[k]] < cases[sorted[m]]
      BY <1>2 DEF SortedUpTo
    <2> QED BY <2>1, <2>2
  <1>6. PICK p \in 1 .. n + 1 :
          /\ sorted' = Spliced(sorted, n + 1, p)
          /\ \A k \in 1 .. p - 1 : cases[sorted[k]] < cases[n + 1]
          /\ \A k \in p .. n : cases[n + 1] < cases[sorted[k]]
    <2>1. \A k \in 1 .. n : cases[sorted[k]] \in Int /\ cases[sorted[k]] # cases[n + 1]
      BY <1>2, <1>3, <1>5
    <2>2. cases[n + 1] \in Int /\ n + 1 \in Nat
      BY <1>2, <1>3
    <2> QED BY <1>1, <1>2, <1>5, <2>1, <2>2, InsertLemma
  <1>7. /\ sorted' \in Seq(Nat) /\ Len(sorted') = n + 1 /\ sorted'[p] = n + 1
        /\ \A k \in 1 .. p - 1 : sorted'[k] = sorted[k]
        /\ \A k \in p .. n : sorted'[k + 1] = sorted[k]
    <2>1. sorted \in Seq(Nat) /\ n + 1 \in Nat /\ p \in 1 .. Len(sorted) + 1
      BY <1>2, <1>5, <1>6
    <2>2. /\ Spliced(sorted, n + 1, p) \in Seq(Nat) /\ Len(Spliced(sorted, n + 1, p)) = Len(sorted) + 1
          /\ Spliced(sorted, n + 1, p)[p] = n + 1
          /\ \A k \in 1 .. p - 1 : Spliced(sorted, n + 1, p)[k] = sorted[k]
          /\ \A k \in p .. Len(sorted) : Spliced(sorted, n + 1, p)[k + 1] = sorted[k]
      BY <2>1, SpliceLemma
    <2> QED BY <1>5, <1>6, <2>2
  \* Where an element of the longer list was in the shorter one.
  <1>8. ASSUME NEW k \in 1 .. n + 1
        PROVE  \/ k < p /\ k \in 1 .. p - 1 /\ k \in 1 .. n /\ sorted'[k] = sorted[k]
               \/ k = p
               \/ k > p /\ k - 1 \in p .. n /\ k - 1 \in 1 .. n /\ sorted'[k] = sorted[k - 1]
    <2>1. CASE k < p
      BY <1>7, <2>1
    <2>2. CASE k > p
      <3>1. k - 1 \in p .. n /\ k - 1 \in 1 .. n /\ (k - 1) + 1 = k
        BY <2>2
      <3> QED BY <1>7, <2>2, <3>1
    <2> QED BY <2>1, <2>2
  <1>9. ASSUME NEW k \in 1 .. n + 1 PROVE sorted'[k] \in 1 .. n + 1
    <2>1. sorted'[k] \in 1 .. n \/ sorted'[k] = n + 1
      BY <1>5, <1>7, <1>8
    <2> QED BY <2>1
  <1>10. ASSUME NEW i \in 1 .. n + 1 PROVE \E k \in 1 .. n + 1 : sorted'[k] = i
    <2>1. CASE i = n + 1
      BY <1>7, <2>1
    <2>2. CASE i \in 1 .. n
      <3>1. PICK k \in 1 .. n : sorted[k] = i
        BY <1>2, <2>2 DEF SortedUpTo
      <3>2. CASE k < p
        <4>1. k \in 1 .. p - 1 /\ k \in 1 .. n + 1
          BY <3>2
        <4> QED BY <1>7, <3>1, <4>1
      <3>3. CASE k >= p
        <4>1. k \in p .. n /\ k + 1 \in 1 .. n + 1
          BY <3>3
        <4> QED BY <1>7, <3>1, <4>1
      <3> QED BY <3>2, <3>3
    <2> QED BY <2>1, <2>2
  <1>11. ASSUME NEW k \in 1 .. n + 1, NEW m \in 1 .. n + 1, k < m
         PROVE  cases[sorted'[k]] < cases[sorted'[m]]
    <2>1. CASE k < p /\ m < p
      BY <1>5, <1>8, <1>11, <2>1
    <2>2. CASE k < p /\ m = p
      <3>1. k \in 1 .. p - 1 /\ sorted'[k] = sorted[k] /\ sorted'[m] = n + 1
        BY <1>7, <1>8, <2>2
      <3> QED BY <1>6, <3>1
    <2>3. CASE k < p /\ m > p
      <3>1. k < m - 1 /\ k \in 1 .. n /\ m - 1 \in 1 .. n
        BY <2>3
      <3>2. sorted'[k] = sorted[k] /\ sorted'[m] = sorted[m - 1]
        BY <1>8, <2>3
      <3> QED BY <1>5, <3>1, <3>2
    <2>4. CASE k = p
      <3>1. m > p /\ ~ (m < p) /\ m # p
        BY <1>11, <2>4
      <3>2. sorted'[k] = n + 1 /\ m - 1 \in p .. n /\ sorted'[m] = sorted[m - 1]
        BY <1>7, <1>8, <2>4, <3>1
      <3> QED BY <1>6, <3>2
    <2>5. CASE k > p
      <3>1. m > p /\ k - 1 < m - 1 /\ k - 1 \in 1 .. n /\ m - 1 \in 1 .. n
        BY <1>11, <2>5
      <3>2. sorted'[k] = sorted[k - 1]
        BY <1>8, <2>5
      <3>3. sorted'[m] = sorted[m - 1]
        BY <1>8, <3>1
      <3> QED BY <1>5, <3>1, <3>2, <3>3
    <2> QED BY <2>1, <2>2, <2>3, <2>4, <2>5
  <1>12. SortedUpTo(n + 1)'
    BY <1>1, <1>7, <1>9, <1>10, <1>11 DEF SortedUpTo
  <1>13. Built(at)'
    <2>1. (n + 1) + 1 \in 1 .. Len(cases) + 1 /\ ((n + 1) + 1) - 1 = n + 1
      BY <1>2, <1>4
    <2>2. at'.kind = "sorting" /\ at'.lo = (n + 1) + 1
      BY <1>1, <1>2 DEF Sorting, Loc
    <2>3. SortedUpTo(at.lo - 1)'
      BY <1>12, <2>1, <2>2
    <2> QED BY <1>1, <2>1, <2>2, <2>3 DEF Built
  <1>14. Reached(at)'
    BY <1>1 DEF Reached, Sorting, Loc
  <1>15. LabelsInv'
    BY <1>1, LabelsKept
  <1> QED BY <1>13, <1>14, <1>15 DEF SwitchInv

---------------------------------------------------------------------------
(* Blocks of the dispatch code.                                            *)

\* A block changes nothing but the place where control is.
LEMMA GotoLemma ==
    ASSUME NEW loc, Goto(loc), LabelsInv, Built(loc), Reached(loc)
    PROVE  SwitchInv'
  <1>1. at' = loc /\ UNCHANGED <<unsigned, body, cases, dflt, sorted, mode, table, nextv, x>>
    BY DEF Goto
  <1>2. LabelsInv'
    BY <1>1, LabelsKept
  <1>3. Count' = Count /\ \A k : Sorted(k)' = Sorted(k)
    BY <1>1 DEF Count, Sorted
  <1>4. ASSUME NEW n PROVE SortedUpTo(n)' = SortedUpTo(n)
    BY <1>1 DEF SortedUpTo
  <1>5. ASSUME NEW n PROVE FilledUpTo(n)' = FilledUpTo(n)
    BY <1>1 DEF FilledUpTo, AllSorted, SortedUpTo, EntryOf, Count, Sorted
  <1>6. ASSUME NEW lo, NEW hi PROVE Within(lo, hi)' = Within(lo, hi)
    BY <1>1 DEF Within, Count, Sorted
  <1>7. AllSorted' = AllSorted /\ check' = check /\ Conv(maxval)' = Conv(maxval)
    BY <1>1 DEF AllSorted, SortedUpTo, check, Conv, maxval, minv, maxv, ToInt, Count, Sorted
  <1>8. Built(at)'
    BY <1>1, <1>3, <1>4, <1>5 DEF Built
  <1>9. Reached(at)'
    BY <1>1, <1>3, <1>4, <1>5, <1>6, <1>7 DEF Reached
  <1> QED BY <1>2, <1>8, <1>9 DEF SwitchInv

\* The value of the expression and the values of the cases are numbers.
LEMMA ValuesLemma ==
    ASSUME LabelsInv
    PROVE  /\ x \in Int /\ Half \in Nat /\ Half > 0 /\ Len(cases) \in Nat
           /\ IF unsigned THEN 0 <= x /\ x < 2 * Half ELSE 0 - Half <= x /\ x < Half
           /\ \A i \in 1 .. Len(cases) : cases[i] \in Int /\ Conv(cases[i]) = cases[i]
  <1>1. Half \in Nat /\ Half > 0 /\ Len(cases) \in Nat
    BY HalfAssumption, LenProperties DEF LabelsInv
  <1>2. \A i \in 1 .. Len(cases) :
            cases[i] \in IntValues /\ (unsigned => cases[i] >= 0) /\ unsigned \in BOOLEAN
    BY ElementOfSeq DEF LabelsInv
  <1>3. \A i \in 1 .. Len(cases) : cases[i] \in Int /\ Conv(cases[i]) = cases[i]
    BY <1>2, ConvLemma
  <1>4. x \in Int /\ IF unsigned THEN 0 <= x /\ x < 2 * Half ELSE 0 - Half <= x /\ x < Half
    BY <1>1 DEF LabelsInv, ExprValues, Modulus, IntValues
  <1> QED BY <1>1, <1>3, <1>4

\* A block that jumps to the label of the case with value x ...
LEMMA AtCase ==
    ASSUME LabelsInv, NEW i \in 1 .. Len(cases), cases[i] = x
    PROVE  Built(CaseAt(i)) /\ Reached(CaseAt(i))
  <1>1. \A j \in 1 .. Len(cases) : cases[j] = x => j = i
    BY DEF LabelsInv
  <1> QED BY <1>1 DEF Built, Reached, CaseAt, Loc

\* ... and one that jumps to the default label when there is none.
LEMMA AtLast ==
    ASSUME \A j \in 1 .. Len(cases) : cases[j] # x
    PROVE  Built(LastLabel) /\ Reached(LastLabel)
  BY DEF Built, Reached, LastLabel, Loc

\* A block of the chain.
LEMMA LinearStep == SwitchInv /\ LinearCompare => SwitchInv'
  <1> SUFFICES ASSUME SwitchInv, LinearCompare PROVE SwitchInv'
    OBVIOUS
  <1>1. /\ LabelsInv /\ mode = "linear" /\ at.lo \in 1 .. Len(cases)
        /\ \A j \in 1 .. at.lo - 1 : cases[j] # x
    BY DEF SwitchInv, LinearCompare, Reached
  <1>2. Len(cases) \in Nat /\ Conv(cases[at.lo]) = cases[at.lo]
    BY <1>1, ValuesLemma
  <1>3. CASE cases[at.lo] = x
    <2>1. Goto(CaseAt(at.lo))
      BY <1>2, <1>3 DEF LinearCompare
    <2> QED BY <1>1, <1>3, <2>1, AtCase, GotoLemma
  <1>4. CASE cases[at.lo] # x /\ at.lo = Len(cases)
    <2>1. Goto(LastLabel)
      BY <1>2, <1>4 DEF LinearCompare
    <2>2. \A j \in 1 .. Len(cases) : cases[j] # x
      BY <1>1, <1>2, <1>4
    <2> QED BY <1>1, <2>1, <2>2, AtLast, GotoLemma
  <1>5. CASE cases[at.lo] # x /\ at.lo # Len(cases)
    <2>1. Goto(Loc("linear", at.lo + 1, 0))
      BY <1>2, <1>5 DEF LinearCompare
    <2>2. at.lo + 1 \in 1 .. Len(cases) /\ \A j \in 1 .. (at.lo + 1) - 1 : cases[j] # x
      BY <1>1, <1>2, <1>5
    <2>3. Built(Loc("linear", at.lo + 1, 0)) /\ Reached(Loc("linear", at.lo + 1, 0))
      BY <1>1, <2>2 DEF Built, Reached, Loc
    <2> QED BY <1>1, <2>1, <2>3, GotoLemma
  <1> QED BY <1>3, <1>4, <1>5

---------------------------------------------------------------------------
(* The binary search.                                                      *)

\* The middle of a part that is not empty.
LEMMA CenterLemma ==
    ASSUME NEW lo \in Int, NEW hi \in Int, lo < hi
    PROVE  /\ (lo + hi) \div 2 \in Int /\ lo <= (lo + hi) \div 2 /\ (lo + hi) \div 2 < hi
           /\ hi - lo = 1 => (lo + hi) \div 2 = lo
           /\ hi - lo = 2 => (lo + hi) \div 2 = lo + 1
  OBVIOUS

\* Where the case with value x is among the sorted ones.
LEMMA WithinLemma ==
    ASSUME LabelsInv, AllSorted, NEW lo, NEW hi, Within(lo, hi),
           NEW j \in 1 .. Len(cases), cases[j] = x
    PROVE  \E k \in 0 .. Count - 1 : sorted[k + 1] = j /\ Sorted(k) = x /\ lo <= k /\ k < hi
  BY SortedLemma DEF Within

\* The outcomes of link_switch_case_bsearch_item: a label that is right if x
\* is in this part of the cases, or a block that goes on comparing.
SearchAt(loc, lo, hi) ==
    \/ loc = LastLabel /\ \A j \in 1 .. Len(cases) : cases[j] # x
    \/ \E i \in 1 .. Len(cases) : loc = CaseAt(i) /\ \A j \in 1 .. Len(cases) : cases[j] = x => j = i
    \/ loc = Loc("comp", lo, hi) /\ lo < hi

\* link_switch_case_bsearch_item on a part that holds x if any does.
LEMMA BsearchItemLemma ==
    ASSUME LabelsInv, AllSorted, NEW lo \in 0 .. Count, NEW hi \in 0 .. Count, Within(lo, hi)
    PROVE  SearchAt(BsearchItem(lo, hi), lo, hi)
  <1>1. Count = Len(cases) /\ Count \in Nat
    BY SortedLemma
  <1>2. CASE lo >= hi
    <2>1. BsearchItem(lo, hi) = LastLabel
      BY <1>2 DEF BsearchItem
    <2>2. ASSUME NEW j \in 1 .. Len(cases), cases[j] = x PROVE FALSE
      <3>1. PICK k \in 0 .. Count - 1 : lo <= k /\ k < hi
        BY <2>2, WithinLemma
      <3> QED BY <1>1, <1>2, <3>1
    <2> QED BY <2>1, <2>2 DEF SearchAt
  <1>3. CASE lo < hi /\ BsearchItem(lo, hi) = Loc("comp", lo, hi)
    BY <1>3 DEF SearchAt
  <1>4. CASE lo < hi /\ BsearchItem(lo, hi) # Loc("comp", lo, hi)
    <2>1. ~ (lo >= hi)
      BY <1>1, <1>4
    <2>2. BsearchItem(lo, hi) = CaseAt(sorted[((lo + hi) \div 2) + 1]) /\ hi - lo = 1
      BY <1>4, <2>1 DEF BsearchItem
    <2>3. (lo + hi) \div 2 = lo /\ lo \in 0 .. Count - 1
      BY <1>1, <1>4, <2>2, CenterLemma
    <2>4. sorted[lo + 1] \in 1 .. Len(cases)
      BY <2>3, SortedLemma
    <2>5. ASSUME NEW j \in 1 .. Len(cases), cases[j] = x PROVE j = sorted[lo + 1]
      <3>1. PICK k \in 0 .. Count - 1 : sorted[k + 1] = j /\ lo <= k /\ k < hi
        BY <2>5, WithinLemma
      <3>2. k = lo
        BY <1>1, <2>2, <3>1
      <3> QED BY <3>1, <3>2
    <2> QED BY <2>2, <2>3, <2>4, <2>5 DEF SearchAt
  <1> QED BY <1>1, <1>2, <1>3, <1>4

\* What SearchAt says, once the search has been chosen.
LEMMA SearchReached ==
    ASSUME LabelsInv, AllSorted, mode = "bsearch", NEW loc, NEW lo \in 0 .. Count, NEW hi \in 0 .. Count,
           Within(lo, hi), SearchAt(loc, lo, hi)
    PROVE  Built(loc) /\ Reached(loc)
  <1>1. CASE loc = LastLabel /\ \A j \in 1 .. Len(cases) : cases[j] # x
    BY <1>1, AtLast
  <1>2. ASSUME NEW i \in 1 .. Len(cases), loc = CaseAt(i),
               \A j \in 1 .. Len(cases) : cases[j] = x => j = i
        PROVE  Built(loc) /\ Reached(loc)
    BY <1>2 DEF Built, Reached, CaseAt, Loc
  <1>3. CASE loc = Loc("comp", lo, hi) /\ lo < hi
    BY <1>3 DEF Built, Reached, Loc
  <1> QED BY <1>1, <1>2, <1>3 DEF SearchAt

\* The search continues in the part [lo, hi).
LEMMA SearchOn ==
    ASSUME LabelsInv, AllSorted, mode = "bsearch", NEW lo \in 0 .. Count, NEW hi \in 0 .. Count,
           Within(lo, hi), Goto(BsearchItem(lo, hi))
    PROVE  SwitchInv'
  <1>1. SearchAt(BsearchItem(lo, hi), lo, hi)
    BY BsearchItemLemma
  <1>2. Built(BsearchItem(lo, hi)) /\ Reached(BsearchItem(lo, hi))
    BY <1>1, SearchReached
  <1> QED BY <1>2, GotoLemma

\* The comparison with the middle case.
LEMMA CompareStep == SwitchInv /\ BsearchCompare => SwitchInv'
  <1> SUFFICES ASSUME SwitchInv, BsearchCompare PROVE SwitchInv'
    OBVIOUS
  <1>1. PICK lo \in Int, hi \in Int :
            /\ lo = at.lo /\ hi = at.hi
            /\ LabelsInv /\ mode = "bsearch" /\ AllSorted /\ Within(lo, hi)
            /\ lo \in 0 .. Count /\ hi \in 0 .. Count /\ lo < hi
    <2>1. /\ LabelsInv /\ mode = "bsearch" /\ AllSorted /\ Within(at.lo, at.hi)
          /\ at.lo \in 0 .. Count /\ at.hi \in 0 .. Count /\ at.lo < at.hi
      BY DEF SwitchInv, BsearchCompare, Reached
    <2>2. at.lo \in Int /\ at.hi \in Int
      BY <2>1
    <2> QED BY <2>1, <2>2
  <1>2. PICK c \in Int : c = (lo + hi) \div 2
    OBVIOUS
  <1>3. Count = Len(cases) /\ Count \in Nat
    BY <1>1, SortedLemma
  <1>4. /\ lo <= c /\ c < hi /\ c \in 0 .. Count /\ c \in 0 .. Count - 1
        /\ hi - lo = 1 => c = lo
        /\ hi - lo = 2 => c = lo + 1
    <2>1. lo < hi /\ c = (lo + hi) \div 2 /\ 0 <= lo /\ hi <= Count
      BY <1>1, <1>2, <1>3
    <2>2. /\ lo <= c /\ c < hi
          /\ hi - lo = 1 => c = lo
          /\ hi - lo = 2 => c = lo + 1
      BY <2>1, CenterLemma
    <2>3. 0 <= lo /\ hi <= Count
      BY <2>1
    <2>4. c \in 0 .. Count /\ c \in 0 .. Count - 1
      BY <1>3, <2>2, <2>3
    <2> QED BY <2>2, <2>4
  <1>5. Conv(Sorted(c)) = Sorted(c) /\ sorted[c + 1] \in 1 .. Len(cases) /\ cases[sorted[c + 1]] = Sorted(c)
    BY <1>1, <1>4, SortedLemma
  <1>6. CASE Sorted(c) = x
    <2>1. Goto(CaseAt(sorted[c + 1]))
      BY <1>1, <1>2, <1>5, <1>6 DEF BsearchCompare
    <2> QED BY <1>1, <1>5, <1>6, <2>1, AtCase, GotoLemma
  <1>7. CASE Sorted(c) # x /\ hi - lo = 1
    <2>1. Goto(LastLabel)
      BY <1>1, <1>2, <1>5, <1>7 DEF BsearchCompare
    <2>2. ASSUME NEW j \in 1 .. Len(cases), cases[j] = x PROVE FALSE
      <3>1. PICK k \in 0 .. Count - 1 : Sorted(k) = x /\ lo <= k /\ k < hi
        BY <1>1, <2>2, WithinLemma
      <3>2. k = c
        <4>1. k \in Int /\ lo <= k /\ k < hi /\ hi - lo = 1 /\ c = lo
          BY <1>3, <1>4, <1>7, <3>1
        <4> QED BY <4>1
      <3> QED BY <1>7, <3>1, <3>2
    <2> QED BY <1>1, <2>1, <2>2, AtLast, GotoLemma
  <1>8. CASE Sorted(c) # x /\ hi - lo = 2
    <2>1. Goto(BsearchItem(lo, c))
      BY <1>1, <1>2, <1>5, <1>8 DEF BsearchCompare
    <2>2. Within(lo, c)
      <3> SUFFICES ASSUME NEW k \in 0 .. Count - 1, Sorted(k) = x PROVE lo <= k /\ k < c
        BY DEF Within
      <3>1. lo <= k /\ k < hi /\ k # c
        BY <1>1, <1>8 DEF Within
      <3>2. c = lo + 1 /\ k \in Int
        BY <1>3, <1>4, <1>8
      <3> QED BY <1>8, <3>1, <3>2
    <2> QED BY <1>1, <1>4, <2>1, <2>2, SearchOn
  <1>9. CASE Sorted(c) # x /\ hi - lo # 1 /\ hi - lo # 2
    <2>1. Goto(Loc("left", lo, hi))
      BY <1>1, <1>2, <1>5, <1>9 DEF BsearchCompare
    <2>2. hi - lo > 2
      BY <1>1, <1>9
    <2>3. Built(Loc("left", lo, hi)) /\ Reached(Loc("left", lo, hi))
      BY <1>1, <1>2, <1>9, <2>2 DEF Built, Reached, Loc
    <2> QED BY <1>1, <2>1, <2>3, GotoLemma
  <1> QED BY <1>6, <1>7, <1>8, <1>9

\* The choice between the two parts.
LEMMA LeftStep == SwitchInv /\ BsearchLeft => SwitchInv'
  <1> SUFFICES ASSUME SwitchInv, BsearchLeft PROVE SwitchInv'
    OBVIOUS
  <1>1. PICK lo \in Int, hi \in Int :
            /\ lo = at.lo /\ hi = at.hi
            /\ LabelsInv /\ mode = "bsearch" /\ AllSorted /\ Within(lo, hi)
            /\ lo \in 0 .. Count /\ hi \in 0 .. Count /\ lo < hi
            /\ Sorted((lo + hi) \div 2) # x
    <2>1. /\ LabelsInv /\ mode = "bsearch" /\ AllSorted /\ Within(at.lo, at.hi)
          /\ at.lo \in 0 .. Count /\ at.hi \in 0 .. Count /\ at.lo < at.hi
          /\ Sorted((at.lo + at.hi) \div 2) # x
      BY DEF SwitchInv, BsearchLeft, Reached
    <2>2. at.lo \in Int /\ at.hi \in Int
      BY <2>1
    <2> QED BY <2>1, <2>2
  <1>2. PICK c \in Int : c = (lo + hi) \div 2 /\ Sorted(c) # x
    BY <1>1
  <1>3. Count = Len(cases) /\ Count \in Nat
    BY <1>1, SortedLemma
  <1>4. lo <= c /\ c < hi /\ c \in 0 .. Count /\ c \in 0 .. Count - 1 /\ c + 1 \in 0 .. Count
    <2>1. 0 <= lo /\ lo < hi /\ hi <= Count
      BY <1>1, <1>3
    <2>2. lo <= c /\ c < hi
      BY <1>1, <1>2, CenterLemma
    <2> QED BY <1>3, <2>1, <2>2
  <1>5. /\ Conv(Sorted(c)) = Sorted(c) /\ Sorted(c) \in Int /\ x \in Int
        /\ \A k \in 0 .. Count - 1 : Sorted(k) = x => lo <= k /\ k < hi /\ k # c
        /\ \A k \in 0 .. Count - 1 : k < c => Sorted(k) < Sorted(c)
        /\ \A k \in 0 .. Count - 1 : c < k => Sorted(c) < Sorted(k)
    BY <1>1, <1>2, <1>4, SortedLemma, ValuesLemma DEF Within
  <1>6. CASE Sorted(c) > x
    <2>1. Goto(BsearchItem(lo, c))
      BY <1>1, <1>2, <1>5, <1>6 DEF BsearchLeft
    <2>2. Within(lo, c)
      <3> SUFFICES ASSUME NEW k \in 0 .. Count - 1, Sorted(k) = x PROVE lo <= k /\ k < c
        BY DEF Within
      <3>1. ~ (c < k) /\ lo <= k /\ k # c
        BY <1>5, <1>6
      <3> QED BY <1>3, <3>1
    <2> QED BY <1>1, <1>4, <2>1, <2>2, SearchOn
  <1>7. CASE ~ (Sorted(c) > x)
    <2>1. Goto(BsearchItem(c + 1, hi))
      BY <1>1, <1>2, <1>5, <1>7 DEF BsearchLeft
    <2>2. Within(c + 1, hi)
      <3> SUFFICES ASSUME NEW k \in 0 .. Count - 1, Sorted(k) = x PROVE c + 1 <= k /\ k < hi
        BY DEF Within
      <3>1. ~ (k < c) /\ k < hi /\ k # c
        BY <1>5, <1>7
      <3> QED BY <1>3, <3>1
    <2> QED BY <1>1, <1>4, <2>1, <2>2, SearchOn
  <1> QED BY <1>6, <1>7

\* If all neighbours are near, so are the least and the greatest case.
LEMMA SpreadLemma ==
    ASSUME LabelsInv, AllSorted, body = <<>>, Len(cases) > LinearMax, UseJumpTable
    PROVE  Sorted(Count - 1) - Sorted(0) < Half
  <1>1. Count = Len(cases) /\ Count \in Nat /\ Count > 0
    BY SortedLemma
  <1>2. \A v : v \in AllValues <=> \E k \in 0 .. Count - 1 : Sorted(k) = v
    <2>1. Len(body) = 0
      BY EmptySeq
    <2>2. CaseValues(body) = {}
      BY <2>1 DEF CaseValues
    <2>3. \A v : v \in AllValues <=> \E i \in 1 .. Len(cases) : cases[i] = v
      BY <2>2 DEF AllValues
    <2>4. \A i \in 1 .. Len(cases) : \E k \in 0 .. Count - 1 : Sorted(k) = cases[i]
      BY SortedLemma
    <2>5. \A k \in 0 .. Count - 1 : \E i \in 1 .. Len(cases) : cases[i] = Sorted(k)
      BY SortedLemma
    <2> QED BY <2>3, <2>4, <2>5
  <1>3. NoOverflow(AllValues)
    <2>1. Len(cases) + Len(body) = Len(cases)
      BY <1>1, EmptySeq
    <2> QED BY <2>1 DEF LabelsInv
  <1>4. ASSUME NEW a \in AllValues, NEW b \in AllValues, Neighbours(AllValues, a, b)
        PROVE  \E k \in 1 .. Count - 1 : a = Sorted(k - 1) /\ b = Sorted(k) /\ b - a < Half
    <2>1. PICK k \in 0 .. Count - 1 : Sorted(k) = a
      BY <1>2
    <2>2. PICK m \in 0 .. Count - 1 : Sorted(m) = b
      BY <1>2
    <2>3. a \in Int /\ b \in Int /\ a < b
      BY <1>4, <2>1, <2>2, SortedLemma DEF Neighbours
    <2>4. k < m
      <3>1. k < m \/ k = m \/ m < k
        BY <1>1
      <3>2. m < k => b < a
        BY <2>1, <2>2, SortedLemma
      <3> QED BY <2>1, <2>2, <2>3, <3>1, <3>2
    <2>5. m = k + 1
      <3> SUFFICES ASSUME m # k + 1 PROVE FALSE
        OBVIOUS
      <3>1. k + 1 \in 0 .. Count - 1 /\ k < k + 1 /\ k + 1 < m
        BY <1>1, <2>4
      <3>2. a < Sorted(k + 1) /\ Sorted(k + 1) < b
        BY <2>1, <2>2, <3>1, SortedLemma
      <3>3. Sorted(k + 1) \in AllValues
        BY <1>2, <3>1
      <3> QED BY <1>4, <3>2, <3>3 DEF Neighbours
    <2>6. m \in 1 .. Count - 1 /\ m - 1 = k
      BY <1>1, <2>5
    <2>7. b - a < Half
      BY <1>3, <1>4 DEF NoOverflow
    <2> QED BY <2>1, <2>2, <2>6, <2>7
  <1>5. ASSUME NEW a \in AllValues, NEW b \in AllValues, Neighbours(AllValues, a, b)
        PROVE  b - a < Threshold
    <2>1. PICK k \in 1 .. Count - 1 : a = Sorted(k - 1) /\ b = Sorted(k) /\ b - a < Half
      BY <1>4, <1>5
    <2>2. k \in 0 .. Count - 1 /\ k - 1 \in 0 .. Count - 1
      BY <1>1
    <2>3. a \in Int /\ b \in Int /\ ToInt(a) = a /\ ToInt(b) = b
      BY <2>1, <2>2, SortedLemma
    <2>4. a < b
      BY <1>5 DEF Neighbours
    <2>5. Half \in Nat /\ Half > 0
      BY HalfAssumption
    <2>6. b - a \in Int /\ 0 - 2 * Half <= b - a /\ b - a < 2 * Half /\ ~ (b - a < 0 - Half) /\ ~ (b - a >= Half)
      BY <2>1, <2>3, <2>4, <2>5
    <2>7. ToInt(b - a) = b - a
      BY <2>6, ToIntLemma
    <2>8. ToInt(ToInt(Sorted(k)) - ToInt(Sorted(k - 1))) < Threshold
      BY DEF UseJumpTable
    <2> QED BY <2>1, <2>3, <2>7, <2>8
  <1>6. Sorted(0) \in AllValues /\ Sorted(Count - 1) \in AllValues
    BY <1>1, <1>2
  <1>7. \A a, b \in AllValues : b - a < Half
    BY <1>3, <1>5 DEF NoOverflow
  <1> QED BY <1>6, <1>7

\* The search starts with all the cases, the jump table with no entry.
LEMMA ChooseStep == SwitchInv /\ ChooseLowering => SwitchInv'
  <1> SUFFICES ASSUME SwitchInv, ChooseLowering PROVE SwitchInv'
    OBVIOUS
  <1>1. /\ LabelsInv /\ table = <<>>
        /\ UNCHANGED <<unsigned, body, cases, dflt, sorted, table, x>>
    BY DEF SwitchInv, ChooseLowering, Built
  <1>2. AllSorted
    <2>1. /\ at.lo \in 1 .. Len(cases) + 1 /\ at.lo > Len(cases) /\ Len(cases) > LinearMax
          /\ SortedUpTo(at.lo - 1) /\ Len(cases) \in Nat
      BY LenProperties DEF SwitchInv, ChooseLowering, Built, LabelsInv
    <2>2. at.lo - 1 = Len(cases) /\ Len(cases) > 0
      BY <2>1, LinearMaxAssumption
    <2> QED BY <2>1, <2>2 DEF AllSorted
  <1>3. LabelsInv'
    BY <1>1, LabelsKept
  <1>4. AllSorted' /\ Count' = Count /\ Count \in Nat /\ Count = Len(cases) /\ Count > 0
        /\ Sorted(0)' = Sorted(0)
    BY <1>1, <1>2, SortedLemma DEF AllSorted, SortedUpTo, Count, Sorted
  <1>5. body = <<>> /\ Len(cases) > LinearMax
    BY DEF SwitchInv, ChooseLowering, Built
  <1>6. CASE UseJumpTable
    <2>1. mode' = "table" /\ at' = Filling(0) /\ nextv' = minv
      BY <1>6 DEF ChooseLowering
    <2>2. minv = Sorted(0) /\ Sorted(0) \in Int
      BY <1>1, <1>2, <1>4, SortedLemma DEF minv
    <2>3. FilledUpTo(0)'
      <3>1. table' \in Seq(Locs) /\ Len(table') = 0
        BY <1>1, EmptySeq
      <3>2. nextv' - Sorted(0)' = 0
        BY <1>4, <2>1, <2>2
      <3>3. Sorted(Count - 1)' - Sorted(0)' < Half
        <4>1. Sorted(Count - 1) - Sorted(0) < Half
          BY <1>1, <1>2, <1>5, <1>6, SpreadLemma
        <4> QED BY <1>1, <1>4, <4>1 DEF Sorted, Count
      <3> QED BY <1>4, <2>1, <2>2, <3>1, <3>2, <3>3 DEF FilledUpTo
    <2>4. Built(at)'
      BY <1>4, <2>1, <2>3 DEF Built, Filling, Loc
    <2>5. Reached(at)'
      BY <2>1 DEF Reached, Filling, Loc
    <2> QED BY <1>3, <2>4, <2>5 DEF SwitchInv
  <1>7. CASE ~ UseJumpTable
    <2>1. mode' = "bsearch" /\ at' = BsearchItem(0, Count)
      BY <1>7 DEF ChooseLowering
    <2>2. Within(0, Count) /\ Within(0, Count)'
      BY <1>4 DEF Within
    <2>3. PICK n \in Nat, loc \in {BsearchItem(0, Count)} : n = Count /\ loc = BsearchItem(0, Count)
      BY <1>4
    <2>4. SearchAt(loc, 0, n)
      <3>1. 0 \in 0 .. Count /\ Count \in 0 .. Count
        BY <1>4
      <3> QED BY <1>1, <1>2, <2>2, <2>3, <3>1, BsearchItemLemma
    <2>5. n = Count' /\ n \in 0 .. Count' /\ 0 \in 0 .. Count' /\ Within(0, n)'
      BY <1>4, <2>2, <2>3
    <2>6. Built(at)' /\ Reached(at)'
      <3>1. CASE loc = LastLabel /\ \A j \in 1 .. Len(cases) : cases[j] # x
        BY <1>1, <2>1, <2>3, <3>1 DEF Built, Reached, LastLabel, Loc
      <3>2. ASSUME NEW i \in 1 .. Len(cases), loc = CaseAt(i),
                   \A j \in 1 .. Len(cases) : cases[j] = x => j = i
            PROVE  Built(at)' /\ Reached(at)'
        BY <1>1, <2>1, <2>3, <3>2 DEF Built, Reached, CaseAt, Loc
      <3>3. CASE loc = Loc("comp", 0, n) /\ 0 < n
        BY <1>1, <1>4, <2>1, <2>3, <2>5, <3>3 DEF Built, Reached, Loc
      <3> QED BY <2>4, <3>1, <3>2, <3>3 DEF SearchAt
    <2> QED BY <1>3, <2>6 DEF SwitchInv
  <1> QED BY <1>6, <1>7

---------------------------------------------------------------------------
(* The jump table.                                                         *)

\* A list continued with g times the fall-back label and one more label.
Extended(t, g, l) == t \o [k \in 1 .. g |-> LastLabel] \o <<l>>

\* e has the elements of t, then g times the fall-back label, then l.
Continues(e, t, g, l) ==
    /\ e \in Seq(Locs) /\ Len(e) = Len(t) + g + 1
    /\ \A k \in 1 .. Len(t) : e[k] = t[k]
    /\ \A k \in Len(t) + 1 .. Len(t) + g : e[k] = LastLabel
    /\ e[Len(t) + g + 1] = l

\* The elements of the longer list.
LEMMA ExtendedLemma ==
    ASSUME NEW t \in Seq(Locs), NEW g \in Nat, NEW l \in Locs
    PROVE  Continues(Extended(t, g, l), t, g, l)
  <1> DEFINE e == Extended(t, g, l)
             a == [k \in 1 .. g |-> LastLabel]
             c == t \o a
             b == <<l>>
  <1>1. LastLabel \in Locs
    BY DEF LastLabel, Loc, Locs
  <1>2. a \in Seq(Locs) /\ Len(a) = g /\ \A k \in 1 .. g : a[k] = LastLabel
    BY <1>1
  <1>3. b \in Seq(Locs) /\ Len(b) = 1 /\ b[1] = l
    OBVIOUS
  <1>4. Len(t) \in Nat
    BY LenProperties
  <1> HIDE DEF a, b
  <1>5. /\ c \in Seq(Locs) /\ Len(c) = Len(t) + g
        /\ \A k \in 1 .. Len(t) + g : c[k] = IF k <= Len(t) THEN t[k] ELSE a[k - Len(t)]
    BY <1>2, ConcatProperties
  <1> HIDE DEF c
  <1>6. /\ c \o b \in Seq(Locs) /\ Len(c \o b) = Len(c) + Len(b)
        /\ \A k \in 1 .. Len(c) + Len(b) : (c \o b)[k] = IF k <= Len(c) THEN c[k] ELSE b[k - Len(c)]
    <2>1. c \in Seq(Locs) /\ b \in Seq(Locs)
      BY <1>3, <1>5
    <2> QED BY <2>1, ConcatProperties
  <1>7. e = c \o b
    BY DEF e, Extended, a, b, c
  <1> HIDE DEF e
  <1>8. e \in Seq(Locs) /\ Len(e) = Len(t) + g + 1
    BY <1>3, <1>4, <1>5, <1>6, <1>7
  <1>9. Len(c) + Len(b) = Len(t) + g + 1 /\ Len(c) = Len(t) + g
    BY <1>3, <1>4, <1>5
  <1>10. ASSUME NEW k \in 1 .. Len(t) PROVE e[k] = t[k]
    <2>1. k \in 1 .. Len(t) + g + 1 /\ k \in 1 .. Len(t) + g /\ k <= Len(t) + g /\ k <= Len(t)
      BY <1>4
    <2> QED BY <1>5, <1>6, <1>7, <1>9, <2>1
  <1>11. ASSUME NEW k \in Len(t) + 1 .. Len(t) + g PROVE e[k] = LastLabel
    <2>1. /\ k \in 1 .. Len(t) + g + 1 /\ k \in 1 .. Len(t) + g /\ k <= Len(t) + g
          /\ ~ (k <= Len(t)) /\ k - Len(t) \in 1 .. g
      BY <1>4
    <2>2. e[k] = c[k]
      BY <1>6, <1>7, <1>9, <2>1
    <2>3. c[k] = a[k - Len(t)]
      BY <1>5, <2>1
    <2> QED BY <1>2, <2>1, <2>2, <2>3
  <1>12. e[Len(t) + g + 1] = l
    <2>1. /\ Len(t) + g + 1 \in 1 .. Len(t) + g + 1 /\ ~ (Len(t) + g + 1 <= Len(t) + g)
          /\ (Len(t) + g + 1) - (Len(t) + g) = 1
      BY <1>4
    <2>2. e[Len(t) + g + 1] = b[(Len(t) + g + 1) - (Len(t) + g)]
      BY <1>6, <1>7, <1>9, <2>1
    <2> QED BY <1>3, <2>1, <2>2
  <1> QED BY <1>8, <1>10, <1>11, <1>12 DEF e, Continues

\* One more case, and the gap before it.
LEMMA FillStep == SwitchInv /\ FillTable => SwitchInv'
  <1> SUFFICES ASSUME SwitchInv, FillTable PROVE SwitchInv'
    OBVIOUS
  <1>1. /\ LabelsInv /\ at' = Filling(at.lo + 1) /\ at.lo \in 0 .. Count /\ at.lo < Count
        /\ UNCHANGED <<unsigned, body, cases, dflt, sorted, mode, x>>
        /\ FilledUpTo(at.lo)
    BY DEF SwitchInv, FillTable, Built
  <1>2. AllSorted /\ mode = "table" /\ table \in Seq(Locs) /\ Len(table) \in Nat
    BY <1>1, LenProperties DEF FilledUpTo
  <1>3. PICK n \in Nat, c \in Nat, m \in Int, v \in Int, u \in Int, len \in Nat :
            /\ n = at.lo /\ n < c /\ c = Count
            /\ m = Sorted(0) /\ v = Sorted(n) /\ u = nextv /\ len = Len(table)
    <2>1. Count \in Nat /\ at.lo \in 0 .. Count - 1 /\ 0 \in 0 .. Count - 1
      BY <1>1, <1>2, SortedLemma
    <2>2. Sorted(0) \in Int /\ Sorted(at.lo) \in Int
      BY <1>1, <1>2, <2>1, SortedLemma
    <2>3. at.lo # 0 => at.lo - 1 \in 0 .. Count - 1
      BY <2>1
    <2>4. nextv \in Int
      BY <1>1, <1>2, <2>2, <2>3, SortedLemma DEF FilledUpTo
    <2>5. at.lo \in Nat /\ at.lo < Count /\ Len(table) \in Nat
      BY <1>1, <1>2, <2>1
    <2> QED BY <2>1, <2>2, <2>4, <2>5
  <1>4. /\ \A k \in 0 .. c - 1 : Sorted(k) \in Int
        /\ ToInt(Sorted(n)) = v
        /\ \A k \in 0 .. c - 1 : k < n => Sorted(k) < u
        /\ \A k \in 0 .. c - 1 : n < k => v < Sorted(k)
        /\ \A k \in 0 .. c - 1 : Sorted(k) = v => k = n
        /\ u <= v
        /\ sorted[n + 1] \in 1 .. Len(cases)
    <2>1. n \in 0 .. c - 1 /\ 0 \in 0 .. c - 1
      BY <1>3
    <2>2. /\ \A k \in 0 .. c - 1 : Sorted(k) \in Int
          /\ \A k, j \in 0 .. c - 1 : k < j => Sorted(k) < Sorted(j)
          /\ \A k, j \in 0 .. c - 1 : Sorted(k) = Sorted(j) => k = j
          /\ ToInt(Sorted(n)) = v /\ sorted[n + 1] \in 1 .. Len(cases)
      BY <1>1, <1>2, <1>3, <2>1, SortedLemma
    <2>3. \A k \in 0 .. c - 1 : n < k => v < Sorted(k)
      BY <1>3, <2>1, <2>2
    <2>4. \A k \in 0 .. c - 1 : Sorted(k) = v => k = n
      BY <1>3, <2>1, <2>2
    <2>5. CASE n = 0
      <3>1. u = v
        <4>1. nextv = IF at.lo = 0 THEN Sorted(0) ELSE Sorted(at.lo - 1) + 1
          BY <1>1 DEF FilledUpTo
        <4> QED BY <1>3, <2>5, <4>1
      <3>2. \A k \in 0 .. c - 1 : ~ (k < n)
        BY <1>3, <2>5
      <3>3. \A k \in 0 .. c - 1 : k < n => Sorted(k) < u
        BY <3>2
      <3>4. u <= v
        BY <1>3, <3>1
      <3> QED BY <2>2, <2>3, <2>4, <3>3, <3>4
    <2>6. CASE n # 0
      <3>1. u = Sorted(n - 1) + 1 /\ n - 1 \in 0 .. c - 1 /\ n - 1 < n
        <4>1. nextv = IF at.lo = 0 THEN Sorted(0) ELSE Sorted(at.lo - 1) + 1
          BY <1>1 DEF FilledUpTo
        <4>2. u = Sorted(n - 1) + 1
          BY <1>3, <2>6, <4>1
        <4> QED BY <1>3, <2>6, <4>2
      <3>2. u <= v
        BY <1>3, <2>1, <2>2, <3>1
      <3>3. ASSUME NEW k \in 0 .. c - 1, k < n PROVE Sorted(k) < u
        <4>1. k = n - 1 \/ k < n - 1
          BY <1>3, <3>3
        <4>2. Sorted(k) = Sorted(n - 1) \/ Sorted(k) < Sorted(n - 1)
          BY <2>2, <3>1, <4>1
        <4>3. Sorted(k) \in Int /\ Sorted(n - 1) \in Int
          BY <2>2, <3>1
        <4> QED BY <3>1, <4>2, <4>3
      <3> QED BY <2>2, <2>3, <2>4, <3>2, <3>3
    <2> QED BY <2>5, <2>6
  <1>5. PICK g \in Nat : g = v - u /\ u + g + 1 = v + 1
    BY <1>3, <1>4
  <1>6. table' = Extended(table, g, CaseAt(sorted[n + 1])) /\ nextv' = v + 1
    <2>1. /\ table' = table \o [k \in 1 .. IF nextv < v THEN v - nextv ELSE 0 |-> LastLabel]
                            \o <<CaseAt(sorted[n + 1])>>
          /\ nextv' = nextv + (IF nextv < v THEN v - nextv ELSE 0) + 1
      BY <1>3, <1>4 DEF FillTable
    <2>2. (IF nextv < v THEN v - nextv ELSE 0) = g
      BY <1>3, <1>4, <1>5
    <2> QED BY <1>3, <1>5, <2>1, <2>2 DEF Extended
  <1>7. CaseAt(sorted[n + 1]) \in Locs
    <2>1. sorted[n + 1] \in Int
      BY <1>4
    <2> QED BY <2>1 DEF CaseAt, Loc, Locs
  <1>8. /\ table' \in Seq(Locs) /\ Len(table') = len + g + 1
        /\ \A t \in 1 .. len : table'[t] = table[t]
        /\ \A t \in len + 1 .. len + g : table'[t] = LastLabel
        /\ table'[len + g + 1] = CaseAt(sorted[n + 1])
    <2>1. Continues(Extended(table, g, CaseAt(sorted[n + 1])), table, g, CaseAt(sorted[n + 1]))
      BY <1>2, <1>7, ExtendedLemma
    <2>2. Continues(table', table, g, CaseAt(sorted[n + 1]))
      BY <1>6, <2>1
    <2> QED BY <1>3, <2>2 DEF Continues
  <1>9. len = u - m /\ \A t \in 1 .. len : EntryOf(table[t], m + t - 1)
    BY <1>1, <1>3 DEF FilledUpTo
  <1>10. ASSUME NEW t \in 1 .. len + g + 1 PROVE EntryOf(table'[t], m + t - 1)
    <2>1. CASE t \in 1 .. len
      BY <1>8, <1>9, <2>1
    <2>2. CASE t \in len + 1 .. len + g
      <3>1. u <= m + t - 1 /\ m + t - 1 < v
        BY <1>3, <1>5, <1>9, <2>2
      <3>2. ASSUME NEW k \in 0 .. c - 1 PROVE Sorted(k) # m + t - 1
        <4>1. k < n \/ k = n \/ n < k
          BY <1>3
        <4>2. Sorted(k) < u \/ Sorted(k) = v \/ v < Sorted(k)
          BY <1>3, <1>4, <4>1
        <4>3. Sorted(k) \in Int
          BY <1>4
        <4> QED BY <1>3, <3>1, <4>2, <4>3
      <3> QED BY <1>3, <1>8, <2>2, <3>2 DEF EntryOf
    <2>3. CASE t = len + g + 1
      <3>1. m + t - 1 = v /\ n \in 0 .. c - 1
        BY <1>3, <1>5, <1>9, <2>3
      <3> QED BY <1>3, <1>4, <1>8, <2>3, <3>1 DEF EntryOf
    <2>4. t \in 1 .. len \/ t \in len + 1 .. len + g \/ t = len + g + 1
      <3>1. t \in Int /\ len \in Nat /\ g \in Nat /\ 1 <= t /\ t <= len + g + 1
        OBVIOUS
      <3> QED BY <3>1
    <2> QED BY <2>1, <2>2, <2>3, <2>4
  <1>11. AllSorted' /\ Count' = c /\ (\A k : Sorted(k)' = Sorted(k))
    BY <1>1, <1>2, <1>3 DEF AllSorted, SortedUpTo, Count, Sorted
  <1>12. FilledUpTo(n + 1)'
    <2>1. n + 1 # 0 /\ (n + 1) - 1 = n
      BY <1>3
    <2>2. nextv' = Sorted((n + 1) - 1)' + 1
      BY <1>3, <1>6, <1>11, <2>1
    <2>3. Len(table') = nextv' - Sorted(0)'
      <3>1. Len(table') = len + g + 1 /\ nextv' = v + 1 /\ Sorted(0)' = m
        BY <1>3, <1>6, <1>8, <1>11
      <3>2. g = v - u /\ len = u - m
        BY <1>5, <1>9
      <3> QED BY <3>1, <3>2
    <2>4. ASSUME NEW t \in 1 .. Len(table') PROVE EntryOf(table[t], Sorted(0) + t - 1)'
      <3>1. EntryOf(table'[t], m + t - 1)
        BY <1>8, <1>10
      <3>2. Sorted(0)' = m /\ sorted' = sorted
        BY <1>1, <1>3, <1>11
      <3> QED BY <1>3, <1>11, <3>1, <3>2 DEF EntryOf
    <2>5. Sorted(Count - 1)' - Sorted(0)' < Half
      BY <1>1, <1>3, <1>11 DEF FilledUpTo, Sorted, Count
    <2> QED BY <1>1, <1>2, <1>8, <1>11, <2>1, <2>2, <2>3, <2>4, <2>5 DEF FilledUpTo
  <1>13. Built(at)'
    <2>1. at'.kind = "filling" /\ at'.lo = n + 1
      BY <1>1, <1>3 DEF Filling, Loc
    <2>2. n + 1 \in 0 .. Count'
      BY <1>3, <1>11
    <2> QED BY <1>12, <2>1, <2>2 DEF Built
  <1>14. Reached(at)'
    BY <1>1 DEF Reached, Filling, Loc
  <1>15. LabelsInv'
    BY <1>1, LabelsKept
  <1> QED BY <1>13, <1>14, <1>15 DEF SwitchInv

\* With all cases the table is complete.
LEMMA DoneStep == SwitchInv /\ TableDone => SwitchInv'
  <1> SUFFICES ASSUME SwitchInv, TableDone PROVE SwitchInv'
    OBVIOUS
  <1>1. /\ LabelsInv /\ at.lo \in 0 .. Count /\ at.lo >= Count /\ FilledUpTo(at.lo)
        /\ Goto(Loc("comp1", 0, 0))
    BY DEF SwitchInv, TableDone, Built, Goto
  <1>2. Count \in Nat
    BY <1>1, SortedLemma DEF FilledUpTo
  <1>3. at.lo = Count
    BY <1>1, <1>2
  <1>4. Built(Loc("comp1", 0, 0)) /\ Reached(Loc("comp1", 0, 0))
    BY <1>1, <1>3 DEF Built, Reached, Loc
  <1> QED BY <1>1, <1>4, GotoLemma

\* The index computed before the jump: within the bounds it is the distance
\* of x from the least case, and outside of them x is not between the least
\* and the greatest case.
LEMMA CheckLemma ==
    ASSUME LabelsInv, AllSorted, Sorted(Count - 1) - Sorted(0) < Half
    PROVE  /\ check \in Int /\ maxval \in Nat /\ Conv(maxval) = maxval
           /\ maxval = Sorted(Count - 1) - Sorted(0)
           /\ 0 <= check /\ check <= maxval => x = Sorted(0) + check
           /\ check < 0 \/ check > maxval => x < Sorted(0) \/ x > Sorted(Count - 1)
  <1>1. PICK c \in Nat, m \in Int, M \in Int, H \in Nat :
            /\ c = Count /\ c > 0 /\ m = Sorted(0) /\ M = Sorted(c - 1) /\ H = Half /\ H > 0
            /\ m <= M /\ M - m < H /\ 0 - H <= m /\ M < H /\ (unsigned => m >= 0)
            /\ minv = m /\ maxv = M
    <2>1. Count \in Nat /\ Count > 0 /\ 0 \in 0 .. Count - 1 /\ Count - 1 \in 0 .. Count - 1
      BY SortedLemma
    <2>2. /\ Sorted(0) \in Int /\ Sorted(Count - 1) \in Int
          /\ 0 - Half <= Sorted(0) /\ Sorted(Count - 1) < Half /\ (unsigned => Sorted(0) >= 0)
          /\ Sorted(Count - 1) - Sorted(0) < Half
          /\ ToInt(Sorted(0)) = Sorted(0) /\ ToInt(Sorted(Count - 1)) = Sorted(Count - 1)
      BY <2>1, SortedLemma
    <2>3. 0 = Count - 1 \/ 0 < Count - 1
      BY <2>1
    <2>4. Sorted(0) = Sorted(Count - 1) \/ Sorted(0) < Sorted(Count - 1)
      BY <2>1, <2>3, SortedLemma
    <2>5. Half \in Nat /\ Half > 0
      BY HalfAssumption
    <2>6. Sorted(0) <= Sorted(Count - 1)
      BY <2>2, <2>4
    <2> QED BY <2>1, <2>2, <2>5, <2>6 DEF minv, maxv
  <1>2. /\ x \in Int /\ unsigned \in BOOLEAN
        /\ IF unsigned THEN 0 <= x /\ x < 2 * H ELSE 0 - H <= x /\ x < H
    BY <1>1, ValuesLemma DEF LabelsInv
  <1>3. ASSUME NEW v \in Int, 0 - 2 * H <= v, v < 2 * H
        PROVE  /\ ToInt(v) = IF v < 0 - H THEN v + 2 * H ELSE IF v >= H THEN v - 2 * H ELSE v
               /\ unsigned => Conv(v) = IF v < 0 THEN v + 2 * H ELSE v
               /\ ~ unsigned => Conv(v) = IF v < 0 - H THEN v + 2 * H
                                          ELSE IF v >= H THEN v - 2 * H ELSE v
    <2>1. ToInt(v) = IF v < 0 - H THEN v + 2 * H ELSE IF v >= H THEN v - 2 * H ELSE v
      BY <1>1, <1>3, ToIntLemma
    <2>2. v % Modulus = IF v < 0 THEN v + 2 * H ELSE v
      <3>1. Modulus = 2 * H /\ Modulus \in Nat /\ Modulus > 0
        BY <1>1 DEF Modulus
      <3> QED BY <1>1, <1>3, <3>1, ModLemma
    <2> QED BY <2>1, <2>2 DEF Conv
  <1>4. maxval = M - m /\ Conv(maxval) = maxval /\ maxval \in Nat
    <2>1. M - m \in Int /\ 0 <= M - m /\ M - m < H /\ 0 - 2 * H <= M - m /\ M - m < 2 * H
      BY <1>1
    <2>2. ToInt(M - m) = M - m /\ Conv(M - m) = M - m
      BY <1>1, <1>2, <1>3, <2>1
    <2> QED BY <1>1, <2>1, <2>2 DEF maxval
  <1>5. CASE unsigned
    <2>1. CASE m > 0
      <3>1. check = IF x - m < 0 THEN x - m + 2 * H ELSE x - m
        <4>1. x - m \in Int /\ 0 - 2 * H <= x - m /\ x - m < 2 * H
          BY <1>1, <1>2, <1>5, <2>1
        <4>2. check = Conv(x - m)
          BY <1>1, <2>1 DEF check
        <4> QED BY <1>3, <1>5, <4>1, <4>2
      <3> QED BY <1>1, <1>2, <1>4, <1>5, <2>1, <3>1
    <2>2. CASE m = 0
      <3>1. check = x
        BY <1>1, <2>2 DEF check
      <3> QED BY <1>1, <1>2, <1>4, <1>5, <2>2, <3>1
    <2> QED BY <1>1, <1>5, <2>1, <2>2
  <1>6. CASE ~ unsigned
    <2>1. CASE m > 0
      <3>1. check = IF x - m < 0 - H THEN x - m + 2 * H ELSE x - m
        <4>1. x - m \in Int /\ 0 - 2 * H <= x - m /\ x - m < H /\ x - m < 2 * H
          BY <1>1, <1>2, <1>6, <2>1
        <4>2. check = Conv(x - m)
          BY <1>1, <2>1 DEF check
        <4>3. ~ (x - m >= H)
          BY <1>1, <4>1
        <4> QED BY <1>3, <1>6, <4>1, <4>2, <4>3
      <3> QED BY <1>1, <1>2, <1>4, <1>6, <2>1, <3>1
    <2>2. CASE m = 0
      <3>1. check = x
        BY <1>1, <2>2 DEF check
      <3> QED BY <1>1, <1>2, <1>4, <1>6, <2>2, <3>1
    <2>3. CASE m < 0 /\ m # 0 - H
      <3>1. check = IF x - m >= H THEN x - m - 2 * H ELSE x - m
        <4>1. -m \in Int /\ -m = 0 - m /\ 0 - 2 * H <= -m /\ -m < 2 * H /\ ~ (-m < 0 - H) /\ ~ (-m >= H)
          BY <1>1, <2>3
        <4>2. ToInt(-m) = -m
          BY <1>3, <4>1
        <4>3. x + (-m) = x - m /\ x - m \in Int /\ 0 - 2 * H <= x - m /\ x - m < 2 * H /\ ~ (x - m < 0 - H)
          BY <1>1, <1>2, <1>6, <2>3
        <4>4. check = Conv(x - m)
          BY <1>1, <2>3, <4>2, <4>3 DEF check
        <4> QED BY <1>3, <1>6, <4>3, <4>4
      <3> QED BY <1>1, <1>2, <1>4, <1>6, <2>3, <3>1
    <2>4. CASE m = 0 - H
      <3>1. check = IF x < 0 THEN x + H ELSE x - H
        <4>1. -m \in Int /\ -m = H /\ 0 - 2 * H <= -m /\ -m < 2 * H /\ ~ (-m < 0 - H) /\ -m - 2 * H = 0 - H
          BY <1>1, <2>4
        <4>2. ToInt(-m) = 0 - H
          BY <1>1, <1>3, <4>1
        <4>3. /\ x + (0 - H) = x - H /\ x - H \in Int /\ 0 - 2 * H <= x - H /\ x - H < 2 * H
              /\ ~ (x - H >= H) /\ (x - H < 0 - H <=> x < 0) /\ x - H + 2 * H = x + H
          BY <1>1, <1>2, <1>6
        <4>4. minv < 0 /\ ~ (minv > 0)
          BY <1>1, <2>4
        <4>5. check = Conv(x - H)
          BY <1>1, <4>2, <4>3, <4>4 DEF check
        <4> QED BY <1>3, <1>6, <4>3, <4>5
      <3> QED BY <1>1, <1>2, <1>4, <1>6, <2>4, <3>1
    <2> QED BY <1>1, <2>1, <2>2, <2>3, <2>4
  <1> QED BY <1>5, <1>6

\* A value below the least or above the greatest case is no case.
LEMMA OutsideLemma ==
    ASSUME LabelsInv, AllSorted, x < Sorted(0) \/ x > Sorted(Count - 1)
    PROVE  \A j \in 1 .. Len(cases) : cases[j] # x
  <1> SUFFICES ASSUME NEW j \in 1 .. Len(cases), cases[j] = x PROVE FALSE
    OBVIOUS
  <1>1. PICK k \in 0 .. Count - 1 : Sorted(k) = x
    BY SortedLemma
  <1>2. Count \in Nat /\ Count > 0 /\ 0 \in 0 .. Count - 1 /\ Count - 1 \in 0 .. Count - 1
    BY SortedLemma
  <1>3. (k = 0 \/ 0 < k) /\ (k = Count - 1 \/ k < Count - 1)
    BY <1>2
  <1>4. Sorted(k) \in Int /\ Sorted(0) \in Int /\ Sorted(Count - 1) \in Int
    BY <1>2, SortedLemma
  <1>5. Sorted(0) = Sorted(k) \/ Sorted(0) < Sorted(k)
    BY <1>2, <1>3, SortedLemma
  <1>6. Sorted(k) = Sorted(Count - 1) \/ Sorted(k) < Sorted(Count - 1)
    BY <1>2, <1>3, SortedLemma
  <1> QED BY <1>1, <1>4, <1>5, <1>6

\* The test against the lower bound.
LEMMA LowStep == SwitchInv /\ CompareLow => SwitchInv'
  <1> SUFFICES ASSUME SwitchInv, CompareLow PROVE SwitchInv'
    OBVIOUS
  <1>1. LabelsInv /\ FilledUpTo(Count) /\ AllSorted /\ Sorted(Count - 1) - Sorted(0) < Half
    BY DEF SwitchInv, CompareLow, Reached, FilledUpTo
  <1>2. check \in Int
    BY <1>1, CheckLemma
  <1>3. CASE 0 > check
    <2>1. Goto(LastLabel)
      BY <1>3 DEF CompareLow
    <2>2. x < Sorted(0) \/ x > Sorted(Count - 1)
      BY <1>1, <1>2, <1>3, CheckLemma
    <2> QED BY <1>1, <2>1, <2>2, OutsideLemma, AtLast, GotoLemma
  <1>4. CASE ~ (0 > check)
    <2>1. Goto(Loc("comp2", 0, 0)) /\ check >= 0
      BY <1>2, <1>4 DEF CompareLow
    <2>2. Built(Loc("comp2", 0, 0)) /\ Reached(Loc("comp2", 0, 0))
      BY <1>1, <2>1 DEF Built, Reached, Loc
    <2> QED BY <1>1, <2>1, <2>2, GotoLemma
  <1> QED BY <1>3, <1>4

\* The test against the upper bound.
LEMMA HighStep == SwitchInv /\ CompareHigh => SwitchInv'
  <1> SUFFICES ASSUME SwitchInv, CompareHigh PROVE SwitchInv'
    OBVIOUS
  <1>1. LabelsInv /\ FilledUpTo(Count) /\ AllSorted /\ check >= 0 /\ Sorted(Count - 1) - Sorted(0) < Half
    BY DEF SwitchInv, CompareHigh, Reached, FilledUpTo
  <1>2. check \in Int /\ maxval \in Nat /\ Conv(maxval) = maxval
    BY <1>1, CheckLemma
  <1>3. CASE check > Conv(maxval)
    <2>1. Goto(LastLabel)
      BY <1>3 DEF CompareHigh
    <2>2. x < Sorted(0) \/ x > Sorted(Count - 1)
      BY <1>1, <1>2, <1>3, CheckLemma
    <2> QED BY <1>1, <2>1, <2>2, OutsideLemma, AtLast, GotoLemma
  <1>4. CASE ~ (check > Conv(maxval))
    <2>1. Goto(Loc("jtbl", 0, 0)) /\ check <= Conv(maxval)
      BY <1>2, <1>4 DEF CompareHigh
    <2>2. Built(Loc("jtbl", 0, 0)) /\ Reached(Loc("jtbl", 0, 0))
      BY <1>1, <2>1 DEF Built, Reached, Loc
    <2> QED BY <1>1, <2>1, <2>2, GotoLemma
  <1> QED BY <1>3, <1>4

\* The indirect jump.
LEMMA JumpStep == SwitchInv /\ JumpTable => SwitchInv'
  <1> SUFFICES ASSUME SwitchInv, JumpTable PROVE SwitchInv'
    OBVIOUS
  <1>1. /\ LabelsInv /\ FilledUpTo(Count) /\ AllSorted /\ Sorted(Count - 1) - Sorted(0) < Half
        /\ check >= 0 /\ check <= Conv(maxval)
    BY DEF SwitchInv, JumpTable, Reached, FilledUpTo
  <1>2. PICK i \in Nat, n \in Nat, m \in Int, M \in Int :
            /\ i = check /\ n = Count /\ n > 0 /\ m = Sorted(0) /\ M = Sorted(n - 1)
            /\ i <= M - m /\ x = m + i
    <2>1. Count \in Nat /\ Count > 0 /\ 0 \in 0 .. Count - 1 /\ Count - 1 \in 0 .. Count - 1
      BY <1>1, SortedLemma
    <2>2. Sorted(0) \in Int /\ Sorted(Count - 1) \in Int
      BY <1>1, <2>1, SortedLemma
    <2>3. /\ check \in Int /\ Conv(maxval) = maxval /\ maxval = Sorted(Count - 1) - Sorted(0)
          /\ 0 <= check /\ check <= maxval => x = Sorted(0) + check
      BY <1>1, CheckLemma
    <2>4. 0 <= check /\ check <= maxval /\ check \in Nat
      BY <1>1, <2>3
    <2> QED BY <2>1, <2>2, <2>3, <2>4
  <1>3. table \in Seq(Locs) /\ Len(table) = (M - m) + 1
    <2>1. nextv = M + 1 /\ Len(table) = nextv - m /\ table \in Seq(Locs)
      BY <1>1, <1>2 DEF FilledUpTo
    <2> QED BY <1>2, <2>1
  <1>4. i + 1 \in 1 .. Len(table) /\ i + 1 \in DOMAIN table
    <2>1. i + 1 \in 1 .. Len(table)
      BY <1>2, <1>3
    <2> QED BY <1>3, <2>1
  <1>5. Goto(table[i + 1])
    BY <1>2, <1>4 DEF JumpTable
  <1>6. EntryOf(table[i + 1], x)
    <2>1. EntryOf(table[i + 1], Sorted(0) + (i + 1) - 1)
      BY <1>1, <1>4 DEF FilledUpTo
    <2>2. Sorted(0) + (i + 1) - 1 = x
      BY <1>2
    <2> QED BY <2>1, <2>2
  <1>7. CASE \E k \in 0 .. Count - 1 : Sorted(k) = x
    <2>1. PICK k \in 0 .. Count - 1 : Sorted(k) = x
      BY <1>7
    <2>2. table[i + 1] = CaseAt(sorted[k + 1])
      BY <1>6, <2>1 DEF EntryOf
    <2>3. sorted[k + 1] \in 1 .. Len(cases) /\ cases[sorted[k + 1]] = x
      BY <1>1, <2>1, SortedLemma
    <2> QED BY <1>1, <1>5, <2>2, <2>3, AtCase, GotoLemma
  <1>8. CASE \A k \in 0 .. Count - 1 : Sorted(k) # x
    <2>1. table[i + 1] = LastLabel
      BY <1>6, <1>8 DEF EntryOf
    <2>2. \A j \in 1 .. Len(cases) : cases[j] # x
      BY <1>1, <1>8, SortedLemma
    <2> QED BY <1>1, <1>5, <2>1, <2>2, AtLast, GotoLemma
  <1> QED BY <1>7, <1>8

---------------------------------------------------------------------------
(* The theorems.                                                           *)

\* A step that changes nothing.
LEMMA StutterStep == SwitchInv /\ UNCHANGED vars => SwitchInv'
  <1> SUFFICES ASSUME SwitchInv, UNCHANGED vars PROVE SwitchInv'
    OBVIOUS
  <1>1. Goto(at) /\ LabelsInv /\ Built(at) /\ Reached(at)
    BY DEF SwitchInv, Goto, vars
  <1> QED BY <1>1, GotoLemma

\* SwitchInv holds while a switch is lowered and while its code runs.
THEOREM SwitchInvariant == Spec => []SwitchInv
  <1>1. Init => SwitchInv
    BY InitLemma
  <1>2. SwitchInv /\ [Next]_vars => SwitchInv'
    BY CaseLabelStep, DefaultLabelStep, EndBodyStep, SortCaseStep, ChooseStep, FillStep, DoneStep,
       LinearStep, CompareStep, LeftStep, LowStep, HighStep, JumpStep, StutterStep
       DEF Next, Lower, Run
  <1> QED BY <1>1, <1>2, PTL DEF Spec

\* The two range tests that link_switch_context_jump_table puts before the
\* indirect jump keep it within the table, for every width of int and for
\* signed and unsigned expressions.
THEOREM NoWild == Spec => []NoWildJump
  <1>1. SwitchInv => NoWildJump
    BY DEF SwitchInv, Reached, NoWildJump, Wild, Loc
  <1> QED BY <1>1, SwitchInvariant, PTL

\* Whichever lowering link_switch_context chooses, a value that is one of the
\* cases reaches the label of that case.
THEOREM CaseReached == Spec => []CaseReachesItsLabel
  <1>1. SwitchInv => CaseReachesItsLabel
    <2> SUFFICES ASSUME SwitchInv, Terminal, NEW i \in 1 .. Len(cases), Conv(cases[i]) = x
                 PROVE  at = CaseAt(i)
      BY DEF CaseReachesItsLabel
    <2>1. cases[i] = x /\ Reached(at)
      BY ValuesLemma DEF SwitchInv
    <2>2. at.kind = "case" \/ at.kind = "last"
      BY <2>1 DEF Terminal, Reached
    <2> QED BY <2>1, <2>2 DEF Reached
  <1> QED BY <1>1, SwitchInvariant, PTL

\* The chain of comparisons and the jump table send every value that is not
\* one of the cases to the default label.
THEOREM ExactChainAndTable == Spec => []ExactWithoutSearch
  <1>1. SwitchInv => ExactWithoutSearch
    <2> SUFFICES ASSUME SwitchInv, mode \in {"linear", "table"}, Terminal,
                        \A i \in 1 .. Len(cases) : Conv(cases[i]) # x
                 PROVE  at = LastLabel
      BY DEF ExactWithoutSearch, OtherValuesReachDefault
    <2>1. Reached(at) /\ \A i \in 1 .. Len(cases) : cases[i] # x
      BY ValuesLemma DEF SwitchInv
    <2>2. at.kind = "case" \/ at.kind = "last"
      BY <2>1 DEF Terminal, Reached
    <2> QED BY <2>1, <2>2 DEF Reached
  <1> QED BY <1>1, SwitchInvariant, PTL
===========================================================================
