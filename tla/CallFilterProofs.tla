---------------------------- MODULE CallFilterProofs ----------------------------
(***************************************************************************)
(* Proofs about CallFilter, for any numbers and prefixes and however they  *)
(* compare.  The invariant is TypeOK with Exclusive and what the writes    *)
(* made so far have established (Written), by which Exclusive survives the *)
(* one write of each method that adds an entry.                            *)
(***************************************************************************)
EXTENDS CallFilter, TLAPS

\* An accepting method has whitelisted its entry, unless nothing blocks the text.
Vouched(t) ==
    op.entry \in lists["whitelist"] \/ (~match("rejected", t) /\ ~match("ignored", t))

\* What the first op.step - 1 writes of the method under way have achieved.
Written ==
    /\ op.kind = "ignore" =>
          /\ op.step > 1 => op.entry \notin lists["whitelist"]
          /\ op.step > 2 => op.entry \notin lists["rejected"]
          /\ op.step > 3 => op.entry \in lists["ignored"]
    /\ op.kind = "reject" =>
          /\ op.step > 1 => op.entry \notin lists["whitelist"]
          /\ op.step > 2 => op.entry \notin lists["ignored"]
          /\ op.step > 3 => op.entry \in lists["rejected"]
    /\ op.kind = "acceptNumber" =>
          /\ op.step > 1 => op.entry \notin lists["rejected"]
          /\ op.step > 2 => op.entry \notin lists["ignored"]
          /\ op.step > 3 => \A n \in Number : op.entry = Exactly(n) => Vouched(n)
    /\ op.kind = "acceptPrefix" /\ op.step > 3 =>
          \A p \in Prefix : op.entry = StartingWith(p) => Vouched(p)
    /\ op.kind \in { "acceptPrefix", "acceptByDefault" } =>
          /\ op.step > 1 => op.entry \notin lists["ignored"]
          /\ op.step > 2 => op.entry \notin lists["rejected"]
    /\ op.kind = "acceptByDefault" => op.step < 4
    /\ op.kind = "acceptAll" =>
          /\ op.step > 1 => lists["ignored"] = {}
          /\ op.step > 2 => lists["rejected"] = {}
          /\ op.step > 3 => lists["whitelist"] = {}
    /\ op.kind = "none" => op.step = 1

FilterInv == TypeOK /\ Exclusive /\ Written

\* What Write may be: each method's writes, one by one.
LEMMA WriteCases ==
    ASSUME TypeOK, Write
    PROVE  /\ op' = [op EXCEPT !.step = op.step + 1]
           /\ op.kind = "ignore" =>
                 \/ op.step = 1 /\ lists' = removeEntry("whitelist", op.entry)
                 \/ op.step = 2 /\ lists' = removeEntry("rejected", op.entry)
                 \/ op.step = 3 /\ lists' = addEntry("ignored", op.entry)
           /\ op.kind = "reject" =>
                 \/ op.step = 1 /\ lists' = removeEntry("whitelist", op.entry)
                 \/ op.step = 2 /\ lists' = removeEntry("ignored", op.entry)
                 \/ op.step = 3 /\ lists' = addEntry("rejected", op.entry)
           /\ op.kind = "acceptNumber" => \E n \in Number :
                 /\ op.entry = Exactly(n)
                 /\ \/ op.step = 1 /\ lists' = removeEntry("rejected", op.entry)
                    \/ op.step = 2 /\ lists' = removeEntry("ignored", op.entry)
                    \/ op.step = 3 /\ lists' = Vouch(op.entry, n)
           /\ op.kind = "acceptPrefix" => \E p \in Prefix :
                 /\ op.entry = StartingWith(p)
                 /\ \/ op.step = 1 /\ lists' = removeEntry("ignored", op.entry)
                    \/ op.step = 2 /\ lists' = removeEntry("rejected", op.entry)
                    \/ op.step = 3 /\ lists' = Vouch(op.entry, p)
           /\ op.kind = "acceptByDefault" =>
                 /\ op.entry = Everything
                 /\ \/ op.step = 1 /\ lists' = removeEntry("ignored", op.entry)
                    \/ op.step = 2 /\ lists' = removeEntry("rejected", op.entry)
           /\ op.kind = "acceptAll" =>
                 \/ op.step = 1 /\ lists' = clear("ignored")
                 \/ op.step = 2 /\ lists' = clear("rejected")
                 \/ op.step = 3 /\ lists' = clear("whitelist")
           /\ op.kind # "none"
<1>1. /\ op' = [op EXCEPT !.step = op.step + 1]
      /\ lists' = Writes(op)[op.step]
      /\ op.step <= Len(Writes(op))
      /\ op.step \in 1 .. 4
  BY DEF Write, IsDone, TypeOK
<1>2. ASSUME op.kind = "ignore"
      PROVE  \/ op.step = 1 /\ lists' = removeEntry("whitelist", op.entry)
             \/ op.step = 2 /\ lists' = removeEntry("rejected", op.entry)
             \/ op.step = 3 /\ lists' = addEntry("ignored", op.entry)
  <2>1. Writes(op) = ignoreNumber(op.entry)  BY <1>2 DEF Writes
  <2>2. QED  BY <1>1, <2>1 DEF ignoreNumber
<1>3. ASSUME op.kind = "reject"
      PROVE  \/ op.step = 1 /\ lists' = removeEntry("whitelist", op.entry)
             \/ op.step = 2 /\ lists' = removeEntry("ignored", op.entry)
             \/ op.step = 3 /\ lists' = addEntry("rejected", op.entry)
  <2>1. Writes(op) = rejectNumber(op.entry)  BY <1>3 DEF Writes
  <2>2. QED  BY <1>1, <2>1 DEF rejectNumber
<1>4. ASSUME op.kind = "acceptNumber"
      PROVE  \E n \in Number :
                 /\ op.entry = Exactly(n)
                 /\ \/ op.step = 1 /\ lists' = removeEntry("rejected", op.entry)
                    \/ op.step = 2 /\ lists' = removeEntry("ignored", op.entry)
                    \/ op.step = 3 /\ lists' = Vouch(op.entry, n)
  <2>1. op.entry \in { Exactly(n) : n \in Number }
    BY <1>4 DEF TypeOK, EntriesFor, Blocking
  <2>2. PICK n \in Number : op.entry = Exactly(n)  BY <2>1
  <2>3. op.entry[2] = n  BY <2>2 DEF Exactly
  <2>4. Writes(op) = acceptNumber(n)  BY <1>4, <2>3 DEF Writes
  <2>5. QED  BY <1>1, <2>2, <2>4 DEF acceptNumber
<1>5. ASSUME op.kind = "acceptPrefix"
      PROVE  \E p \in Prefix :
                 /\ op.entry = StartingWith(p)
                 /\ \/ op.step = 1 /\ lists' = removeEntry("ignored", op.entry)
                    \/ op.step = 2 /\ lists' = removeEntry("rejected", op.entry)
                    \/ op.step = 3 /\ lists' = Vouch(op.entry, p)
  <2>1. op.entry \in { StartingWith(p) : p \in Prefix }
    BY <1>5 DEF TypeOK, EntriesFor, Blocking
  <2>2. PICK p \in Prefix : op.entry = StartingWith(p)  BY <2>1
  <2>3. op.entry[2] = p  BY <2>2 DEF StartingWith
  <2>4. Writes(op) = acceptNumbersStartingWith(p)  BY <1>5, <2>3 DEF Writes
  <2>5. QED  BY <1>1, <2>2, <2>4 DEF acceptNumbersStartingWith
<1>6. ASSUME op.kind = "acceptByDefault"
      PROVE  /\ op.entry = Everything
             /\ \/ op.step = 1 /\ lists' = removeEntry("ignored", op.entry)
                \/ op.step = 2 /\ lists' = removeEntry("rejected", op.entry)
  <2>1. op.entry = Everything  BY <1>6 DEF TypeOK, EntriesFor, Blocking
  <2>2. Writes(op) = acceptByDefault  BY <1>6 DEF Writes
  <2>3. QED  BY <1>1, <2>1, <2>2 DEF acceptByDefault
<1>7. ASSUME op.kind = "acceptAll"
      PROVE  \/ op.step = 1 /\ lists' = clear("ignored")
             \/ op.step = 2 /\ lists' = clear("rejected")
             \/ op.step = 3 /\ lists' = clear("whitelist")
  <2>1. Writes(op) = acceptAll  BY <1>7 DEF Writes
  <2>2. QED  BY <1>1, <2>1 DEF acceptAll
<1>8. op.kind # "none"
  <2>1. SUFFICES ASSUME op.kind = "none" PROVE FALSE  OBVIOUS
  <2>2. Writes(op) = << >>  BY <2>1 DEF Writes
  <2>3. QED  BY <1>1, <2>2
<1>9. QED  BY <1>1, <1>2, <1>3, <1>4, <1>5, <1>6, <1>7, <1>8

LEMMA TypeInit == Init => FilterInv
<1> SUFFICES ASSUME Init PROVE FilterInv  OBVIOUS
<1>1. Idle \in [ kind : Blocking \cup Accepting \cup { "none" },
                 entry : Entry, step : 1 .. 4, blocked : SUBSET Number ]
  BY DEF Idle, Entry
<1>2. TypeOK  BY <1>1 DEF Init, Idle, TypeOK
<1>3. Exclusive  BY DEF Init, Exclusive
<1>4. Written  BY DEF Init, Idle, Written
<1>5. QED  BY <1>2, <1>3, <1>4 DEF FilterInv

LEMMA EntriesForType ==
    ASSUME NEW kind \in Blocking \cup Accepting PROVE EntriesFor(kind) \subseteq Entry
BY DEF EntriesFor, Entry, Blocking, Accepting

\* Whatever write comes next, it keeps the types.
LEMMA WriteType == ASSUME TypeOK, Write PROVE TypeOK'
<1>1. op.step + 1 \in 1 .. 4 /\ op.step \in 1 .. 3 /\ op.kind # "none"
  BY WriteCases DEF TypeOK, Blocking, Accepting
<1>2. op' = [op EXCEPT !.step = op.step + 1]  BY WriteCases
<1>3. /\ op' \in [ kind : Blocking \cup Accepting \cup { "none" },
                   entry : Entry, step : 1 .. 4, blocked : SUBSET Number ]
      /\ op'.kind = op.kind /\ op'.entry = op.entry
  BY <1>1, <1>2 DEF TypeOK
<1>4. \E l \in List, e \in Entry :
          lists' \in { removeEntry(l, e), addEntry(l, e), clear(l), lists }
  <2>1. op.entry \in Entry  BY DEF TypeOK
  <2>2. \A t \in Text : Vouch(op.entry, t) \in { addEntry("whitelist", op.entry), lists }
    BY DEF Vouch
  <2>3. QED  BY <2>1, <2>2, WriteCases DEF TypeOK, Blocking, Accepting, List, Text
<1>5. lists' \in [List -> SUBSET Entry]
  BY <1>4 DEF TypeOK, removeEntry, addEntry, clear
<1>6. QED  BY <1>1, <1>3, <1>5 DEF TypeOK

\* An entry is added only once the other lists do not hold it.
LEMMA WriteExclusive == ASSUME FilterInv, Write PROVE Exclusive'
<1>1. TypeOK /\ Exclusive /\ Written  BY DEF FilterInv
<1>2. ASSUME NEW l \in List, NEW e, lists' = removeEntry(l, e) PROVE Exclusive'
  BY <1>1, <1>2 DEF removeEntry, Exclusive, TypeOK
<1>3. ASSUME NEW l \in List, lists' = clear(l) PROVE Exclusive'
  BY <1>1, <1>3 DEF clear, Exclusive, TypeOK
<1>4. ASSUME NEW l \in List, NEW e, lists' = addEntry(l, e),
             \A m \in List : m # l => e \notin lists[m]
      PROVE  Exclusive'
  BY <1>1, <1>4 DEF addEntry, Exclusive, TypeOK
<1>5. ASSUME op.entry \notin lists["rejected"], op.entry \notin lists["ignored"],
             NEW t, lists' = Vouch(op.entry, t)
      PROVE  Exclusive'
  <2>1. CASE lists' = addEntry("whitelist", op.entry)
    BY <1>4, <1>5, <2>1 DEF List
  <2>2. CASE lists' = lists
    BY <1>1, <2>2 DEF Exclusive
  <2>3. QED  BY <1>5, <2>1, <2>2 DEF Vouch
<1>6. CASE op.kind = "ignore"
  <2>1. op.step = 3 => op.entry \notin lists["whitelist"] /\ op.entry \notin lists["rejected"]
    BY <1>1, <1>6 DEF Written
  <2>2. CASE op.step = 3 /\ lists' = addEntry("ignored", op.entry)
    BY <1>4, <2>1, <2>2 DEF List
  <2>3. QED  BY <1>1, <1>2, <1>6, <2>2, WriteCases DEF List
<1>7. CASE op.kind = "reject"
  <2>1. op.step = 3 => op.entry \notin lists["whitelist"] /\ op.entry \notin lists["ignored"]
    BY <1>1, <1>7 DEF Written
  <2>2. CASE op.step = 3 /\ lists' = addEntry("rejected", op.entry)
    BY <1>4, <2>1, <2>2 DEF List
  <2>3. QED  BY <1>1, <1>2, <1>7, <2>2, WriteCases DEF List
<1>8. CASE op.kind \in { "acceptNumber", "acceptPrefix" }
  <2>1. op.step = 3 => op.entry \notin lists["rejected"] /\ op.entry \notin lists["ignored"]
    BY <1>1, <1>8 DEF Written
  <2>2. ASSUME op.step = 3, NEW t, lists' = Vouch(op.entry, t) PROVE Exclusive'
    BY <1>5, <2>1, <2>2
  <2>3. QED  BY <1>1, <1>2, <1>8, <2>2, WriteCases DEF List
<1>9. CASE op.kind = "acceptByDefault"
  BY <1>1, <1>2, <1>9, WriteCases DEF List
<1>10. CASE op.kind = "acceptAll"
  BY <1>1, <1>3, <1>10, WriteCases DEF List
<1>11. QED
  BY <1>1, <1>6, <1>7, <1>8, <1>9, <1>10, WriteCases DEF TypeOK, Blocking, Accepting

\* Each write adds its part to what is written, and undoes no other.
LEMMA WriteWritten == ASSUME FilterInv, Write PROVE Written'
<1>1. TypeOK /\ Exclusive /\ Written  BY DEF FilterInv
<1>2. op' = [op EXCEPT !.step = op.step + 1]  BY <1>1, WriteCases
<1>3. op'.step = op.step + 1 /\ op'.kind = op.kind /\ op'.entry = op.entry
  BY <1>1, <1>2 DEF TypeOK
<1> DEFINE e == op.entry
<1>4. lists \in [List -> SUBSET Entry] /\ op.step \in 1 .. 4  BY <1>1 DEF TypeOK
<1>5. CASE op.kind = "ignore"
  BY <1>1, <1>3, <1>4, <1>5, WriteCases DEF Written, removeEntry, addEntry, List
<1>6. CASE op.kind = "reject"
  BY <1>1, <1>3, <1>4, <1>6, WriteCases DEF Written, removeEntry, addEntry, List
<1>7. ASSUME NEW t, op.kind \in { "acceptNumber", "acceptPrefix" }, lists' = Vouch(op.entry, t)
      PROVE  /\ Vouched(t)'
             /\ lists'["rejected"] = lists["rejected"] /\ lists'["ignored"] = lists["ignored"]
  <2>1. CASE match("rejected", t) \/ match("ignored", t)
    BY <1>3, <1>4, <1>7, <2>1 DEF Vouch, Vouched, addEntry, List
  <2>2. CASE ~(match("rejected", t) \/ match("ignored", t))
    BY <1>3, <1>7, <2>2 DEF Vouch, Vouched, match
  <2>3. QED  BY <2>1, <2>2
<1>8. CASE op.kind = "acceptNumber"
  <2>1. PICK n \in Number :
          /\ op.entry = Exactly(n)
          /\ \/ op.step = 1 /\ lists' = removeEntry("rejected", op.entry)
             \/ op.step = 2 /\ lists' = removeEntry("ignored", op.entry)
             \/ op.step = 3 /\ lists' = Vouch(op.entry, n)
    BY <1>1, <1>8, WriteCases
  <2>2. CASE op.step < 3
    BY <1>1, <1>3, <1>4, <1>8, <2>1, <2>2 DEF Written, removeEntry, List
  <2>3. CASE op.step = 3 /\ lists' = Vouch(op.entry, n)
    <3>1. \A m \in Number : op'.entry = Exactly(m) => m = n
      BY <1>3, <2>1 DEF Exactly
    <3>2. QED  BY <1>1, <1>3, <1>7, <1>8, <2>3, <3>1 DEF Written
  <2>4. QED  BY <2>1, <2>2, <2>3
<1>9. CASE op.kind = "acceptPrefix"
  <2>1. PICK p \in Prefix :
          /\ op.entry = StartingWith(p)
          /\ \/ op.step = 1 /\ lists' = removeEntry("ignored", op.entry)
             \/ op.step = 2 /\ lists' = removeEntry("rejected", op.entry)
             \/ op.step = 3 /\ lists' = Vouch(op.entry, p)
    BY <1>1, <1>9, WriteCases
  <2>2. CASE op.step < 3
    BY <1>1, <1>3, <1>4, <1>9, <2>1, <2>2 DEF Written, removeEntry, List
  <2>3. CASE op.step = 3 /\ lists' = Vouch(op.entry, p)
    <3>1. \A q \in Prefix : op'.entry = StartingWith(q) => q = p
      BY <1>3, <2>1 DEF StartingWith
    <3>2. QED  BY <1>1, <1>3, <1>7, <1>9, <2>3, <3>1 DEF Written
  <2>4. QED  BY <2>1, <2>2, <2>3
<1>10. CASE op.kind = "acceptByDefault"
  BY <1>1, <1>3, <1>4, <1>10, WriteCases DEF Written, removeEntry, List
<1>11. CASE op.kind = "acceptAll"
  BY <1>1, <1>3, <1>4, <1>11, WriteCases DEF Written, clear, List
<1>12. QED
  BY <1>1, <1>5, <1>6, <1>8, <1>9, <1>10, <1>11, WriteCases DEF TypeOK, Blocking, Accepting

\* Only Write touches the lists; the other steps begin or give up a method.
LEMMA FilterStep == ASSUME FilterInv, [Next]_vars PROVE FilterInv'
<1> USE DEF FilterInv
<1>1. CASE Write
  BY <1>1, WriteType, WriteExclusive, WriteWritten
<1>2. ASSUME NEW kind \in Blocking \cup Accepting, NEW e \in EntriesFor(kind), Call(kind, e)
      PROVE  FilterInv'
  <2>1. op' = [ kind |-> kind, entry |-> e, step |-> 1,
                blocked |-> IF kind \in Blocking THEN Blocked ELSE {} ] /\ lists' = lists
    BY <1>2 DEF Call
  <2>2. op'.kind = kind /\ op'.entry = e /\ op'.step = 1  BY <2>1
  <2>3. TypeOK'
    <3>1. e \in Entry  BY EntriesForType
    <3>2. Blocked \subseteq Number  BY DEF Blocked
    <3>3. op' \in [ kind : Blocking \cup Accepting \cup { "none" },
                    entry : Entry, step : 1 .. 4, blocked : SUBSET Number ]
      BY <2>1, <3>1, <3>2
    <3>4. QED  BY <2>1, <2>2, <3>3 DEF TypeOK
  <2>4. Exclusive'  BY <2>1 DEF Exclusive
  <2>5. Written'  BY <2>2 DEF Written, Blocking, Accepting
  <2>6. QED  BY <2>3, <2>4, <2>5
<1>3. CASE Interrupt
  <2>1. op' = Idle /\ lists' = lists  BY <1>3 DEF Interrupt
  <2>2. TypeOK'
    <3>1. Idle \in [ kind : Blocking \cup Accepting \cup { "none" },
                     entry : Entry, step : 1 .. 4, blocked : SUBSET Number ]
      BY DEF Idle, Entry
    <3>2. QED  BY <2>1, <3>1 DEF TypeOK, Idle
  <2>3. Exclusive'  BY <2>1 DEF Exclusive
  <2>4. Written'  BY <2>1 DEF Written, Idle
  <2>5. QED  BY <2>2, <2>3, <2>4
<1>4. CASE UNCHANGED vars
  BY <1>4 DEF vars, TypeOK, Exclusive, Written, Vouched, match
<1>5. QED  BY <1>1, <1>2, <1>3, <1>4 DEF Next

LEMMA Invariance == Spec => []FilterInv
<1>1. Init => FilterInv  BY TypeInit
<1>2. FilterInv /\ [Next]_vars => FilterInv'  BY FilterStep
<1>3. QED  BY <1>1, <1>2, PTL DEF Spec

\* removeEntry, addEntry and the order in which Filter's methods call them
\* (filter.cpp): an entry is never in two of the three lists, not even between
\* two writes.
THEOREM EntriesStayExclusive == Spec => []Exclusive
<1>1. FilterInv => Exclusive  BY DEF FilterInv
<1>2. QED  BY <1>1, Invariance, PTL

\* Whatever the lists hold, the only list with an entry of n decides.
LEMMA ExactEntryDecides ==
    ASSUME Exclusive, NEW n, NEW l \in List, Exactly(n) \in lists[l]
    PROVE  evaluate(n) = FirstOf({ l })
<1>1. { m \in List : exactMatch(m, n) } = { l }  BY DEF Exclusive, exactMatch
<1>2. QED  BY <1>1 DEF evaluate

\* A number that neither blocking list holds or matches gets through.
LEMMA UnmatchedIsAccepted ==
    ASSUME NEW n, \A l \in { "rejected", "ignored" } : ~exactMatch(l, n) /\ ~match(l, n)
    PROVE  evaluate(n) = "CONTINUE"
<1> DEFINE exact == { l \in List : exactMatch(l, n) }
           pattern == { l \in List : match(l, n) }
<1>1. exact \subseteq { "whitelist" } /\ pattern \subseteq { "whitelist" }  BY DEF List
<1>2. \A ls : ls \subseteq { "whitelist" } => FirstOf(ls) = "CONTINUE"
  <2>1. SUFFICES ASSUME NEW ls, ls \subseteq { "whitelist" } PROVE FirstOf(ls) = "CONTINUE"
    OBVIOUS
  <2>2. CASE "whitelist" \in ls  BY <2>1, <2>2 DEF FirstOf
  <2>3. CASE "whitelist" \notin ls
    <3>1. ls = {}  BY <2>1, <2>3
    <3>2. QED  BY <3>1 DEF FirstOf
  <2>4. QED  BY <2>2, <2>3
<1>3. QED  BY <1>1, <1>2 DEF evaluate

\* A number a blocking list stops is one the whitelist does not match, unless the
\* number has a blocking entry of its own.
LEMMA BlockedBy ==
    ASSUME NEW n, evaluate(n) # "CONTINUE"
    PROVE  \/ \E l \in { "rejected", "ignored" } : exactMatch(l, n)
           \/ /\ ~match("whitelist", n)
              /\ \E l \in { "rejected", "ignored" } : match(l, n)
<1> DEFINE exact == { l \in List : exactMatch(l, n) }
           pattern == { l \in List : match(l, n) }
<1>1. \A ls : "whitelist" \in ls => FirstOf(ls) = "CONTINUE"  BY DEF FirstOf
<1>2. CASE exact # {}
  <2>1. evaluate(n) = FirstOf(exact)  BY <1>2 DEF evaluate
  <2>2. "whitelist" \notin exact  BY <1>1, <2>1
  <2>3. QED  BY <1>2, <2>2 DEF List
<1>3. CASE exact = {}
  <2>1. evaluate(n) = FirstOf(pattern)  BY <1>3 DEF evaluate
  <2>2. "whitelist" \notin pattern  BY <1>1, <2>1
  <2>3. pattern # {}
    <3>1. FirstOf({}) = "CONTINUE"  BY DEF FirstOf
    <3>2. QED  BY <2>1, <3>1
  <2>4. QED  BY <2>2, <2>3 DEF List
<1>4. QED  BY <1>2, <1>3

\* ignoreNumber, rejectNumber, acceptNumber and acceptNumbersStartingWith
\* (filter.cpp), once they have returned, have had the effect they are named for.
THEOREM AskedIsAlwaysDone == Spec => []AskedIsDone
<1>1. ASSUME FilterInv PROVE AskedIsDone
  <2>1. TypeOK /\ Exclusive /\ Written  BY <1>1 DEF FilterInv
  <2>2. SUFFICES ASSUME IsDone(op)
        PROVE  /\ \A n \in Number : op.entry = Exactly(n) =>
                     /\ op.kind = "ignore"       => evaluate(n) = "IGNORE"
                     /\ op.kind = "reject"       => evaluate(n) = "REJECT"
                     /\ op.kind = "acceptNumber" => evaluate(n) = "CONTINUE"
               /\ \A p \in Prefix : op.kind = "acceptPrefix" /\ op.entry = StartingWith(p) =>
                     \A n \in Blocked : << n, p >> \in Begins =>
                         \E e \in lists["rejected"] \cup lists["ignored"] :
                             e = Exactly(n) \/ (Matches(e, n) /\ ~Matches(e, p))
    BY DEF AskedIsDone
  <2>3. op.step \in 1 .. 4  BY <2>1 DEF TypeOK
  <2>4. op.kind \in { "ignore", "reject", "acceptNumber", "acceptPrefix" } => op.step = 4
    <3>1. CASE op.kind = "ignore"
      BY <2>2, <2>3, <3>1 DEF IsDone, Writes, ignoreNumber
    <3>2. CASE op.kind = "reject"
      BY <2>2, <2>3, <3>2 DEF IsDone, Writes, rejectNumber
    <3>3. CASE op.kind = "acceptNumber"
      BY <2>2, <2>3, <3>3 DEF IsDone, Writes, acceptNumber
    <3>4. CASE op.kind = "acceptPrefix"
      BY <2>2, <2>3, <3>4 DEF IsDone, Writes, acceptNumbersStartingWith
    <3>5. QED  BY <3>1, <3>2, <3>3, <3>4
  <2>5. ASSUME NEW n \in Number, op.entry = Exactly(n), op.kind = "ignore"
        PROVE  evaluate(n) = "IGNORE"
    <3>1. Exactly(n) \in lists["ignored"]  BY <2>1, <2>4, <2>5 DEF Written
    <3>2. evaluate(n) = FirstOf({ "ignored" })  BY <2>1, <3>1, ExactEntryDecides DEF List
    <3>3. QED  BY <3>2 DEF FirstOf
  <2>6. ASSUME NEW n \in Number, op.entry = Exactly(n), op.kind = "reject"
        PROVE  evaluate(n) = "REJECT"
    <3>1. Exactly(n) \in lists["rejected"]  BY <2>1, <2>4, <2>6 DEF Written
    <3>2. evaluate(n) = FirstOf({ "rejected" })  BY <2>1, <3>1, ExactEntryDecides DEF List
    <3>3. QED  BY <3>2 DEF FirstOf
  <2>7. ASSUME NEW n \in Number, op.entry = Exactly(n), op.kind = "acceptNumber"
        PROVE  evaluate(n) = "CONTINUE"
    <3>1. /\ Exactly(n) \notin lists["rejected"] /\ Exactly(n) \notin lists["ignored"]
          /\ Vouched(n)
      BY <2>1, <2>4, <2>7 DEF Written
    <3>2. CASE Exactly(n) \in lists["whitelist"]
      <4>1. evaluate(n) = FirstOf({ "whitelist" })  BY <2>1, <3>2, ExactEntryDecides DEF List
      <4>2. QED  BY <4>1 DEF FirstOf
    <3>3. CASE ~match("rejected", n) /\ ~match("ignored", n)
      BY <3>1, <3>3, UnmatchedIsAccepted DEF exactMatch
    <3>4. QED  BY <2>7, <3>1, <3>2, <3>3 DEF Vouched
  <2>8. ASSUME NEW p \in Prefix, op.kind = "acceptPrefix", op.entry = StartingWith(p),
               NEW n \in Blocked, << n, p >> \in Begins
        PROVE  \E e \in lists["rejected"] \cup lists["ignored"] :
                   e = Exactly(n) \/ (Matches(e, n) /\ ~Matches(e, p))
    <3>1. Vouched(p)  BY <2>1, <2>4, <2>8 DEF Written
    <3>2. Matches(StartingWith(p), n)  BY <2>8 DEF Matches
    <3>3. evaluate(n) # "CONTINUE"  BY <2>8 DEF Blocked
    <3>4. CASE \E l \in { "rejected", "ignored" } : exactMatch(l, n)
      BY <3>4 DEF exactMatch
    <3>5. CASE /\ ~match("whitelist", n)
               /\ \E l \in { "rejected", "ignored" } : match(l, n)
      <4>1. op.entry \notin lists["whitelist"]  BY <2>8, <3>2, <3>5 DEF match
      <4>2. ~match("rejected", p) /\ ~match("ignored", p)  BY <3>1, <4>1 DEF Vouched
      <4>3. QED  BY <3>5, <4>2 DEF match
    <3>6. QED  BY <3>3, <3>4, <3>5, BlockedBy
  <2>9. QED  BY <2>5, <2>6, <2>7, <2>8
<1>2. QED  BY <1>1, Invariance, PTL

\* Who is blocked, list by list.
Stopped(n) ==
    \/ /\ exactMatch("rejected", n) \/ exactMatch("ignored", n)
       /\ ~exactMatch("whitelist", n)
    \/ /\ \A l \in List : ~exactMatch(l, n)
       /\ ~match("whitelist", n)
       /\ match("rejected", n) \/ match("ignored", n)

LEMMA BlockedAreStopped == Blocked = { n \in Number : Stopped(n) }
<1>1. \A ls \in SUBSET List : FirstOf(ls) # "CONTINUE" <=> ls # {} /\ "whitelist" \notin ls
  BY DEF FirstOf, List
<1>2. ASSUME NEW n \in Number PROVE evaluate(n) # "CONTINUE" <=> Stopped(n)
  <2> DEFINE exact == { l \in List : exactMatch(l, n) }
             pattern == { l \in List : match(l, n) }
  <2>1. exact \in SUBSET List /\ pattern \in SUBSET List  OBVIOUS
  <2>2. CASE exact # {}
    <3>1. evaluate(n) = FirstOf(exact)  BY <2>2 DEF evaluate
    <3>2. evaluate(n) # "CONTINUE" <=> "whitelist" \notin exact  BY <1>1, <2>1, <2>2, <3>1
    <3>3. QED  BY <2>2, <3>2 DEF Stopped, List
  <2>3. CASE exact = {}
    <3>1. evaluate(n) = FirstOf(pattern)  BY <2>3 DEF evaluate
    <3>2. evaluate(n) # "CONTINUE" <=> pattern # {} /\ "whitelist" \notin pattern
      BY <1>1, <2>1, <3>1
    <3>3. QED  BY <2>3, <3>2 DEF Stopped, List
  <2>4. QED  BY <2>2, <2>3
<1>3. QED  BY <1>2 DEF Blocked

LEMMA BlockedAreStoppedNext == Blocked' = { n \in Number : Stopped(n)' }
<1>1. (Blocked = { n \in Number : Stopped(n) })'  BY BlockedAreStopped, PTL
<1>2. QED  BY <1>1

\* How the two kinds of change an accepting method makes affect who is stopped.
LEMMA UnblockingStopsNobody ==
    ASSUME TypeOK, NEW l \in { "rejected", "ignored" }, NEW kept \in SUBSET lists[l],
           lists' = [lists EXCEPT ![l] = kept],
           NEW n, Stopped(n)', Exclusive
    PROVE  Stopped(n)
<1>1. \A m \in List : lists'[m] \subseteq lists[m] /\ (m # l => lists'[m] = lists[m])
  BY DEF TypeOK, List
<1>2. \A m \in List : match(m, n)' => match(m, n)  BY <1>1 DEF match
<1>3. match("whitelist", n) => match("whitelist", n)'  BY <1>1 DEF match, List
<1>4. \A m \in List : exactMatch(m, n)' => exactMatch(m, n)  BY <1>1 DEF exactMatch
<1>5. exactMatch("whitelist", n) => exactMatch("whitelist", n)'  BY <1>1 DEF exactMatch, List
<1>6. CASE \E m \in { "rejected", "ignored" } : exactMatch(m, n)
  <2>1. ~exactMatch("whitelist", n)  BY <1>6 DEF Exclusive, exactMatch, List
  <2>2. QED  BY <1>6, <2>1 DEF Stopped
<1>7. CASE \A m \in { "rejected", "ignored" } : ~exactMatch(m, n)
  BY <1>2, <1>3, <1>4, <1>5, <1>7 DEF Stopped, List
<1>8. QED  BY <1>6, <1>7

LEMMA VouchingStopsNobody ==
    ASSUME TypeOK, Exclusive, NEW e, lists' = addEntry("whitelist", e), NEW n, Stopped(n)'
    PROVE  Stopped(n)
<1>1. /\ \A m \in { "rejected", "ignored" } : lists'[m] = lists[m]
      /\ lists["whitelist"] \subseteq lists'["whitelist"]
  BY DEF TypeOK, List, addEntry
<1>2. QED  BY <1>1 DEF Stopped, match, exactMatch, List

\* acceptNumber, acceptNumbersStartingWith, acceptByDefault and acceptAll
\* (filter.cpp) never block a number on the way, in whatever order the daemon
\* sees their writes: acceptAll must clear the whitelist last.
THEOREM AcceptingNeverBlocks == Spec => AcceptingBlocksNobody
<1>1. ASSUME FilterInv, [Next]_vars, op.kind \in Accepting, lists' # lists
      PROVE  Blocked' \subseteq Blocked
  <2>1. TypeOK /\ Exclusive /\ Written  BY <1>1 DEF FilterInv
  <2>2. Write  BY <1>1 DEF Next, Call, Interrupt, vars
  <2>3. SUFFICES ASSUME NEW n \in Number, Stopped(n)' PROVE Stopped(n)
    BY BlockedAreStopped, BlockedAreStoppedNext
  <2>4. ASSUME NEW l \in { "rejected", "ignored" },
               lists' = removeEntry(l, op.entry) \/ lists' = clear(l)
        PROVE  Stopped(n)
    <3>1. lists[l] \ { op.entry } \in SUBSET lists[l] /\ {} \in SUBSET lists[l]  OBVIOUS
    <3>2. QED  BY <2>1, <2>3, <2>4, <3>1, UnblockingStopsNobody DEF removeEntry, clear
  <2>5. ASSUME NEW t, lists' = Vouch(op.entry, t) PROVE Stopped(n)
    <3>1. lists' = addEntry("whitelist", op.entry)  BY <1>1, <2>5 DEF Vouch
    <3>2. QED  BY <2>1, <2>3, <3>1, VouchingStopsNobody
  <2>6. CASE op.kind = "acceptAll" /\ op.step = 3 /\ lists' = clear("whitelist")
    <3>1. lists["ignored"] = {} /\ lists["rejected"] = {}  BY <2>1, <2>6 DEF Written
    <3>2. lists'["ignored"] = {} /\ lists'["rejected"] = {}
      BY <2>1, <2>6, <3>1 DEF clear, TypeOK, List
    <3>3. QED  BY <2>3, <3>2 DEF Stopped, match, exactMatch
  <2>7. QED  BY <1>1, <2>1, <2>2, <2>4, <2>5, <2>6, WriteCases DEF Accepting
<1>2. QED  BY <1>1, Invariance, PTL DEF Spec, AcceptingBlocksNobody

-----------------------------------------------------------------------------
(* Moving an entry *)

\* Who is blocked by the entries in block, with those in white whitelisted.
StoppedBy(n, block, white) ==
    \/ Exactly(n) \in block /\ Exactly(n) \notin white
    \/ /\ Exactly(n) \notin block \cup white
       /\ \A e \in white : ~Matches(e, n)
       /\ \E e \in block : Matches(e, n)

\* The lists as they will be when the method under way has moved its entry.
BlockedThen == lists["rejected"] \cup lists["ignored"] \cup { op.entry }
WhitelistedThen == lists["whitelist"] \ { op.entry }

\* Whoever was blocked when a blocking method was called will be when it returns.
Promised ==
    op.kind \in Blocking =>
        \A n \in op.blocked : StoppedBy(n, BlockedThen, WhitelistedThen)

LEMMA StoppedIsStoppedBy ==
    ASSUME NEW n
    PROVE  Stopped(n) <=>
             StoppedBy(n, lists["rejected"] \cup lists["ignored"], lists["whitelist"])
BY DEF Stopped, StoppedBy, match, exactMatch, List

\* Blocking one entry more, and whitelisting it no longer, releases nobody.
LEMMA MovingReleasesNobody ==
    ASSUME NEW n, NEW block, NEW white, NEW e, StoppedBy(n, block, white)
    PROVE  StoppedBy(n, block \cup { e }, white \ { e })
BY DEF StoppedBy

LEMMA PromisedStep == ASSUME FilterInv, Promised, [Next]_vars PROVE Promised'
<1>1. TypeOK  BY DEF FilterInv
<1>2. CASE Write
  <2>1. op'.kind = op.kind /\ op'.entry = op.entry /\ op'.blocked = op.blocked
    BY <1>1, <1>2, WriteCases DEF TypeOK
  <2>2. CASE op.kind \in Blocking
    <3>1. \/ lists' = removeEntry("whitelist", op.entry)
          \/ \E l \in { "rejected", "ignored" } :
                lists' = removeEntry(l, op.entry) \/ lists' = addEntry(l, op.entry)
      BY <1>1, <1>2, <2>2, WriteCases DEF Blocking
    <3>2. BlockedThen' = BlockedThen /\ WhitelistedThen' = WhitelistedThen
      BY <1>1, <2>1, <3>1 DEF TypeOK, List, removeEntry, addEntry, BlockedThen, WhitelistedThen
    <3>3. QED  BY <2>1, <3>2 DEF Promised
  <2>3. QED  BY <2>1, <2>2 DEF Promised
<1>3. ASSUME NEW kind \in Blocking \cup Accepting, NEW e \in EntriesFor(kind), Call(kind, e)
      PROVE  Promised'
  <2>1. /\ lists' = lists /\ op'.kind = kind /\ op'.entry = e
        /\ kind \in Blocking => op'.blocked = Blocked
    BY <1>3 DEF Call
  <2>2. SUFFICES ASSUME kind \in Blocking, NEW n \in Blocked
                 PROVE  StoppedBy(n, BlockedThen', WhitelistedThen')
    BY <2>1 DEF Promised
  <2>3. StoppedBy(n, lists["rejected"] \cup lists["ignored"], lists["whitelist"])
    BY <2>2, BlockedAreStopped, StoppedIsStoppedBy
  <2>4. QED  BY <2>1, <2>3, MovingReleasesNobody DEF BlockedThen, WhitelistedThen
<1>4. CASE Interrupt
  BY <1>4 DEF Interrupt, Idle, Promised, Blocking
<1>5. CASE UNCHANGED vars
  BY <1>5 DEF vars, Promised, BlockedThen, WhitelistedThen
<1>6. QED  BY <1>2, <1>3, <1>4, <1>5 DEF Next

\* ignoreNumber, rejectNumber and their likes (filter.cpp) move an entry by removing and
\* adding it in separate writes; when they return, nobody has got off the hook.
THEOREM BlockingNeverReleases == Spec => []BlockingReleasesNobody
<1>1. Init => Promised
  BY DEF Init, Idle, Promised, Blocking
<1>2. FilterInv /\ Promised /\ [Next]_vars => Promised'
  BY PromisedStep
<1>3. FilterInv /\ Promised => BlockingReleasesNobody
  <2> SUFFICES ASSUME FilterInv, Promised, IsDone(op), op.kind \in Blocking,
                      NEW n \in op.blocked
               PROVE  n \in Blocked
    BY DEF BlockingReleasesNobody
  <2>1. TypeOK /\ Exclusive /\ Written  BY DEF FilterInv
  <2>2. op.step > 3
    BY DEF IsDone, Writes, Blocking, ignoreNumber, rejectNumber
  <2>3. /\ op.entry \in lists["rejected"] \cup lists["ignored"]
        /\ op.entry \notin lists["whitelist"]
    <3>1. op.step > 1 /\ op.step > 2  BY <2>1, <2>2 DEF TypeOK
    <3>2. QED  BY <2>1, <2>2, <3>1 DEF Written, Blocking
  <2>4. /\ BlockedThen = lists["rejected"] \cup lists["ignored"]
        /\ WhitelistedThen = lists["whitelist"]
    BY <2>3 DEF BlockedThen, WhitelistedThen
  <2>5. Stopped(n)
    BY <2>4, StoppedIsStoppedBy DEF Promised
  <2>6. n \in Number  BY <2>1 DEF TypeOK
  <2>7. QED  BY <2>5, <2>6, BlockedAreStopped
<1>4. QED  BY Invariance, <1>1, <1>2, <1>3, PTL DEF Spec
=============================================================================
