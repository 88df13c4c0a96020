------------------------------ MODULE CallFilter ------------------------------
(***************************************************************************)
(* The call filter library (plugins/filter/lib): three lists of entries,   *)
(* kept in DConf, from which voicecalld's filter plugin judges incoming    *)
(* calls.  The lists are edited by another process, the settings, through  *)
(* the same class Filter: every method is a sequence of writes to DConf,   *)
(* and the daemon may be asked to judge a call between any two of them.    *)
(*                                                                         *)
(* Numbers and prefixes are opaque: how they compare is a parameter.       *)
(***************************************************************************)
EXTENDS Naturals, Sequences

CONSTANTS
    Number,    \* remote numbers, as calls show them and as users write them
    Prefix,    \* what numbers may start with
    Begins,    \* << t, p >> : the text t starts with the prefix p
    SameLine   \* << t, n >> : Recipient(t).matchesRemoteUid(n), for an n that is
               \* a phone number: the same line, maybe written in another form

Text == Number \cup Prefix

ASSUME RelationsAssumption ==
    /\ Begins \subseteq Text \X Prefix
    /\ SameLine \subseteq Text \X Number

Exactly(n)      == << "number", n >>
StartingWith(p) == << "prefix", p >>     \* "^" and the prefix
Everything      == << "all", "*" >>

Entry ==
    { Exactly(n) : n \in Number } \cup { StartingWith(p) : p \in Prefix } \cup { Everything }

List == { "whitelist", "rejected", "ignored" }

VARIABLES
    lists,     \* the three FilterLists
    op         \* the method the settings are in, and the write that comes next; for
               \* the properties, the numbers that were blocked when it was called

vars == << lists, op >>

Blocking  == { "ignore", "reject" }
Accepting == { "acceptNumber", "acceptPrefix", "acceptByDefault", "acceptAll" }

\* No method is under way, and the last one, if any, was interrupted.
Idle == [ kind |-> "none", entry |-> Everything, step |-> 1, blocked |-> {} ]

Init ==
    /\ lists = [l \in List |-> {}]
    /\ op = Idle

-----------------------------------------------------------------------------
(* FilterList *)

Matches(e, t) ==
    \/ \E n \in Number : e = Exactly(n) /\ << t, n >> \in SameLine
    \/ \E p \in Prefix : e = StartingWith(p) /\ << t, p >> \in Begins
    \/ e = Everything

match(l, t) == \E e \in lists[l] : Matches(e, t)

exactMatch(l, t) == Exactly(t) \in lists[l]

removeEntry(l, e) == [lists EXCEPT ![l] = @ \ { e }]

addEntry(l, e) == [lists EXCEPT ![l] = @ \cup { e }]

clear(l) == [lists EXCEPT ![l] = {}]

-----------------------------------------------------------------------------
(* Filter *)

\* The order in which the lists are asked, among those that have an opinion.
FirstOf(ls) ==
    CASE "whitelist" \in ls -> "CONTINUE"
      [] "whitelist" \notin ls /\ "rejected" \in ls -> "REJECT"
      [] ls = { "ignored" } -> "IGNORE"
      [] OTHER -> "CONTINUE"

\* Mutant: the lists are asked one after the other, each for any match.
evaluate_ListByList(t) == FirstOf({ l \in List : exactMatch(l, t) \/ match(l, t) })

\* apply: an exact entry decides before any pattern.
evaluate(t) ==
    LET exact == { l \in List : exactMatch(l, t) }
    IN  FirstOf(IF exact # {} THEN exact ELSE { l \in List : match(l, t) })

Blocked == { t \in Number : evaluate(t) # "CONTINUE" }

\* What each method does, as the writes it makes in their order; each one is
\* taken from the lists as they are when its turn comes.

ignoreNumber(e) ==
    << removeEntry("whitelist", e), removeEntry("rejected", e), addEntry("ignored", e) >>

\* Mutant: the entry is added before the others are removed.
rejectNumber_AddedFirst(e) ==
    << addEntry("rejected", e), removeEntry("whitelist", e), removeEntry("ignored", e) >>

\* Mutant: no entry is added when the rejected list already covers it.
rejectNumber_IfNeeded(e) ==
    << removeEntry("whitelist", e), removeEntry("ignored", e),
       IF match("rejected", e[2]) THEN lists ELSE addEntry("rejected", e) >>

rejectNumber(e) ==
    << removeEntry("whitelist", e), removeEntry("ignored", e), addEntry("rejected", e) >>

\* Mutant: only exact entries count as a reason.
Vouch_Exact(e, t) ==
    IF \E l \in { "rejected", "ignored" } : exactMatch(l, t)
    THEN addEntry("whitelist", e)
    ELSE lists

\* An entry is whitelisted only if the text it stands for is still blocked.
Vouch(e, t) ==
    IF match("rejected", t) \/ match("ignored", t) THEN addEntry("whitelist", e) ELSE lists

acceptNumber(n) ==
    << removeEntry("rejected", Exactly(n)), removeEntry("ignored", Exactly(n)),
       Vouch(Exactly(n), n) >>

acceptNumbersStartingWith(p) ==
    << removeEntry("ignored", StartingWith(p)), removeEntry("rejected", StartingWith(p)),
       Vouch(StartingWith(p), p) >>

acceptByDefault == << removeEntry("ignored", Everything), removeEntry("rejected", Everything) >>

\* Mutant: the whitelist is cleared before the lists it protects from.
acceptAll_WhitelistFirst == << clear("whitelist"), clear("ignored"), clear("rejected") >>

acceptAll == << clear("ignored"), clear("rejected"), clear("whitelist") >>

Writes(o) ==
    CASE o.kind = "ignore"          -> ignoreNumber(o.entry)
      [] o.kind = "reject"          -> rejectNumber(o.entry)
      [] o.kind = "acceptNumber"    -> acceptNumber(o.entry[2])
      [] o.kind = "acceptPrefix"    -> acceptNumbersStartingWith(o.entry[2])
      [] o.kind = "acceptByDefault" -> acceptByDefault
      [] o.kind = "acceptAll"       -> acceptAll
      [] o.kind = "none"            -> << >>

IsDone(o) == o.step > Len(Writes(o))

-----------------------------------------------------------------------------
(* The settings *)

\* The entries a method may be called with.
EntriesFor(kind) ==
    CASE kind \in Blocking       -> Entry
      [] kind = "acceptNumber"   -> { Exactly(n) : n \in Number }
      [] kind = "acceptPrefix"   -> { StartingWith(p) : p \in Prefix }
      [] OTHER                   -> { Everything }

Call(kind, e) ==
    /\ IsDone(op)
    /\ op' = [ kind |-> kind, entry |-> e, step |-> 1,
               blocked |-> IF kind \in Blocking THEN Blocked ELSE {} ]
    /\ UNCHANGED lists

Write ==
    /\ ~IsDone(op)
    /\ lists' = Writes(op)[op.step]
    /\ op' = [op EXCEPT !.step = @ + 1]

\* The settings die within a method; what is written stays.
Interrupt ==
    /\ ~IsDone(op)
    /\ op' = Idle
    /\ UNCHANGED lists

Next ==
    \/ \E kind \in Blocking \cup Accepting : \E e \in EntriesFor(kind) : Call(kind, e)
    \/ Write
    \/ Interrupt

Spec == Init /\ [][Next]_vars

-----------------------------------------------------------------------------
(* Properties *)

TypeOK ==
    /\ lists \in [List -> SUBSET Entry]
    /\ op \in [ kind : Blocking \cup Accepting \cup { "none" },
                entry : Entry, step : 1 .. 4, blocked : SUBSET Number ]
    /\ op.kind # "none" => op.entry \in EntriesFor(op.kind)

\* No entry is ever in two lists, not even between the writes of a method or
\* after one was interrupted half-way: the verdict on a call never depends on
\* which list happens to be asked first.
Exclusive == \A l, m \in List : l # m => lists[l] \cap lists[m] = {}

\* A method that has returned has done what it says, whatever the lists held:
\* the number is ignored, rejected or accepted, and a number that starts with an
\* accepted prefix is blocked only by its own entry or by an entry that the
\* prefix itself escapes, a longer prefix for instance.
AskedIsDone ==
    IsDone(op) =>
        /\ \A n \in Number : op.entry = Exactly(n) =>
              /\ op.kind = "ignore"       => evaluate(n) = "IGNORE"
              /\ op.kind = "reject"       => evaluate(n) = "REJECT"
              /\ op.kind = "acceptNumber" => evaluate(n) = "CONTINUE"
        /\ \A p \in Prefix : op.kind = "acceptPrefix" /\ op.entry = StartingWith(p) =>
              \A n \in Blocked : << n, p >> \in Begins =>
                  \E e \in lists["rejected"] \cup lists["ignored"] :
                      e = Exactly(n) \/ (Matches(e, n) /\ ~Matches(e, p))

\* Moving an entry from one list to another lets nobody through: when ignore or
\* reject has returned, every number that was blocked before still is.
BlockingReleasesNobody ==
    IsDone(op) /\ op.kind \in Blocking => op.blocked \subseteq Blocked

\* No write of an accepting method ever blocks a number that would have got
\* through, so a call judged while one is under way rings if it rang before.
AcceptingBlocksNobody ==
    [][ op.kind \in Accepting /\ lists' # lists => Blocked' \subseteq Blocked ]_vars
=============================================================================
