-------------------------------- MODULE GidTable --------------------------------
(***************************************************************************)
(* One global id table: the sequence of file nodes that declares it is     *)
(* parsed by _parse_global_id_table_sequence, then evaluated against the   *)
(* table of the revision it depends on by _build_gid_table_from_sequence   *)
(* (onestore/object_space.py).                                             *)
(*                                                                         *)
(* The two passes share their checks: the first one sees that no index is  *)
(* declared twice, the second one that no GUID is.  A table is a function  *)
(* from indices to GUIDs.                                                  *)
(***************************************************************************)
EXTENDS Integers, Sequences, Functions

CONSTANTS
    Guids,
    None,      \* no table: the revision depends on nothing
    Limit,     \* indices must be below it (0xFFFFFF in the code)
    MaxIndex,  \* bound: the largest index of a file node
    MaxCopy,   \* bound: the largest cEntriesToCopy
    MaxOps     \* bound: the entries of one sequence

ASSUME NoneIsNoTable == None \notin UNION {[S -> Guids] : S \in SUBSET (0..Limit-1)}
ASSUME Bounds == {Limit, MaxIndex, MaxCopy, MaxOps} \subseteq Nat

Index == 0..MaxIndex

Table == UNION {[S -> Guids] : S \in SUBSET (0..Limit-1)}
Injective(t) == \A i, j \in DOMAIN t : t[i] = t[j] => i = j

(* GlobalIdTableEntryFNDX declares one GUID, GlobalIdTableEntry3FNDX       *)
(* copies a range of the dependency's table; GlobalIdTableEntry2FNDX is    *)
(* the range of one entry.                                                 *)
Declare == [guid : Guids, to : Index]
Copy    == [from : Index, to : Index, count : 0..MaxCopy]
Op      == Declare \cup Copy

VARIABLES
    strict,    \* ctx.strict
    dep,       \* the dependency's table, or None
    pc,        \* "parse", "build", "done" or "failed"
    ops,       \* the entries parsed
    dest,      \* dest_points and dest_ranges
    seen_guid, \* seen_direct_guid
    cursor,    \* the entry to be evaluated
    copied,    \* how much of it is copied, if it is a Copy
    table,     \* the table built so far
    failure    \* what OneStoreFormatError was raised for, or "none"

vars == <<strict, dep, pc, ops, dest, seen_guid, cursor, copied, table, failure>>

TypeOK ==
    /\ strict \in BOOLEAN
    /\ dep \in Table \cup {None}
    /\ pc \in {"parse", "build", "done", "failed"}
    /\ ops \in Seq(Op)
    /\ dest \subseteq 0..(MaxIndex + MaxCopy)
    /\ seen_guid \subseteq Guids
    /\ cursor \in 1..(Len(ops) + 1)
    /\ copied \in 0..MaxCopy
    /\ table \in Table
    /\ failure \in {"none", "sequence", "index", "guid", "no_effect", "source"}

(* A dependency's table has been built by the same function.               *)
Init ==
    /\ strict \in BOOLEAN
    /\ dep \in {t \in Table : Injective(t)} \cup {None}
    /\ pc = "parse"
    /\ ops = <<>>
    /\ dest = {}
    /\ seen_guid = {}
    /\ cursor = 1
    /\ copied = 0
    /\ table = [i \in {} |-> None]
    /\ failure = "none"

Raise(reason) ==
    /\ pc' = "failed"
    /\ failure' = reason
    /\ UNCHANGED <<strict, dep, ops, dest, seen_guid, cursor, copied, table>>

-----------------------------------------------------------------------------
(* _parse_global_id_table_sequence                                         *)

IsDeclare(op) == "guid" \in DOMAIN op

(* The indices an entry gives a GUID.                                      *)
Dests(op) == IF IsDeclare(op) THEN {op.to} ELSE op.to..(op.to + op.count - 1)

(* What a Copy must satisfy.  The end of the source range is not checked:  *)
(* no table has an index at or above the limit.                            *)
InLimitAtStart(op) == op.from < Limit /\ op.to < Limit
InLimit(op) ==
    /\ op.from < Limit
    /\ op.to < Limit
    /\ \A i \in Dests(op) : i < Limit

(* Of a Declare the limit is checked only when the table is built.         *)
OverlapAllowed(op) == op.to \notin dest
IsFresh(op) == Dests(op) \cap dest = {}
CanParse(op) ==
    /\ IsFresh(op)
    /\ IF IsDeclare(op) THEN op.guid \notin seen_guid ELSE strict => InLimit(op)

ParseEntry ==
    /\ pc = "parse"
    /\ Len(ops) < MaxOps
    /\ \E op \in Op :
         /\ CanParse(op)
         /\ ops' = Append(ops, op)
         /\ dest' = dest \cup Dests(op)
         /\ seen_guid' = IF IsDeclare(op) THEN seen_guid \cup {op.guid} ELSE seen_guid
    /\ UNCHANGED <<strict, dep, pc, cursor, copied, table, failure>>

(* An entry that is not allowed, a second start node, another node, or no  *)
(* end node.                                                               *)
RejectSequence == pc = "parse" /\ Raise("sequence")

EndSequence ==
    /\ pc = "parse"
    /\ pc' = "build"
    /\ UNCHANGED <<strict, dep, ops, dest, seen_guid, cursor, copied, table, failure>>

-----------------------------------------------------------------------------
(* _build_gid_table_from_sequence                                          *)

Building == pc = "build" /\ cursor <= Len(ops)
Entry == ops[cursor]

(* A tolerant parser warns and goes on: the entry has no effect.           *)
HasNoEffect(op) ==
    IF IsDeclare(op) THEN op.to >= Limit ELSE dep = None \/ ~InLimit(op)

SkipEntry ==
    /\ Building /\ copied = 0
    /\ \/ HasNoEffect(Entry) /\ ~strict
       \/ ~IsDeclare(Entry) /\ ~HasNoEffect(Entry) /\ Entry.count = 0
    /\ cursor' = cursor + 1
    /\ UNCHANGED <<strict, dep, pc, ops, dest, seen_guid, copied, table, failure>>

RejectEntry ==
    /\ Building /\ copied = 0
    /\ HasNoEffect(Entry) /\ strict
    /\ Raise("no_effect")

(* _add: the index and the GUID must be new.                               *)
IsNewIndex(index, guid) == index \notin DOMAIN table
IsNew(index, guid) == index \notin DOMAIN table /\ guid \notin Range(table)
Add(index, guid) ==
    table' = [i \in DOMAIN table \cup {index} |->
                IF i = index THEN guid ELSE table[i]]

RejectAdd(index, guid) ==
    /\ ~IsNew(index, guid)
    /\ Raise(IF index \in DOMAIN table THEN "index" ELSE "guid")

AddDeclared ==
    /\ Building /\ IsDeclare(Entry) /\ ~HasNoEffect(Entry)
    /\ IsNew(Entry.to, Entry.guid)
    /\ Add(Entry.to, Entry.guid)
    /\ cursor' = cursor + 1
    /\ UNCHANGED <<strict, dep, pc, ops, dest, seen_guid, copied, failure>>

RejectDeclared ==
    /\ Building /\ IsDeclare(Entry) /\ ~HasNoEffect(Entry)
    /\ RejectAdd(Entry.to, Entry.guid)

(* One turn of the loop over the range.                                    *)
Copying ==
    /\ Building /\ ~IsDeclare(Entry)
    /\ ~HasNoEffect(Entry)
    /\ copied < Entry.count
FromShifted == Entry.from + copied + 1
From == Entry.from + copied
To == Entry.to + copied

AddCopied ==
    /\ Copying
    /\ From \in DOMAIN dep
    /\ IsNew(To, dep[From])
    /\ Add(To, dep[From])
    /\ IF copied + 1 = Entry.count THEN cursor' = cursor + 1 /\ copied' = 0
                                 ELSE cursor' = cursor /\ copied' = copied + 1
    /\ UNCHANGED <<strict, dep, pc, ops, dest, seen_guid, failure>>

RejectSource == Copying /\ From \notin DOMAIN dep /\ Raise("source")

RejectCopied == Copying /\ From \in DOMAIN dep /\ RejectAdd(To, dep[From])

EndTable ==
    /\ pc = "build"
    /\ cursor > Len(ops)
    /\ pc' = "done"
    /\ UNCHANGED <<strict, dep, ops, dest, seen_guid, cursor, copied, table, failure>>

Stopped == pc \in {"done", "failed"} /\ UNCHANGED vars

Next ==
    \/ ParseEntry \/ RejectSequence \/ EndSequence
    \/ SkipEntry \/ RejectEntry
    \/ AddDeclared \/ RejectDeclared
    \/ AddCopied \/ RejectSource \/ RejectCopied
    \/ EndTable
    \/ Stopped

Spec == Init /\ [][Next]_vars

-----------------------------------------------------------------------------
(* What the first pass lets through never declares an index twice: the     *)
(* second pass never raises for an index, whatever it skips or copies.     *)
NoIndexClash == failure # "index"

(* A table is a bijection between its indices and its GUIDs, also when     *)
(* direct entries and copied ranges are mixed: two ids of a revision that  *)
(* differ in their index name two different objects.                       *)
TableIsInjective == Injective(table)

(* What a sequence means: op gives index i the GUID g.                     *)
Gives(op, i, g) ==
    /\ ~HasNoEffect(op)
    /\ i \in Dests(op)
    /\ IF IsDeclare(op) THEN g = op.guid
       ELSE LET j == op.from + (i - op.to) IN j \in DOMAIN dep /\ g = dep[j]

(* A table that is built contains what the entries of the sequence give,   *)
(* all of it and nothing else: no entry is lost or moved by one.           *)
TableIsDeclared ==
    pc = "done" =>
        /\ \A k \in 1..Len(ops) : ~HasNoEffect(ops[k]) => Dests(ops[k]) \subseteq DOMAIN table
        /\ \A i \in DOMAIN table : \E k \in 1..Len(ops) : Gives(ops[k], i, table[i])
=============================================================================
