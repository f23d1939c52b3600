---------------------------- MODULE KeyValueTree ----------------------------
(***************************************************************************)
(* The configuration store in flash (flash_key_value_tree/): a tree of     *)
(* nodes, each with a key and a value, that grows in a sector in which     *)
(* bits can be cleared but not set again.  A write is a sequence of flash  *)
(* programming calls, and the device can lose power or be reset between    *)
(* any two of them.                                                        *)
(*                                                                         *)
(* Nodes lie one behind the other: address a is the a-th node's, and the   *)
(* implicit link of a node, link 0, points to the next address.  A value   *)
(* is identified with the node that holds it, so that no two writes write  *)
(* the same value.  A call of memcpy_to_flash or flash_write_byte is one   *)
(* step (the addresses of a node's links, which are written last, are one  *)
(* step together).                                                         *)
(***************************************************************************)
EXTENDS Integers, SequencesExt

CONSTANTS Keys,
          MAX_NUM_CHILD_NODES,
          Capacity,             \* bound: how many nodes the sector holds
          MaxResets             \* bound: how many writes a reset cuts short

ASSUME KeyValueTreeAssumption ==
    /\ MAX_NUM_CHILD_NODES \in Nat \ {0, 1}
    /\ Capacity \in Nat \ {0}
    /\ MaxResets \in Nat

VARIABLES flash,              \* the node at each address
          root_node_addr,     \* the tree object in RAM: NoAddr while the
          growth_node_addr,   \* ..._valid flag is false
          op,                 \* the write in progress
          hung,               \* the boot code never finds a root
          latest,             \* history: the node of each key's last write
          resets,             \* history: how many writes were cut short
          cut                 \* history: one of them was an edit

vars == <<flash, root_node_addr, growth_node_addr, op, hung, latest, resets, cut>>

Addr    == 1 .. Capacity
NoAddr  == 0                  \* also: a link that reads 0xFFFFFFFF
LinkId  == 0 .. MAX_NUM_CHILD_NODES - 1
NoKey   == "blank"            \* a key that reads 0xFFFFFFFF

\* What erased flash reads as when it is taken for a node.
Blank == [written |-> FALSE, active |-> TRUE, data_valid |-> TRUE,
          key |-> NoKey, value |-> FALSE, next_root |-> NoAddr,
          link |-> [i \in LinkId |-> "uninitialized"],
          to |-> [i \in LinkId |-> NoAddr]]

Idle == [kind |-> "none", todo |-> <<>>]

-----------------------------------------------------------------------------
(***************************************************************************)
(* Reading the tree.  Every operator takes an image f of the flash.        *)
(***************************************************************************)
IsGrowthNode(node) == node.link[0] = "uninitialized"

\* The address link i leads to.  The code adds up the length of a node in a uint8_t
\* and does not check the size of its value, one of more than 231 bytes would wrap:
\* a value is taken to be no longer than the packet that brings it.
LinkAddress(f, a, i) == IF i = 0 THEN a + 1 ELSE f[a].to[i]

\* valid_children_links: the addresses, in the order of the links.
ValidChildren(f, a) ==
    LET ofFirst[n \in 0 .. MAX_NUM_CHILD_NODES] ==
            IF n = 0 THEN <<>>
            ELSE IF f[a].link[n - 1] = "valid"
                   THEN Append(ofFirst[n - 1], LinkAddress(f, a, n - 1))
                   ELSE ofFirst[n - 1]
    IN  ofFirst[MAX_NUM_CHILD_NODES]

\* One turn of the loop of traverse_with_node_function: the node on top of
\* traversal_stack is popped and visited, and its children are pushed.
VisitTop(f, w) ==
    IF w.stack = <<>>
      THEN w
      ELSE [seen  |-> Append(w.seen, Head(w.stack)),
            stack |-> Reverse(ValidChildren(f, Head(w.stack))) \o Tail(w.stack)]

\* traverse_with_node_function: the addresses in the order of the visits.  The
\* traversal is cut off after twice as many visits as there are addresses.
Traversal(f, root) ==
    LET after[n \in 0 .. 2 * Capacity] ==
            IF n = 0 THEN [seen |-> <<>>, stack |-> <<root>>]
                     ELSE VisitTop(f, after[n - 1])
    IN  IF f[1].written /\ root # NoAddr THEN after[2 * Capacity].seen ELSE <<>>

FirstSuchThat(seq, Test(_)) ==
    LET found == SelectInSeq(seq, Test) IN IF found = 0 THEN NoAddr ELSE seq[found]

\* find_node_and_parent_matching_key
FindNode(f, root, k) ==
    FirstSuchThat(Traversal(f, root), LAMBDA a : f[a].key = k)

FindParent(f, root, node) ==
    FirstSuchThat(Traversal(f, root),
                  LAMBDA a : node \in ToSet(ValidChildren(f, a)))

FindGrowthNode(f, root) ==
    FirstSuchThat(Traversal(f, root), LAMBDA a : IsGrowthNode(f[a]))

\* find_active_root_node: NoAddr if the search runs into a link that was never
\* written.
FindActiveRootNode(f) ==
    LET NextOf(a) == IF a = NoAddr \/ f[a].active THEN a ELSE f[a].next_root
        after[n \in 0 .. Capacity] == IF n = 0 THEN 1 ELSE NextOf(after[n - 1])
    IN  after[Capacity]

-----------------------------------------------------------------------------
(***************************************************************************)
(* Writing: the flash programming calls that an operation makes.           *)
(***************************************************************************)

\* mark_link_as
MarkLink(a, i, state) == [at |-> a, part |-> "link", id |-> i, state |-> state]

\* invalidate_flag
ClearFlag(a, flag) == [at |-> a, part |-> flag]

\* What a call does to the flash.  It succeeds: a failing HAL_FLASH_Program, which
\* ends the call early and which no caller asks about, is left out.
Program(f, w) ==
    [f EXCEPT ![w.at] =
        CASE w.part = "header"     -> w.node
          [] w.part = "value"      -> [@ EXCEPT !.value = TRUE]
          [] w.part = "links"      -> [@ EXCEPT !.to = w.to]
          [] w.part = "next_root"  -> [@ EXCEPT !.next_root = w.to]
          [] w.part = "link"       -> [@ EXCEPT !.link[w.id] = w.state]
          [] w.part = "data_valid" -> [@ EXCEPT !.data_valid = FALSE]
          [] w.part = "active"     -> [@ EXCEPT !.active = FALSE]]

\* The header of a Key_Value_Ram_Node with that many non-growth links.
NewNode(k, is_root, num_links) ==
    [written |-> TRUE, active |-> is_root, data_valid |-> TRUE,
     key |-> k, value |-> FALSE, next_root |-> NoAddr,
     link |-> [i \in LinkId |-> CASE i = 0 -> "uninitialized"
                                  [] i \in 1 .. num_links -> "valid"
                                  [] OTHER -> "unallocated"],
     to |-> [i \in LinkId |-> NoAddr]]

\* write_to_address: header, value, links.
WriteToAddress(a, k, is_root, children) ==
    LET links == [i \in LinkId |-> IF i \in DOMAIN children THEN children[i]
                                                           ELSE NoAddr]
    IN  <<[at |-> a, part |-> "header",
           node |-> NewNode(k, is_root, Len(children))],
          [at |-> a, part |-> "value"]>> \o
        (IF children = <<>> THEN <<>>
                            ELSE <<[at |-> a, part |-> "links", to |-> links]>>)

\* Mutant of AddFirstRootNode: the status word of the sector is forgotten.
FirstRootAtTreeAddress(k) == WriteToAddress(0, k, TRUE, <<>>)

\* add_first_root_node
AddFirstRootNode(k) == WriteToAddress(1, k, TRUE, <<>>)

\* add_growth_node_with_key_value
AddGrowthNode(k, growth) ==
    <<MarkLink(growth, 0, "valid")>> \o WriteToAddress(growth + 1, k, FALSE, <<>>)

\* Mutant of DetachFromParent: the parent keeps its link.
LeaveParentLink(f, parent, node) == <<>>

\* mark_invalid_link_to
DetachFromParent(f, parent, node) ==
    IF parent = NoAddr
      THEN <<>>
      ELSE LET i == CHOOSE j \in LinkId : LinkAddress(f, parent, j) = node
           IN  <<MarkLink(parent, i, "invalid")>>

\* Mutant of LinksTakenOver: the old root is forgotten.
LinksOfNodeOnly(f, root, node) == ValidChildren(f, node)

\* The links of a new root that replaces node.
LinksTakenOver(f, root, node) ==
    ValidChildren(f, node) \o (IF root = node THEN <<>> ELSE <<root>>)

\* How many links of the edited node a new root has room for.
MaxLinksTakenOver(root, node) ==
    IF root = node THEN MAX_NUM_CHILD_NODES - 1 ELSE MAX_NUM_CHILD_NODES - 2

TakesOver(f, root, node) ==
    Len(ValidChildren(f, node)) <= MaxLinksTakenOver(root, node)

\* Mutant of CloseGrowthLink: nodes can still be appended to the old one.
LeaveGrowthLink(growth) == <<>>

\* mark_growth_link_INVALID_and_return_address_it_points_to
CloseGrowthLink(growth) == <<MarkLink(growth, 0, "invalid")>>

\* Mutant of PointNextRootLinkTo: it is always the first root that is linked.
PointFirstRootLinkTo(root, new) ==
    <<ClearFlag(root, "active"), [at |-> 1, part |-> "next_root", to |-> new]>>

\* point_next_root_link_to
PointNextRootLinkTo(root, new) ==
    <<ClearFlag(root, "active"), [at |-> root, part |-> "next_root", to |-> new]>>

\* The branch of update_node that puts a new root above the old one.
ReplaceByNewRoot(f, k, root, growth, node) ==
    <<ClearFlag(node, "data_valid")>>
      \o DetachFromParent(f, FindParent(f, root, node), node)
      \o CloseGrowthLink(growth)
      \o WriteToAddress(growth + 1, k, TRUE, LinksTakenOver(f, root, node))
      \o PointNextRootLinkTo(root, growth + 1)

\* The other branch: the old node stays, for the sake of its children.
LeaveCarcass(k, growth, node) ==
    <<ClearFlag(node, "data_valid")>> \o AddGrowthNode(k, growth)

-----------------------------------------------------------------------------
(***************************************************************************)
(* The device.                                                             *)
(***************************************************************************)
Init == /\ flash = [a \in Addr |-> Blank]
        /\ root_node_addr = NoAddr /\ growth_node_addr = NoAddr
        /\ op = Idle /\ hung = FALSE
        /\ latest = [k \in Keys |-> NoAddr]
        /\ resets = 0 /\ cut = FALSE

Start(kind, k, at, calls) ==
    /\ op' = [kind |-> kind, key |-> k, at |-> at, todo |-> calls]
    /\ UNCHANGED <<flash, root_node_addr, growth_node_addr, hung, latest, resets, cut>>

\* The WRITE_KEY_SIZE_VALUE_TO_FLASH request: add_edit_key_value, up to its
\* first write.
WriteKey(k) ==
    LET root   == root_node_addr
        growth == growth_node_addr
        node   == FindNode(flash, root, k)
    IN  /\ op = Idle /\ ~hung
        /\ \/ /\ ~flash[1].written
              /\ Start("first", k, 1, AddFirstRootNode(k))
           \/ /\ flash[1].written /\ root # NoAddr /\ growth # NoAddr
              /\ growth < Capacity
              /\ \/ /\ node = NoAddr
                    /\ Start("add", k, growth + 1, AddGrowthNode(k, growth))
                 \/ /\ node # NoAddr /\ TakesOver(flash, root, node)
                    /\ Start("edit", k, growth + 1,
                             ReplaceByNewRoot(flash, k, root, growth, node))
                 \/ /\ node # NoAddr /\ ~TakesOver(flash, root, node)
                    /\ Start("add", k, growth + 1, LeaveCarcass(k, growth, node))

\* Mutant of Reload: addresses that have been found are not looked up again.
ReloadOnce(f) ==
    IF root_node_addr # NoAddr
      THEN UNCHANGED <<root_node_addr, growth_node_addr>>
      ELSE /\ root_node_addr' = FindActiveRootNode(f)
           /\ growth_node_addr' = FindGrowthNode(f, root_node_addr')

\* reload
Reload(f) ==
    /\ root_node_addr' = FindActiveRootNode(f)
    /\ growth_node_addr' = FindGrowthNode(f, root_node_addr')

\* The next write to flash; after the last one, reload.
ProgramFlash ==
    /\ op.todo # <<>>
    /\ flash' = Program(flash, Head(op.todo))
    /\ IF Len(op.todo) > 1
         THEN /\ op' = [op EXCEPT !.todo = Tail(@)]
              /\ UNCHANGED <<root_node_addr, growth_node_addr, latest>>
         ELSE /\ op' = Idle
              /\ latest' = [latest EXCEPT ![op.key] = op.at]
              /\ Reload(flash')
    /\ UNCHANGED <<hung, resets, cut>>

\* The power is lost, or the RESET_SYSTEM request arrives, and the device boots:
\* main constructs the tree and reloads it.
Reboot ==
    /\ op # Idle => resets < MaxResets
    /\ resets' = IF op # Idle THEN resets + 1 ELSE resets
    /\ op' = Idle
    /\ cut' = (cut \/ op.kind = "edit")
    /\ IF flash[1].written
         THEN Reload(flash) /\ hung' = (FindActiveRootNode(flash) = NoAddr)
         ELSE /\ root_node_addr' = NoAddr /\ growth_node_addr' = NoAddr
              /\ hung' = FALSE
    /\ UNCHANGED <<flash, latest>>

\* The ERASE_FLASH_SECTOR request: the tree object is not told.
EraseSector ==
    /\ op = Idle /\ ~hung
    /\ flash' = [a \in Addr |-> Blank]
    /\ latest' = [k \in Keys |-> NoAddr]
    /\ cut' = FALSE
    /\ UNCHANGED <<root_node_addr, growth_node_addr, op, hung, resets>>

Next == \/ \E k \in Keys : WriteKey(k)
        \/ ProgramFlash
        \/ Reboot
        \/ EraseSector

Spec == Init /\ [][Next]_vars

-----------------------------------------------------------------------------
(***************************************************************************)
(* Properties.                                                             *)
(***************************************************************************)
TypeOK ==
    /\ \A a \in Addr :
          /\ flash[a].key \in Keys \cup {NoKey}
          /\ flash[a].next_root \in Addr \cup {NoAddr}
          /\ \A i \in LinkId : flash[a].link[i] \in
                {"uninitialized", "valid", "invalid", "unallocated"}
          /\ \A i \in LinkId : flash[a].to[i] \in Addr \cup {NoAddr}
    /\ root_node_addr \in Addr \cup {NoAddr}
    /\ growth_node_addr \in Addr \cup {NoAddr}
    /\ op.kind \in {"none", "first", "add", "edit"}
    /\ \A n \in DOMAIN op.todo : op.todo[n].at \in Addr
    /\ hung \in BOOLEAN /\ cut \in BOOLEAN
    /\ resets \in 0 .. MaxResets
    /\ latest \in [Keys -> Addr \cup {NoAddr}]

\* What a traversal that started now would visit.
Visited == Traversal(flash, FindActiveRootNode(flash))

\* The configuration that the boot code loads: of the nodes with the same key,
\* the one visited last is the one that stays registered.
VisitsOf(k) == LET seen == Visited IN {n \in DOMAIN seen : flash[seen[n]].key = k}
Loaded(k)   == IF VisitsOf(k) = {} THEN NoAddr ELSE Visited[Max(VisitsOf(k))]

\* However the edits moved the roots and the children about, and wherever a
\* write was cut short, the nodes a traversal reaches form a tree: it visits
\* none of them twice.
NodesFormTree == IsInjective(Visited)

\* The node a write is appended to is the last one of the sector: what follows
\* is blank, so that a new node is never programmed over an old one, whatever
\* resets have left behind.
GrowthNodeIsLast ==
    op = Idle /\ flash[1].written /\ growth_node_addr # NoAddr =>
        \A a \in growth_node_addr + 1 .. Capacity : flash[a] = Blank

\* Unless an edit was cut short, there is exactly one node to append to.
OneGrowthNode ==
    op = Idle /\ flash[1].written /\ ~cut =>
        /\ growth_node_addr # NoAddr
        /\ {a \in ToSet(Visited) : IsGrowthNode(flash[a])} = {growth_node_addr}

\* Unless an edit was cut short, the boot code loads the last value of each
\* key that was written to the end, except that the value of a key which has
\* more than one node may be an earlier one; and it loads every value whole
\* unless the write that made it was cut short.
LatestIsLoaded ==
    op = Idle /\ ~cut =>
        \A k \in Keys : latest[k] # NoAddr =>
            /\ latest[k] \in {Visited[n] : n \in VisitsOf(k)}
            /\ flash[latest[k]].value
            /\ Loaded(k) = latest[k] \/ \E m, n \in VisitsOf(k) : m # n

\* Outside an erase, programming only clears bits: no node is written over
\* another one, and no link comes back.
Rank == [uninitialized |-> 3, valid |-> 2, invalid |-> 1, unallocated |-> 0]

OnlyClearsBits(old, new) ==
    /\ new.active => old.active
    /\ new.data_valid => old.data_valid
    /\ old.written => new.written /\ new.key = old.key
    /\ old.next_root # NoAddr => new.next_root = old.next_root
    /\ \A i \in LinkId : /\ Rank[new.link[i]] <= Rank[old.link[i]]
                         /\ old.to[i] # NoAddr => new.to[i] = old.to[i]

BitsOnlyCleared ==
    [][flash' = [a \in Addr |-> Blank] \/
       \A a \in Addr : OnlyClearsBits(flash[a], flash'[a])]_vars

\* flash_key_value_tree/flash_readme.md:54 has it that the store "persistently
\* (saved across power-cycles, power-off and resets)" keeps the user's data.
SurvivesReset ==
    op = Idle => \A k \in Keys : latest[k] # NoAddr => Loaded(k) # NoAddr

\* flash_key_value_tree/flash_readme.md:61 promises "a simple interface to edit
\* a value [...] for a key": the value loaded is the one edited last.
EditTakesEffect ==
    op = Idle /\ ~cut => \A k \in Keys : latest[k] # NoAddr => Loaded(k) = latest[k]
=============================================================================
