------------------------- MODULE ConfigurationLoad -------------------------
(***************************************************************************)
(* main loads the configuration (r_tree.map_with_key_value_function) after *)
(* it has turned the interrupts on: a remote call can write to the tree    *)
(* between any two steps of the traversal.  The call itself runs in the    *)
(* USB interrupt, so that main stands still while it programs the flash.   *)
(***************************************************************************)
EXTENDS KeyValueTree

CONSTANT MaxLateWrites   \* bound: writes while main loads

ASSUME MaxLateWrites \in Nat

VARIABLES loading,   \* main is in traverse_with_node_function
          stack,     \* traversal_stack, its top first
          reading,   \* the node whose links it goes through, or NoAddr
          link_id,   \* its link that is pushed next
          visited,   \* history: the nodes it has registered
          late,      \* how many writes there were meanwhile
          due        \* history: the nodes stored when it began, but for those
                     \* at and below a node that was edited since

loadVars == <<loading, stack, reading, link_id, visited, late, due>>
loadingVars == <<vars, loadVars>>

NotLoading == /\ loading = FALSE /\ stack = <<>> /\ reading = NoAddr
              /\ link_id = 0 /\ visited = <<>> /\ late = 0 /\ due = {}

StopsLoading == /\ loading' = FALSE /\ stack' = <<>> /\ reading' = NoAddr
                /\ link_id' = 0 /\ visited' = <<>> /\ late' = 0 /\ due' = {}

-----------------------------------------------------------------------------
(***************************************************************************)
(* main.  It loads once after it has booted; as a reboot of an idle device *)
(* leaves no other trace, any moment may be soon after one.                *)
(***************************************************************************)
BeginLoad ==
    /\ op = Idle /\ ~hung /\ ~loading
    /\ flash[1].written /\ root_node_addr # NoAddr
    /\ loading' = TRUE /\ stack' = <<root_node_addr>>
    /\ due' = ToSet(Traversal(flash, root_node_addr))
    /\ UNCHANGED <<vars, reading, link_id, visited, late>>

\* Mutant of FindNext: the implicit link is passed over.
FindNextByAddress(a, i) ==
    Min({j \in LinkId : j >= i /\ j > 0 /\ flash[a].link[j] = "valid"}
             \cup {MAX_NUM_CHILD_NODES})

\* LazyFilter::find_next: the first valid link from i on, as the flash has it.
FindNext(a, i) ==
    Min({j \in LinkId : j >= i /\ flash[a].link[j] = "valid"}
             \cup {MAX_NUM_CHILD_NODES})

\* link_id is i; the node is done with when that is no link any more.
GoOnWith(a, i) == /\ link_id' = i % MAX_NUM_CHILD_NODES
                  /\ reading' = IF i \in LinkId THEN a ELSE NoAddr

\* A node is popped, read and registered; valid_children_links has found the
\* first of its links.
VisitNode ==
    /\ op = Idle /\ reading = NoAddr /\ stack # <<>>
    /\ stack' = Tail(stack)
    /\ visited' = Append(visited, Head(stack))
    /\ GoOnWith(Head(stack), FindNext(Head(stack), 0))
    /\ UNCHANGED <<vars, loading, late, due>>

\* The link found before is pushed, valid or not by now, and the next is found.
PushChild ==
    /\ op = Idle /\ reading # NoAddr
    /\ stack' = <<LinkAddress(flash, reading, link_id)>> \o stack
    /\ GoOnWith(reading, FindNext(reading, link_id + 1))
    /\ UNCHANGED <<vars, loading, visited, late, due>>

EndLoad == /\ op = Idle /\ loading /\ stack = <<>> /\ reading = NoAddr
           /\ StopsLoading
           /\ UNCHANGED vars

-----------------------------------------------------------------------------
(***************************************************************************)
(* The handlers of KeyValueTree.                                           *)
(***************************************************************************)
LoadInit == Init /\ NotLoading

\* The nodes at and below the one that an edit replaces.
Replaced(o) ==
    IF o.kind = "edit"
      THEN ToSet(Traversal(flash, FindNode(flash, root_node_addr, o.key)))
      ELSE {}

RemoteWrite(k) == /\ WriteKey(k)
                  /\ loading => late < MaxLateWrites
                  /\ late' = IF loading THEN late + 1 ELSE late
                  /\ due' = due \ Replaced(op')
                  /\ UNCHANGED <<loading, stack, reading, link_id, visited>>

\* What main reads in a sector that was erased under it depends on the sizes
\* of the nodes: its traversal is not followed any further.
LoadNext == \/ \E k \in Keys : RemoteWrite(k)
            \/ ProgramFlash /\ UNCHANGED loadVars
            \/ Reboot /\ StopsLoading
            \/ EraseSector /\ StopsLoading
            \/ BeginLoad \/ VisitNode \/ PushChild \/ EndLoad

LoadSpec == LoadInit /\ [][LoadNext]_loadingVars

-----------------------------------------------------------------------------
\* When main has loaded the configuration it has registered each node at most
\* once, and every node that was stored when it began, except, at worst, those
\* at and below a node that was edited meanwhile: keys that are added do not
\* disturb it, and an edit costs no other subtree.
LoadMissesOnlyEdited ==
    loading /\ op = Idle /\ stack = <<>> /\ reading = NoAddr =>
        /\ due \subseteq ToSet(visited)
        /\ IsInjective(visited)
=============================================================================
