--------------------------- MODULE MCGroupPoints ---------------------------
(* Instances of GroupPoints for TLC: groups and submissions are varied around *)
(* a plain one in each thing the rules look at.                            *)
EXTENDS GroupPoints, TLC

CONSTANTS ann, bob, cid, dan

\* Bob is named in three ways, Ann (who receives) in two, Cid is of another group,
\* Eve is not known.
MCNames == {"Ann", "a_nn", "Bob", "bob", "b_b", "Dan", "Cid", "Eve"}
MCWho == [n \in MCNames |->
  CASE n \in {"Ann", "a_nn"} -> ann [] n \in {"Bob", "bob", "b_b"} -> bob
    [] n = "Dan" -> dan [] n = "Cid" -> cid [] OTHER -> None]
MCLower == [n \in MCNames |-> IF n = "Bob" THEN "bob" ELSE n]

Entry(list, item) == [list |-> list, item |-> item, npc |-> 0]
Mod(kind, item, each) == [kind |-> kind, item |-> item, npc |-> 0, award |-> each, divisor |-> 2]
Event(target, op, value, to) ==
  [kind |-> "any", target |-> target, id |-> 1, from |-> 1, to |-> to, op |-> op, value |-> value]

Plain ==
  [active |-> TRUE, members |-> {ann, bob, dan}, awards |-> [drop |-> 3, pb |-> 1],
   divisor |-> 2, lists |-> {}, mods |-> <<>>, events |-> <<>>, settings |-> <<>>]

\* Group 1 shares; a group may have said otherwise.
MCDefaults == [sharing |-> TRUE, min |-> 0]

ListsOf == {{}, {Entry("blacklist", 1)}, {Entry("whitelist", 1)}, {Entry("whitelist", 0)},
            {Entry("no_split", 1)}, {Entry("whitelist", 1), Entry("blacklist", 2)}}
ModsOf == {<<>>, <<Mod("drop", 1, 2)>>, <<Mod("pb", 0, 4), Mod("drop", 0, 5)>>}
EventsOf == {<<>>, <<Event("any", "multiply", 3, 1)>>,
             <<Event("item", "other", 9, 2), Event("item", "add", 2, 2), Event("any", "set", 7, 2)>>,
             <<Event("npc", "set", -1, 2)>>}

MCGroups ==
  {[Plain EXCEPT !.lists = l, !.mods = m, !.events = e] : l \in ListsOf, m \in ModsOf, e \in EventsOf}
  \cup {[Plain EXCEPT !.settings = [method |-> m, min |-> lo, max |-> hi], !.events = e] :
          m \in Methods, lo \in {0, 4}, hi \in {0, 2, 5}, e \in EventsOf}
  \cup {[Plain EXCEPT !.settings = [groupOnly |-> TRUE]],
        [Plain EXCEPT !.settings = [sharing |-> FALSE]],
        [Plain EXCEPT !.settings = [stacks |-> TRUE]],
        [Plain EXCEPT !.active = FALSE], [Plain EXCEPT !.awards = <<>>],
        [Plain EXCEPT !.awards = [pb |-> 1]]}

NamesOf == {<<>>, <<"Bob">>, <<"Bob", "bob">>, <<"bob", "b_b">>, <<"a_nn", "Ann">>,
            <<"Cid", "Eve">>, <<"Bob", "Cid", "Dan">>}

Drop(value, qty, item, names) ==
  [reason |-> "drop", value |-> value, qty |-> qty, item |-> item, npc |-> 1, time |-> 2,
   receiver |-> ann, own |-> "Ann", names |-> names]

MCSubmissions ==
  {Drop(9, 3, 1, ns) : ns \in NamesOf} \cup {Drop(7, None, 2, ns) : ns \in NamesOf}
  \cup {Drop(0, 1, 1, <<"Bob">>), Drop(15000000, 1, 1, <<"Bob">>)}
  \cup {[Drop(1, None, 0, ns) EXCEPT !.reason = "pb", !.time = 1, !.npc = 0] : ns \in NamesOf}
=============================================================================
