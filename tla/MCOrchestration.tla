---------------------------- MODULE MCOrchestration ----------------------------
(***************************************************************************)
(* A test by either program: three instances on two workers, whose          *)
(* connections end in five ways; or two instances of two clients.           *)
(***************************************************************************)
EXTENDS LoadTest

Ending(o, r, s, t) == [outcome |-> o, reason |-> r, stalled |-> s, time |-> t]
Ends == {Ending("success", Absent, FALSE, 1), Ending("success", Absent, FALSE, 3),
         Ending("failure", "stalled", TRUE, 2), Ending("failure", "establish", FALSE, Absent),
         Ending("unjudged", Absent, FALSE, 2)}
Limit(r, p, s) == [rate |-> r, p95 |-> p, stalled |-> s]
Limits == {Limit(Absent, Absent, Absent), Limit(<<1, 2>>, Absent, Absent),
           Limit(Absent, 2, Absent), Limit(Absent, Absent, 0), Limit(<<1, 1>>, 3, 1)}

(* Lists of tracks and names in the file, texts on the command line: one    *)
(* track or two, of one name or two, with and without their members, of the *)
(* largest size that fits in a datagram and of one more.                    *)
Name(w) == <<<<Text(w)>>>>
Names == {Name("a"), Name("b"), <<<<Text("a")>>, <<Text("b")>>>>, <<<<Text("a"), Number(1)>>>>,
          Name("")}
Members == {Track(n, r, s, d) : n \in Names, r \in {Absent, 1, 9}, s \in {Absent, 2, 3},
                                 d \in {Absent, "datagram"}}
Few == {Track(n, 1, s, "datagram") : n \in Names, s \in {Absent, 2}} \cup {Track(Name("b"), Absent, Absent, Absent)}
TrackLists == {Absent, <<>>} \cup {<<m>> : m \in Members} \cup {<<m, n>> : m \in Few, n \in Few}
TrackTexts == {Absent, <<<<Text("a"), Number(1), Number(2), Text("datagram")>>, <<Text("b")>>>>,
               <<<<Text("a"), Text("b")>>>>}
NameLists == {Absent, <<>>, <<Name("a")>>, <<Name("b"), Name("a")>>, <<Name("a"), Name("a")>>}
NameTexts == {Absent, Name("b")}
Asking(t, l, u, n) ==
  [cliTracks |-> t, tracks |-> l, cliSubscribe |-> u, subscribe |-> n, datagramMax |-> HeaderMax + 2]
AskedTracks ==
  {Asking(t, l, Absent, Absent) : t \in TrackTexts, l \in TrackLists}
    \cup {Asking(Absent, l, u, n) : l \in {Absent, <<Track(Name("a"), 1, 2, "datagram")>>},
                                   u \in NameTexts, n \in NameLists}

(* What is asked of the tracks has no part in what the process then does:   *)
(* a bound lets it go on from one way of asking only.                       *)
Nothing == Asking(Absent, Absent, Absent, Absent)

Left ==
  /\ program = "zakuro-moq" /\ place # "settings" /\ asked # Nothing
  /\ UNCHANGED loadVars

MCInit == LoadInit /\ (program = "zakuro" => asked = Nothing)

MCNext == Zakuro \/ (Moq /\ (place = "settings" \/ asked = Nothing)) \/ Left

MCSpec == MCInit /\ [][MCNext]_loadVars /\ LoadFairness
===============================================================================
