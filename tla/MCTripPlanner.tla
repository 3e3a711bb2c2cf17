--------------------------- MODULE MCTripPlanner ---------------------------
(* Trips of one to four days over a handful of places along a line, one of *)
(* them two hundred kilometres off (a place whose coordinates are missing  *)
(* is farther still).                                                      *)
EXTENDS TripPlanner

P(id, cat, km, score, price, dur, walk, period) ==
  [id |-> id, cat |-> cat, km |-> km, score |-> score, price |-> price, dur |-> dur,
   min |-> 15, max |-> 240, open |-> 480, close |-> 1080, walk |-> walk, period |-> period,
   tags |-> {cat}, peak |-> FALSE, key |-> id, words |-> {id, cat}]

Known == <<P("palace", "attraction", 0, 90, 100, 180, 4, "morning"),
           P("bazaar", "restaurant", 1, 95, 150, 60, 1, "none"),
           P("lake", "nature", 5, 80, 0, 0, 0, "evening"),
           P("wall", "attraction", 60, 85, 200, 240, 6, "none"),
           P("market", "shopping", 2, 60, 0, 90, 2, "none"),
           P("island", "attraction", 400, 99, 50, 60, 2, "none")>>

Kept(kept) == SelectSeq(Known, LAMBDA p: p.id \in kept)

\* The table has the places of two cities; the description of the bazaar
\* has no vector, the palace has steps, and the island is no longer
\* recommended.
Row(p, city) ==
  p @@ [city |-> city, live |-> p.id # "island", embedded |-> p.id # "bazaar",
        level |-> p.id # "palace",
        suits |-> {"family_elder", "friends"}]

Rows(ps, city) ==
  [i \in DOMAIN ps |-> Row([ps[i] EXCEPT !.key = <<city, ps[i].id>>, !.words = @ \cup {city}], city)]

MCKnowledgeBase == Rows(Known, "big") \o Rows(Kept({"palace", "lake"}), "small")

\* The palace is known by heart too, under another key.
MCByHeart == [big |-> <<Row([Known[1] EXCEPT !.key = "001"], "big"),
                        Row([P("tower", "attraction", 2, 70, 0, 60, 3, "night")
                               EXCEPT !.key = "002"], "big")>>]

MCSearches ==
  {[structured |-> up[1], vector |-> up[2], text |-> up[3], again |-> up[4],
    nearest |-> Reverse(MCKnowledgeBase), ranked |-> MCKnowledgeBase] :
     up \in {<<TRUE, TRUE, TRUE, TRUE>>, <<TRUE, FALSE, FALSE, TRUE>>,
             <<FALSE, FALSE, TRUE, FALSE>>, <<FALSE, FALSE, FALSE, FALSE>>}}

Offered == <<P("palace", "attraction", 0, 90, 100, 180, 4, "none"),
             P("tower", "attraction", 2, 70, 0, 60, 3, "night"),
             P("inn", "restaurant", 3, 60, 80, 90, 0, "none"),
             P("garden", "attraction", 8, 75, 40, 0, 3, "morning"),
             P("museum", "attraction", 10, 88, 0, 240, 3, "none"),
             P("street", "attraction", 1, 65, 0, 120, 3, "none"),
             P("temple", "attraction", 4, 60, 20, 60, 3, "none"),
             P("park", "attraction", 6, 55, 0, 60, 3, "none")>>

Mapped == <<P("tower", "attraction", 2, 70, 0, 60, 3, "none"),
            P("bridge", "attraction", 12, 70, 0, 60, 3, "none"),
            P("diner", "restaurant", 2, 70, 60, 60, 3, "none")>>

\* The far city has no list of its own, or only the minimal one.
MCDefaults == [big |-> Offered, small |-> SubSeq(Offered, 1, 3)]
MCMinimal == [far |-> <<P("gate", "attraction", 0, 0, 0, 0, 0, "none"),
                        P("stall", "restaurant", 0, 0, 0, 0, 0, "none")>>]

Item(kind, p, facts) == [kind |-> kind, place |-> p, facts |-> facts]
NoAnswers == [answers |-> <<>>, snippets |-> <<>>]

\* The answers name the bridge twice and the snippets the park; what is
\* said of places to eat cannot be read, and places to stay are asked for
\* in vain.
MCWorlds ==
  {[open |-> open, late |-> {},
    found |-> [attraction |-> found, restaurant |-> NoAnswers, hotel |-> NoAnswers,
               shopping |-> NoAnswers]] :
     open \in BOOLEAN,
     found \in {[answers |-> <<Item("named", Mapped[2], {"area"}), Item("scalar", Mapped[1], {}),
                              Item("named", Mapped[2], {})>>,
                snippets |-> <<Item("short", Mapped[1], {}),
                               Item("named", Offered[8], {"ticket_price", "best_time"})>>],
               [answers |-> <<Item("named", Mapped[2], {}), Item("broken", Mapped[1], {})>>,
                snippets |-> <<>>]}}
    \cup {[open |-> FALSE, late |-> {"restaurant"},
           found |-> [category \in Range(PoiCategories) |-> NoAnswers]]}

Page(ps, count) ==
  [ok |-> TRUE, count |-> count,
   raws |-> [i \in DOMAIN ps |-> [place |-> ps[i], named |-> TRUE, located |-> TRUE]]]

Broken == [ok |-> FALSE, count |-> 0, raws |-> <<>>]

\* Of the parks there is a second page, whose last place is nowhere; the
\* search for temples fails.
MCAmapReplies ==
  {[attractions |-> <<>>, restaurants |-> <<>>],
   [attractions |-> <<<<Page(<<Mapped[1]>>, 21),
                        [Page(<<Mapped[2], Mapped[2]>>, 21) EXCEPT !.raws[2].located = FALSE]>>,
                      <<Broken, Page(<<Mapped[3]>>, 21)>>>>,
    restaurants |-> <<<<Page(<<Mapped[3]>>, 1)>>>>]}

MCDescribed == {"palace", "museum"}

Parents == [companions |-> "parents", elderly |-> TRUE, children |-> FALSE, wheelchair |-> TRUE,
            avoid |-> {}, style |-> {}, walk |-> 0, transit |-> 90]
Family == [companions |-> "family", elderly |-> FALSE, children |-> TRUE, wheelchair |-> FALSE,
           avoid |-> {"shopping"}, style |-> {}, walk |-> 120, transit |-> 10]
Friends == [companions |-> "friends", elderly |-> FALSE, children |-> FALSE, wheelchair |-> FALSE,
            avoid |-> {"shopping"}, style |-> {"quiet"}, walk |-> 180, transit |-> 0]

Trip(city, d, b, m, who) ==
  who @@ [city |-> city, days |-> d, budget |-> b, restaurants |-> m # 0, meals |-> m,
          must |-> IF who.children THEN {} ELSE {"lake"}, interests |-> {"attraction"}]

MCTurns ==
  {Trip("", 1, 0, 0, Parents)}
    \cup {Trip(city, d, b, m, who) :
            city \in {"big", "small", "far"}, d \in {1, 2}, b \in {0, 400}, m \in {0, 1},
            who \in {Parents, Family}}
    \cup {Trip(city, 4, 400, m, Friends) : city \in {"big", "small", "far"}, m \in {0, 1}}

\* In deep mode one stays at the view for its longest time, which is none.
View == [P("view", "attraction", 3, 40, 10, 30, 1, "none") EXCEPT !.max = 0, !.peak = TRUE]
Pass == [View EXCEPT !.id = "pass", !.score = 90, !.walk = 3, !.peak = FALSE]

\* Bounds that keep the days alike, want one good place and none at its peak.
MCBounds == {NoBounds, [preference |-> 95, peak |-> 0, walk |-> 1, cost |-> 110]}

MCRequests ==
  {[strategy |-> s, places |-> ps,
    c |-> [days |-> d, start |-> 480, end |-> e, transit |-> 120, walk |-> 8, budget |-> 0,
           food |-> 100, rest |-> 60, must |-> must, mode |-> mode, meals |-> 0,
           traveller |-> "young", recovery |-> rate, interests |-> {"attraction"}, eps |-> eps]]:
     s \in {"auto", "cpsat", "greedy"},
     ps \in {<<>>, Kept({"palace", "lake"}), Kept({"lake", "island"}),
             <<View, Known[3], Known[5]>>, <<View, Pass>>},
     d \in {1, 2, 4}, e \in {840, 1080}, must \in {{}, {"view"}},
     mode \in {"quick", "standard", "deep"}, eps \in MCBounds, rate \in {NotGiven, 60}}
=============================================================================
