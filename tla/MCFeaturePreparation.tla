------------------------ MODULE MCFeaturePreparation ------------------------
EXTENDS FeaturePreparation

Flight(id, date, carrier, route, target) ==
  [id |-> id, index |-> 0, date |-> date, carrier |-> carrier, route |-> route, target |-> target]

\* Two years of one flight a month, of two carriers and two routes.
Base2Years ==
  {Flight(i, (2024 + i \div 12) * 10000 + ((i % 12) + 1) * 100 + 10,
          IF i % 2 = 0 THEN "AA" ELSE "DL", IF i % 3 = 0 THEN "X" ELSE "Y",
          IF i % 4 = 1 THEN 1 ELSE 0) : i \in 0..23}

\* Of the second half of November.
Late == Flight(30, 20251120, "AA", "X", 1)

\* The ends of both halves; other keys in November and December; two more
\* flights of a month that training samples; a route that is known only from
\* the month before.
Extras ==
  {Flight(31, 20251115, "DL", "Z", 0),
   Flight(32, 20251116, "DL", "Y", 1), Flight(33, 20251225, "UA", "Y", 1),
   Flight(34, 20250911, "AA", "Z", 1), Flight(35, 20250930, "DL", "X", 0),
   Flight(36, 20241130, "AA", "X", 1), Flight(37, 20251031, "UA", "Z", 1)}

\* A month, or the months of one state, without flights.
Gaps == {{}, {202510}, {202508, 202509, 202510}, {202411}}

\* Each extra flight by itself in a complete history; all of them or none in each.
MCDatasets ==
  {{r \in Base2Years \union {Late} \union e[1] : Month(r.date) \notin e[2]} :
     e \in ({{f} : f \in Extras} \X {{}}) \union ({{}, Extras} \X Gaps)}

MCManifests ==
  {[december_decoded |-> FALSE, sealed |-> TRUE], [december_decoded |-> TRUE, sealed |-> TRUE]}
=============================================================================
