------------------------------ MODULE MCReply -------------------------------
(* Two options, one of them the customer's own plan, a law clause and a product clause; five texts:
   a good one, and one each that only a lexicon rule, the numbers, the products or the handles of
   some turns refuse. *)
EXTENDS Reply, TLC

CONSTANTS law, wording, plan, rival, needs, v1

MCDomain == (law :> "law" @@ wording :> "product")
MCSays == (law :> {80} @@ wording :> {} @@ plan :> {} @@ rival :> {} @@ needs :> {})

Both(sets, seeds) == [options |-> {plan, rival}, sets |-> sets, seeds |-> seeds, priced |-> {rival}]
MCRankings == {Both({plan, rival}, {}), Both({plan}, {}), Both({plan, rival}, {plan}),
               [options |-> {plan}, sets |-> {plan}, seeds |-> {}, priced |-> {}]}

Plain == [cites |-> {}, topic |-> None, banned |-> FALSE, names |-> {}, fills |-> {},
          numbers |-> {}, factual |-> FALSE, echoes |-> FALSE]
MCTexts == {
  [Plain EXCEPT !.echoes = TRUE],
  [Plain EXCEPT !.cites = {law}, !.topic = "law", !.numbers = {80}],
  [Plain EXCEPT !.cites = {wording}, !.topic = "law"],
  [Plain EXCEPT !.cites = {rival}, !.names = {rival}, !.factual = TRUE],
  [Plain EXCEPT !.cites = {rival, needs}, !.fills = {rival}]}
=============================================================================
