-------------------------- MODULE MCStripeCommands --------------------------
(* Scenarios for TLC: an offer that is sold, renamed and retired, discounts  *)
(* that want one code, a checkout while its discount is retired, changes of  *)
(* a subscription, and two portal sessions.                                  *)
EXTENDS StripeCommands, TLC

CONSTANTS offer, discount1, discount2, checkout, portal1, portal2, code1, worker1, worker2

Ask(kind, on, revision, content, uses) ==
  [kind |-> kind, on |-> on, revision |-> revision, content |-> content, uses |-> uses]

Asked ==
  "provision1" :> Ask("provision", offer, 1, "plan", {}) @@
  "provision2" :> Ask("provision", offer, 2, "plan", {}) @@
  "deactivate2" :> Ask("deactivate", offer, 2, "retired", {}) @@
  "present1" :> Ask("product-presentation", offer, 1, "name", {}) @@
  "discount1" :> Ask("discount", discount1, 1, "tenth", {<<offer, 0>>}) @@
  "discount1b" :> Ask("discount", discount1, 2, "tenth", {<<offer, 0>>}) @@
  "discount2" :> Ask("discount", discount2, 1, "fifth", {<<offer, 0>>}) @@
  "presentD1" :> Ask("discount-presentation", discount1, 1, "name", {}) @@
  "keep2" :> Ask("discount-lifecycle", discount1, 2, "active", {}) @@
  "retire3" :> Ask("discount-lifecycle", discount1, 3, "retired", {}) @@
  "limit2" :> Ask("discount-lifecycle", discount1, 2, "existing_only", {}) @@
  "retire2" :> Ask("discount-lifecycle", discount1, 2, "retired", {}) @@
  "checkout1" :> Ask("checkout", checkout, 1, "order", {<<offer, 1>>, <<discount1, 0>>}) @@
  "sold" :> Ask("checkout", checkout, 1, "sold", {<<offer, 1>>}) @@
  "change1" :> Ask("subscription-change", checkout, 1, "now", {<<offer, 0>>}) @@
  "coupon2" :> Ask("subscription-discount", checkout, 2, "remove", {}) @@
  "resume2" :> Ask("subscription-pause", checkout, 2, "resume", {}) @@
  "pause1" :> Ask("subscription-pause", checkout, 1, "pause", {}) @@
  "portal1" :> Ask("customer-portal", portal1, 1, "visit", {<<checkout, 0>>}) @@
  "portal2" :> Ask("customer-portal", portal2, 1, "visit", {<<checkout, 0>>})

MCCommands == DOMAIN Asked

Scenario(sendable, completed) ==
  [asked |-> [c \in sendable \cup completed |-> Asked[c]],
   sent |-> sendable, done |-> completed]

MCScenarios ==
  {Scenario({"provision1", "provision2", "deactivate2"}, {}),
   Scenario({"present1", "deactivate2"}, {"provision1"}),
   Scenario({"discount2", "discount1b", "retire2"}, {"provision1", "discount1"}),
   Scenario({"presentD1", "retire2"}, {"provision1", "discount1"}),
   Scenario({"discount1", "keep2", "retire3"}, {"provision1"}),
   Scenario({"limit2", "retire3", "discount2"}, {"provision1", "discount1"}),
   Scenario({"checkout1", "retire2"}, {"provision1", "discount1"}),
   Scenario({"change1", "coupon2", "pause1", "resume2"}, {"provision1", "sold"}),
   Scenario({"portal1", "portal2"}, {"provision1", "sold"})}

MCCode     == [d \in Discounts |-> code1]
Symmetric  == Permutations(Workers)
=============================================================================
