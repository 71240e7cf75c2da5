------------------------------ MODULE SramArea ------------------------------
(***************************************************************************)
(* tools/sram_area.py: how many instances of each SRAM macro make a bank   *)
(* of a given capacity and bus width, what area they take, and how that    *)
(* compares with the commercial macro of the Rev-A baseline.               *)
(*                                                                         *)
(* Outlines are rounded to whole micrometers and areas are in square       *)
(* micrometers; ratios are compared by cross-multiplication, and the       *)
(* rounding of the printed figures is left out.  The inventory holds, of   *)
(* each row, what the arithmetic and the self-check read: "size" is the    *)
(* outline parsed from the quoted LEF line, NoSize when the quotation is   *)
(* not a SIZE line.                                                        *)
(***************************************************************************)
EXTENDS Integers, Sequences, Ordering

NoSize == <<0, 0>>

Measured(key, words, word_bits, width, height) ==
    [key |-> key, words |-> words, word_bits |-> word_bits,
     provenance |-> "lef_measured", obtainable |-> TRUE, free |-> TRUE,
     width |-> width, height |-> height, quoted |-> 0, size |-> <<width, height>>]

Published(key, words, width, height) ==
    [Measured(key, words, 32, width, height) EXCEPT
        !.provenance = "paper_table", !.obtainable = FALSE, !.size = NoSize]

Catalogue(key, words, area) ==
    [Published(key, words, 0, 0) EXCEPT
        !.provenance = "vendor_datasheet", !.free = FALSE, !.quoted = area]

OPENRAM_MACROS ==
    <<Measured("openram_2kbyte_32x512", 512, 32, 683, 417),
      Measured("openram_1kbyte_32x256", 256, 32, 480, 398),
      Measured("openram_1kbyte_8x1024", 1024, 8, 455, 446),
      Measured("openram_legacy_1kbyte_32x256", 256, 32, 376, 446),
      Published("openram_4kbyte_32x1024", 1024, 694, 669),
      Published("openram_8kbyte_32x2048", 2048, 1094, 721)>>

OTHER_MACROS ==
    <<Measured("sram22_2048x32", 2048, 32, 674, 782),
      Measured("sram22_1024x32", 1024, 32, 764, 460),
      Measured("sram22_512x32", 512, 32, 443, 449),
      Catalogue("cf_sram_8192x32", 8192, 1340000),
      Catalogue("cf_sram_4096x32", 4096, 670000),
      Catalogue("cf_sram_1024x32", 1024, 165000)>>

MACROS == OPENRAM_MACROS \o OTHER_MACROS

REFERENCE_KEY == "cf_sram_8192x32"
reference == MACROS[CHOOSE i \in DOMAIN MACROS : MACROS[i].key = REFERENCE_KEY]

CF_PROJECT_PRICE_USD == 2500
OPENFRAME_USER_AREA_MM2 == 15
DEFAULT_BUS_BITS == 32
DEFAULT_TARGETS_BYTES == {32 * 1024, 64 * 1024}

capacity_bytes(macro) == (macro.words * macro.word_bits) \div 8
area(macro) == IF macro.quoted = 0 THEN macro.width * macro.height ELSE macro.quoted

CeilDiv(a, b) == (a + b - 1) \div b
Larger(a, b) == IF a > b THEN a ELSE b
Smaller(a, b) == IF a < b THEN a ELSE b

(***************************************************************************)
(* plan_bank: width first, then depth, both rounded up.  A bus and a word  *)
(* neither of which divides the other raise ValueError.                    *)
(***************************************************************************)
Tiles(macro, bus_bits) ==
    bus_bits % macro.word_bits = 0 \/ macro.word_bits % bus_bits = 0

macros_per_row(macro, bus_bits) == Larger(1, CeilDiv(bus_bits, macro.word_bits))
(* A slip: the depth is rounded down.                                      *)
rows_floor(macro, target, bus_bits) ==
    target \div (macros_per_row(macro, bus_bits) * capacity_bytes(macro))

rows(macro, target, bus_bits) ==
    CeilDiv(target, macros_per_row(macro, bus_bits) * capacity_bytes(macro))
instances(macro, target, bus_bits) ==
    macros_per_row(macro, bus_bits) * rows(macro, target, bus_bits)
realized_bytes(macro, target, bus_bits) ==
    instances(macro, target, bus_bits) * capacity_bytes(macro)

(* The bounding box of n instances in a number of columns.                 *)
Box(macro, n, columns, gap) ==
    [columns |-> columns,
     width |-> columns * macro.width + (columns - 1) * gap.channel_x + 2 * gap.margin,
     height |-> (n \div columns) * macro.height
                  + ((n \div columns) - 1) * gap.channel_y + 2 * gap.margin]

(* Box b is closer to a square than box c.                                 *)
Squarer(b, c) ==
    Larger(b.width, b.height) * Smaller(c.width, c.height)
      < Larger(c.width, c.height) * Smaller(b.width, b.height)

NoBox == [columns |-> 0, width |-> 0, height |-> 0]

(* The most nearly square box; the fewest columns when several are equal.  *)
_add_envelope(macro, n, gap) ==
    LET boxes == {Box(macro, n, c, gap) : c \in {d \in 1..n : n % d = 0}}
    IN CHOOSE b \in boxes : \A c \in boxes \ {b} :
         Squarer(b, c) \/ (~Squarer(c, b) /\ b.columns < c.columns)

NoGap == [channel_x |-> 0, channel_y |-> 0, margin |-> 0]

plan_bank(macro, target, bus_bits, gap) ==
    LET n == instances(macro, target, bus_bits)
        outlined == macro.quoted = 0
    IN [macro |-> macro.key, skipped |-> FALSE, target |-> target, bus_bits |-> bus_bits,
        macros_per_row |-> macros_per_row(macro, bus_bits),
        rows |-> rows(macro, target, bus_bits),
        instances |-> n, realized |-> n * capacity_bytes(macro),
        area |-> n * area(macro),
        box |-> IF gap = NoGap \/ ~outlined THEN NoBox ELSE _add_envelope(macro, n, gap),
        warnings |-> (IF macro.obtainable THEN {} ELSE {"no placeable view"})
                       \cup (IF macro.provenance = "lef_measured" THEN {}
                             ELSE {macro.provenance})
                       \cup (IF gap = NoGap \/ outlined THEN {} ELSE {"no outline"})]

SkippedPlan(macro) ==
    [plan_bank(macro, 0, macro.word_bits, NoGap) EXCEPT !.skipped = TRUE]

(***************************************************************************)
(* compare_to_reference plans the reference macro at the same width, and   *)
(* divides by its area.  The call is outside the try block that skips a    *)
(* macro, so a width the macro tiles and the reference does not ends the   *)
(* whole report, as does an empty reference bank.                          *)
(***************************************************************************)
Comparable(target, bus_bits) ==
    Tiles(reference, bus_bits) /\ instances(reference, target, bus_bits) # 0

compare_to_reference(plan) ==
    LET ref == plan_bank(reference, plan.target, plan.bus_bits, NoGap)
        macro == MACROS[CHOOSE i \in DOMAIN MACROS : MACROS[i].key = plan.macro]
    IN [reference_instances |-> ref.instances, reference_area |-> ref.area,
        extra_area |-> plan.area - ref.area,
        licence_cost_avoided_usd |-> IF macro.free THEN CF_PROJECT_PRICE_USD ELSE 0]

(* build_report for one target: the plans, the cheapest first and the      *)
(* skipped macros last, equal areas in the order of the inventory.         *)
Raises(macro, target, bus_bits, gap) ==
    /\ Tiles(macro, bus_bits)
    /\ \/ macro.key # REFERENCE_KEY /\ ~Comparable(target, bus_bits)
       \/ gap # NoGap /\ macro.quoted = 0 /\ instances(macro, target, bus_bits) = 0

Plans(target, bus_bits, gap) ==
    [i \in DOMAIN MACROS |->
        IF Tiles(MACROS[i], bus_bits)
        THEN plan_bank(MACROS[i], target, bus_bits, gap)
        ELSE SkippedPlan(MACROS[i])]

(* Plan i comes before plan j.                                             *)
Before(plans, i, j) ==
    LET p == plans[i]
        q == plans[j]
    IN \/ ~p.skipped /\ q.skipped
       \/ ~p.skipped /\ ~q.skipped /\ p.area < q.area
       \/ p.skipped = q.skipped /\ (p.skipped \/ p.area = q.area) /\ i < j

build_report(target, bus_bits, gap) ==
    LET plans == Plans(target, bus_bits, gap)
        earlier == [i \in DOMAIN plans |-> {j \in DOMAIN plans : Before(plans, j, i)}]
        raised == \E i \in DOMAIN MACROS : Raises(MACROS[i], target, bus_bits, gap)
    IN [raised |-> raised, plans |-> IF raised THEN <<>> ELSE InOrder(plans, earlier)]

(***************************************************************************)
(* check: the inventory against its quotations, the default plans against  *)
(* their targets, and the user area against the release contract.          *)
(***************************************************************************)
RowConsistent(macro) ==
    /\ macro.provenance \in {"lef_measured", "paper_table", "vendor_datasheet"}
    /\ macro.words > 0 /\ macro.word_bits > 0
    /\ capacity_bytes(macro) * 8 = macro.words * macro.word_bits
    /\ macro.provenance = "lef_measured" => macro.size = <<macro.width, macro.height>>
    /\ macro.provenance = "vendor_datasheet" => macro.quoted # 0 /\ ~macro.obtainable

PlanConsistent(macro, target) ==
    Tiles(macro, DEFAULT_BUS_BITS) =>
      LET per_row == macros_per_row(macro, DEFAULT_BUS_BITS)
          depth == rows(macro, target, DEFAULT_BUS_BITS)
      IN /\ realized_bytes(macro, target, DEFAULT_BUS_BITS) >= target
         /\ depth > 1 => (depth - 1) * per_row * capacity_bytes(macro) < target
         /\ per_row * macro.word_bits >= DEFAULT_BUS_BITS

InventoryConsistent ==
    /\ \A i \in DOMAIN MACROS : /\ RowConsistent(MACROS[i])
                                /\ \A t \in DEFAULT_TARGETS_BYTES : PlanConsistent(MACROS[i], t)
    /\ \A i, j \in DOMAIN MACROS : MACROS[i].key = MACROS[j].key => i = j
    /\ \E i \in DOMAIN MACROS : MACROS[i].key = REFERENCE_KEY

check(user_area_mm2) ==
    IF InventoryConsistent /\ user_area_mm2 = OPENFRAME_USER_AREA_MM2 THEN 0 ELSE 1
=============================================================================
