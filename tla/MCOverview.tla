----------------------------- MODULE MCOverview -----------------------------
EXTENDS Overview

Usual == [uuid |-> "g1", name |-> "A", status |-> "ok", health |-> FALSE,
          temperature |-> 40, process_status |-> "ok", processes |-> {}, util |-> 0,
          memory_used |-> 0, memory_total |-> 24 * GiB]

\* One card of each sort, and the boundaries of the thresholds.
Sorts ==
    { Usual,
      [Usual EXCEPT !.memory_total = 24 * GiB - 256, !.temperature = Null],
      [Usual EXCEPT !.memory_total = 48 * GiB, !.memory_used = 2457],
      [Usual EXCEPT !.memory_used = 8 * GiB],
      [Usual EXCEPT !.processes = {"u1"}, !.util = 90, !.memory_used = 20 * GiB],
      [Usual EXCEPT !.temperature = 85],
      [Usual EXCEPT !.health = TRUE],
      [Usual EXCEPT !.status = "timeout", !.util = Null, !.process_status = "unknown"],
      [Usual EXCEPT !.process_status = "unknown"],
      [Usual EXCEPT !.memory_total = Null] }

First(gpus, online, expected) ==
    [id |-> "n1", tags |-> {"t1"}, online |-> online, enrolled |-> TRUE,
     expected |-> expected, gpu_status |-> "ok", gpus |-> gpus]

Second(gpus, status) ==
    [id |-> "n2", tags |-> {}, online |-> TRUE, enrolled |-> TRUE,
     expected |-> 0, gpu_status |-> status, gpus |-> gpus]

Others ==
    { Second({}, "timeout"),
      Second({[Usual EXCEPT !.uuid = "g2"]}, "ok"),
      Second({[Usual EXCEPT !.uuid = "g2", !.name = "B", !.memory_total = 48 * GiB]}, "ok") }

MCLists ==
    {{}} \cup
    {{First({g}, online, expected), other} :
        g \in Sorts, online \in BOOLEAN, expected \in {1, 2}, other \in Others}
=============================================================================
