--------------------------- MODULE MCTemplateStore ---------------------------
(* Instances of TemplateStore: templates 1 and 3 share a partition, the two *)
(* questions have one each.                                                 *)
EXTENDS TemplateStore

CONSTANTS q1, q2, s1, s2, v1, v2

MCQuestion == {q1, q2}
MCPartOf == [t \in Tid |-> t % 2]
MCFPartOf == [q \in MCQuestion |-> IF q = q1 THEN 0 ELSE 1]
MCViewOf == [s \in {s1, s2} |-> IF s = s1 THEN v1 ELSE v2]

\* One session learns, and its caches hold everything.
Learning == [sessions |-> {s1}, lruMax |-> 2, ids |-> 3, marks |-> 3, failures |-> 2,
             operations |-> {"put", "improve", "remove", "record"}]

\* Two sessions with views of their own, stale in what the other has saved, and
\* room for one shard of each kind.
Stale == [sessions |-> {s1, s2}, lruMax |-> 1, ids |-> 2, marks |-> 2, failures |-> 1,
          operations |-> {"put", "remove", "record", "forget"}]

Uses == {Learning, Stale}
=============================================================================
