------------------------------- MODULE MCQuality -------------------------------
(* Instances of Quality for TLC. *)
EXTENDS Quality, TLC

Level(v) == [n \in 1 .. 3 |-> v]

Plain == [device |-> "d1", time |-> 0, received |-> 0, kw |-> 5, kwhTotal |-> 10,
          voltage |-> Level(230), current |-> Level(10), frequency |-> 50,
          powerFactor |-> 90]

Sent(format, x) == [format |-> format, hint |-> "none", sound |-> TRUE,
                    reading |-> x, published |-> x.time]

Later == [Plain EXCEPT !.time = 10, !.received = 20, !.kwhTotal = 30]
Between == [Plain EXCEPT !.time = 8, !.received = 8, !.kwhTotal = 20, !.frequency = 0]
Uncounted == [Plain EXCEPT !.time = 12, !.received = 12, !.kwhTotal = None,
                           !.voltage = [Level(230) EXCEPT ![2] = None],
                           !.frequency = 40, !.kw = 20]
Broken == [Plain EXCEPT !.time = 30, !.received = 60, !.kw = -5, !.kwhTotal = -1]

Messages == {
    Sent("acme", Plain), Sent("forwarded", Later), Sent("acme", Between),
    Sent("satec", Uncounted), Sent("acme", Broken),
    [Sent("satec", Plain) EXCEPT !.hint = "acme"] }

Symmetry == Permutations(Request)
================================================================================
