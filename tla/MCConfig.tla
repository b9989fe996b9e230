------------------------------ MODULE MCConfig ------------------------------
(* Config for TLC: a few files that set safe and other fields, one environment and
   the command lines that main tells apart. *)
EXTENDS Config

Text(s) == [text |-> s, atoi |-> 0]
Number(s, n) == [text |-> s, atoi |-> n]

\* The second file has a negative size, and a size that atoi reads as 0.
MCFiles == {
  [f \in {"port", "max_element_size", "log_level"} |->
     CASE f = "port" -> Number("9090", 9090)
       [] f = "max_element_size" -> Number("20", 20)
       [] f = "log_level" -> Text("DEBUG")],
  [f \in {"max_bytes", "max_element_size", "log_file"} |->
     CASE f = "max_bytes" -> Number("-1", -1)
       [] f = "max_element_size" -> Text("ten")
       [] f = "log_file" -> Text("other.log")]}

MCEnvironment == [f \in {"max_cache_size"} |-> Number("1000", 1000)]

NoOptions == [ok |-> TRUE, set |-> [f \in {} |-> Text("")]]
WrongOption == [ok |-> FALSE, set |-> [f \in {} |-> Text("")]]
SomeOptions ==
  [ok |-> TRUE,
   set |-> [f \in {"max_clients", "log_level"} |->
              CASE f = "max_clients" -> Number("4", 4)
                [] f = "log_level" -> Text("WARN")]]

MCCommandLines == {NoOptions, WrongOption, SomeOptions}

=============================================================================
