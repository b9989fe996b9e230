---------------------------- MODULE MCProxyCache ----------------------------
(* ProxyCache for TLC: small heaps, keys that share a bucket, tight limits. *)
EXTENDS ProxyCache, TLC

\* u1 and u2 collide, u3 has a bucket of its own.
MCHash == [u \in Urls |-> IF u = "u3" THEN 2 ELSE 1]

\* The names have different lengths: an entry of u3 occupies a byte more.
MCOverhead == [u \in Urls |-> IF u = "u3" THEN 2 ELSE 1]

\* The directory is new, or an earlier run left a file whose name AddCache comes to
\* use again (a restart within the second, or a clock set back).
MCDirectories == {{}} \cup {{[path |-> <<1, 1>>, inode |-> i]} : i \in Inodes}

NewDirectory == {{}}

Limit(cache, element) == [max_cache_size |-> cache, max_element_size |-> element]

\* One limit that never changes.
FixedLimits == {Limit(4, 3)}

\* A reload can lower the limit below what is stored, and below one element.
ReloadLimits == {Limit(5, 3), Limit(2, 1)}

\* A response without max-age and one that lives for a second.
MCAges == {-1, 1}

\* Heap addresses, inodes and threads are interchangeable: no definition of the
\* specification chooses among them.
Symmetry == Permutations(Nodes) \cup Permutations(Inodes) \cup Permutations(Threads)

=============================================================================
