------------------------------ MODULE MCMparts ------------------------------
(* Instances of Manager for TLC. *)
EXTENDS Manager

\* A host and its load clients, as in apache/__init__.py.
Apache == <<"Host", "Httperf">>

\* A host with a memcached process, and a host that runs the load for one, as
\* in memcached/__init__.py.
Memcached == <<"Host", "Memcached">>
Load == <<"Host", "MemcachedLoad">>

AllBenchmarks == {Apache, Memcached, Load}
ApacheOnly == {Apache}
=============================================================================
