CONSTANTS
  plain = plain
  variadic = variadic
  gen = gen
  slim = slim
  nat = nat
  con = con
  Size = 3
  Main = c0
  Cothreads = {c0, c1}
  Programs = {plain, variadic, gen, slim, nat, con}
  Prototypes = {p}
  Code <- McCode
  Constructor <- McConstructor
  HostCalls = {plain}
  Host = Host
  Null = Null
  Torn = Torn
  Junk = Junk
  Granule = 2
  Garbage = {2}
  Wanted = {2}
  MaxCalls = 3
SPECIFICATION Spec
INVARIANT RegistersInStack
 
INVARIANT HostMatchesFrames
 
CHECK_DEADLOCK FALSE
