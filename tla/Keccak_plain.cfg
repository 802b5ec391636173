SPECIFICATION Spec
INVARIANTS PlainDocumented
