CONSTANT Programs <- MCPrograms
SPECIFICATION Spec
INVARIANTS LinkTypeOK BindsAsMeant StaticImage FailsForCause
CHECK_DEADLOCK FALSE
