\* A statement of the documentation that the code does not keep.
SPECIFICATION Spec
CONSTANT Secrets <- MCSecrets
INVARIANT
  UnknownSecretReported
