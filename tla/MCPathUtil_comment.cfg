CONSTANT Inputs <- AnyPaths
SPECIFICATION Spec
INVARIANT FollowsCommentRule
