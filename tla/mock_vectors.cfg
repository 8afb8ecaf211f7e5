SPECIFICATION Spec
CONSTANTS
  s1 = s1  s2 = s2  c1 = c1  w1 = w1  w2 = w2  story = story
  Story = {story}
  Writer = {}
  StoryOf <- OneStory
  Asker = {}
  TopK = 1
  MaxFault = 1
  Search = {s1, s2}
  Chunk = {c1}
SYMMETRY Symmetry
CHECK_DEADLOCK FALSE
INVARIANT OnlyModelsFillTheCache
